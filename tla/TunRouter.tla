----------------------------- MODULE TunRouter -----------------------------
(***************************************************************************)
(* The OS routes of TUN mode: the transactional router (router/src/lib.rs, *)
(* StatefulRouter on the Linux platform), the fail-closed latch around it  *)
(* (tsnet/src/tun_pump.rs, ManagedRouter) and the owner that starts it,    *)
(* closes it and retries a failed close (create_tun_device,                *)
(* cleanup_or_supervise).                                                  *)
(*                                                                         *)
(* Every call runs one `ip` command at a time.  A command can fail, and    *)
(* the process can die between two commands; the kernel's rules and the    *)
(* owner record under /run outlive it, the TUN device and what hangs on it *)
(* do not.  A call is a stack of labels: the code after a callee returns.  *)
(* The mutex of SharedRouter makes calls sequential.                       *)
(***************************************************************************)
EXTENDS Naturals, Sequences, FiniteSets, SequencesExt

CONSTANTS
  Configs,    \* RouterConfigs asked for; `lan` is the preference that denies LAN access
  None,       \* no configuration: Option::None
  V6Modes,    \* whether the kernel has IPv6: a set of Booleans to start from
  MaxFail,    \* bound: commands that fail without a reason in the kernel state
  MaxCrash,   \* bound: deaths of the process
  MaxBypass   \* bound: where the count of bypass acquisitions saturates

ASSUME RouterAssumption ==
  /\ \A c \in Configs :
       /\ c = [addrs |-> c.addrs, routes |-> c.routes, throws |-> c.throws,
               exit |-> c.exit, lan |-> c.lan]
       /\ c.exit \in BOOLEAN /\ c.lan \in BOOLEAN
       /\ \A keys \in {c.addrs, c.routes, c.throws} :
            IsFiniteSet(keys) /\ 6 \notin keys   \* 6 names the address family
  /\ None \notin Configs
  /\ V6Modes \subseteq BOOLEAN /\ V6Modes # {}
  /\ MaxFail \in Nat /\ MaxCrash \in Nat /\ MaxBypass \in Nat

VARIABLES
  kern,     \* what the kernel holds: rules, block rules, routes, addresses, link
  v6,       \* the kernel has IPv6
  owner,    \* the record under /run/rustscale/rule-owners: none, torn (malformed),
            \* live (an open router's), left (this process's, of no open
            \* router), dead (of a process that is gone)
  rt,       \* StatefulRouter
  mg,       \* ManagedRouter, and this owner's share of the underlay bypass
  phase,    \* of the owner: off, starting, running, closing, retained
  stack,    \* the labels of the calls in progress, innermost first
  mode,     \* how a failing command is treated
  cmds,     \* commands still to run
  undo,     \* inverses of the commands this transaction has run
  ret,      \* the result the innermost call has returned
  arg,      \* the configuration the current call is about
  why,      \* the reason the current call latches or clears
  after,    \* reasons to clear once the current sync has succeeded
  faults, crashes

kernelVars == <<kern, v6, owner>>
execVars == <<stack, mode, cmds, undo, ret>>
callVars == <<arg, why, after>>
vars == <<kernelVars, rt, mg, phase, execVars, callVars, faults, crashes>>

Reasons == {"transition", "map", "link"}

EmptyConfig == [addrs |-> {}, routes |-> {}, throws |-> {}, exit |-> FALSE, lan |-> FALSE]
Cfg(c) == IF c = None THEN EmptyConfig ELSE c

FreshRouter == [config |-> None, up |-> FALSE, pending |-> <<>>, owned |-> FALSE,
                recover |-> FALSE, blocked |-> FALSE]
FreshManaged == [exit |-> FALSE, attempted |-> FALSE, verified |-> FALSE,
                 reasons |-> {}, bypass |-> 0]

-----------------------------------------------------------------------------
(* Commands.  An item is <<kind, key>>; the key of a rule, a block rule and   *)
(* a catch-all route is its address family.                                   *)

Link == <<"link", 0>>
PerFamily(kind) == <<<<kind, 4>>, <<kind, 6>>>>
Cmd(verb, items) == [i \in 1..Len(items) |-> <<verb, items[i]>>]
Of(kind, keys) == SetToSeq({<<kind, k>> : k \in keys})

EnableBlock == Cmd("add", PerFamily("block"))
DisableBlock == Cmd("del", PerFamily("block"))
ExitRoutes(verb) == Cmd(verb, PerFamily("exit"))
PolicyRules(verb) == Cmd(verb, PerFamily("rule"))

\* Mutant: an inverse repeats the command it should undo.
Inverse1_Repeats(c) == c

\* RouterOperation::inverse through Platform::commands.
Inverse1(c) == <<IF c[1] = "add" THEN "del" ELSE "add", c[2]>>

\* diff and RouterDiff::operations: bypasses and TUN routes are added before
\* the old ones go, the catch-all goes first and comes last.
Operations(old, new) ==
  (IF old.exit /\ ~new.exit THEN ExitRoutes("del") ELSE <<>>)
  \o Cmd("add", Of("throw", new.throws \ old.throws))
  \o Cmd("add", Of("route", new.routes \ old.routes))
  \o Cmd("del", Of("throw", old.throws \ new.throws))
  \o Cmd("del", Of("route", old.routes \ new.routes))
  \o Cmd("del", Of("addr", old.addrs \ new.addrs))
  \o Cmd("add", Of("addr", new.addrs \ old.addrs))
  \o (IF ~old.exit /\ new.exit THEN ExitRoutes("add") ELSE <<>>)

\* RouterDiff::teardown_operations; Down is the link, then the rules.
Teardown(old) ==
  (IF old.exit THEN ExitRoutes("del") ELSE <<>>)
  \o Cmd("del", Of("route", old.routes)) \o Cmd("del", Of("throw", old.throws))
  \o Cmd("del", Of("addr", old.addrs))
  \o <<<<"del", Link>>>> \o PolicyRules("del")

\* up_cleanup_commands and up_transaction_commands.
UpCleanup == PolicyRules("del") \o (IF rt.recover THEN ExitRoutes("del") ELSE <<>>)
UpTransaction == PolicyRules("add") \o <<<<"add", Link>>>>

\* The kernel's answer.  One prefix has one route in table 52, whether it
\* goes to the TUN or is a throw route.
Table52(item) == IF item[1] \in {"route", "throw"}
                 THEN {<<"route", item[2]>>, <<"throw", item[2]>>} ELSE {item}
Unsupported(c) == ~v6 /\ c[2][2] = 6
Missing(c) == c[1] = "del" /\ c[2] # Link /\ c[2] \notin kern
Exists(c) == c[1] = "add" /\ c[2] # Link /\ Table52(c[2]) \cap kern # {}
\* Routes of a device go when it is set down.
OnDevice == {i \in kern : i[1] \in {"route", "exit"}}
Effect(c) == IF c[1] = "add" THEN kern \cup {c[2]}
             ELSE (kern \ {c[2]}) \ (IF c[2] = Link THEN OnDevice ELSE {})

-----------------------------------------------------------------------------
(* Running commands.  "tx": the first fatal error undoes what has been done.  *)
(* "undo", "pending": a command that fails is kept for a retry.  "all": every *)
(* command runs, the first error counts.  "rtx", "rundo": the rollback of     *)
(* recover_stale_state, whose failures are only reported.                     *)

Run(m, cs, next) ==
  /\ mode' = m /\ cmds' = cs /\ undo' = <<>> /\ ret' = "ok" /\ stack' = next
Goto(next) == stack' = next /\ ret' = "ok" /\ UNCHANGED <<mode, cmds, undo>>
Finish(r) == stack' = Tail(stack) /\ ret' = r /\ UNCHANGED <<mode, cmds, undo>>
At(label) == cmds = <<>> /\ stack # <<>> /\ Head(stack) = label
Then(labels) == labels \o Tail(stack)

NextCommand == Head(cmds)

\* runner.run returned Ok: the inverse joins the rollback list.
CommandOk ==
  /\ cmds # <<>>
  /\ ~Unsupported(NextCommand) /\ ~Missing(NextCommand) /\ ~Exists(NextCommand)
  /\ kern' = Effect(NextCommand)
  /\ cmds' = Tail(cmds)
  /\ undo' = IF mode \in {"tx", "rtx"} THEN <<Inverse1(NextCommand)>> \o undo ELSE undo
  /\ UNCHANGED <<v6, owner, rt, mg, phase, stack, mode, ret, callVars, faults, crashes>>

\* RouterError::non_fatal: a removal of what is not there, or IPv6 without IPv6.
CommandNonFatal ==
  /\ cmds # <<>>
  /\ Unsupported(NextCommand) \/ Missing(NextCommand)
  /\ cmds' = Tail(cmds)
  /\ UNCHANGED <<kernelVars, rt, mg, phase, stack, mode, undo, ret, callVars, faults, crashes>>

\* A fatal error, whether the state of the kernel explains it or not.
CommandFails ==
  /\ cmds # <<>>
  /\ \/ ~Unsupported(NextCommand) /\ Exists(NextCommand) /\ UNCHANGED faults
     \/ faults < MaxFail /\ faults' = faults + 1
  /\ ret' = "err"
  /\ IF mode \in {"tx", "rtx"}
     THEN /\ cmds' = undo
          /\ undo' = <<>>
          /\ mode' = IF mode = "tx" THEN "undo" ELSE "rundo"
          /\ UNCHANGED rt
     ELSE /\ cmds' = Tail(cmds)
          /\ rt' = IF mode \in {"undo", "pending"}
                   THEN [rt EXCEPT !.pending = Append(@, NextCommand)] ELSE rt
          /\ UNCHANGED <<undo, mode>>
  /\ UNCHANGED <<kernelVars, mg, phase, stack, callVars, crashes>>

\* retry_pending_cleanup takes the list; what fails again is put back.
RetryPending(next) ==
  /\ Run("pending", rt.pending, next)
  /\ rt' = [rt EXCEPT !.pending = <<>>]

-----------------------------------------------------------------------------
(* verify_direct_block: `ip rule show` for both families.                     *)

BlockActive(f) == <<"block", f>> \in kern
Verifies(expected) == v6 /\ \A f \in {4, 6} : BlockActive(f) = expected
VerifyOk(expected) == Verifies(expected) /\ UNCHANGED faults
VerifyFails(expected) ==
  \/ ~Verifies(expected) /\ UNCHANGED faults
  \/ faults < MaxFail /\ faults' = faults + 1

\* forget_superseded_cleanup(EnableDirectBlock)
Forget(pending) ==
  LET kept == {i \in DOMAIN pending : pending[i] \notin Range(EnableBlock)}
      Place(k) == CHOOSE i \in kept : Cardinality({h \in kept : h <= i}) = k
  IN [k \in 1..Cardinality(kept) |-> pending[Place(k)]]

BlockDirect ==
  /\ At("block")
  /\ \/ /\ ~rt.blocked
        /\ Run("tx", EnableBlock, Then(<<"block_on">>))
        /\ UNCHANGED <<rt, faults>>
     \/ /\ rt.blocked /\ VerifyOk(TRUE)
        /\ rt' = [rt EXCEPT !.pending = Forget(@)]
        /\ Finish("ok")
     \/ /\ rt.blocked /\ VerifyFails(TRUE)
        /\ Run("tx", DisableBlock, Then(<<"block_off">>))
        /\ UNCHANGED rt
  /\ UNCHANGED <<kernelVars, mg, phase, callVars, crashes>>

BlockRemnantsGone ==
  /\ At("block_off")
  /\ \/ ret = "err" /\ Finish("err") /\ UNCHANGED rt
     \/ /\ ret = "ok"
        /\ rt' = [rt EXCEPT !.blocked = FALSE]
        /\ Run("tx", EnableBlock, Then(<<"block_on">>))
  /\ UNCHANGED <<kernelVars, mg, phase, callVars, faults, crashes>>

BlockInstalled ==
  /\ At("block_on")
  /\ \/ ret = "err" /\ Finish("err") /\ UNCHANGED <<rt, faults>>
     \/ /\ ret = "ok" /\ VerifyOk(TRUE)
        /\ rt' = [rt EXCEPT !.blocked = TRUE, !.pending = Forget(@)]
        /\ Finish("ok")
     \/ /\ ret = "ok" /\ VerifyFails(TRUE)
        /\ rt' = [rt EXCEPT !.blocked = TRUE]
        /\ Finish("err")
  /\ UNCHANGED <<kernelVars, mg, phase, callVars, crashes>>

UnblockDirect ==
  /\ At("unblock")
  /\ IF rt.blocked THEN Run("tx", DisableBlock, Then(<<"unblock_off">>)) ELSE Finish("ok")
  /\ UNCHANGED <<kernelVars, rt, mg, phase, callVars, faults, crashes>>

\* A failed or unverified removal is followed by block_direct at once.
UnblockRemoved ==
  /\ At("unblock_off")
  /\ \/ /\ ret = "ok" /\ VerifyOk(FALSE)
        /\ rt' = [rt EXCEPT !.blocked = FALSE]
        /\ Finish("ok")
     \/ /\ \/ ret = "ok" /\ VerifyFails(FALSE)
           \/ ret = "err" /\ UNCHANGED faults
        /\ Goto(Then(<<"block", "unblock_back">>))
        /\ UNCHANGED rt
  /\ UNCHANGED <<kernelVars, mg, phase, callVars, crashes>>

UnblockRestored ==
  /\ At("unblock_back")
  /\ Finish("err")
  /\ UNCHANGED <<kernelVars, rt, mg, phase, callVars, faults, crashes>>

-----------------------------------------------------------------------------
(* set                                                                        *)

Set ==
  /\ At("set")
  /\ RetryPending(Then(<<"set_diff">>))
  /\ UNCHANGED <<kernelVars, mg, phase, callVars, faults, crashes>>

SetApply ==
  /\ At("set_diff")
  /\ IF ret = "err" THEN Finish("err")
     ELSE Run("tx", Operations(Cfg(rt.config), arg), Then(<<"set_done">>))
  /\ UNCHANGED <<kernelVars, rt, mg, phase, callVars, faults, crashes>>

SetDone ==
  /\ At("set_done")
  /\ rt' = IF ret = "ok" THEN [rt EXCEPT !.config = arg] ELSE rt
  /\ Finish(ret)
  /\ UNCHANGED <<kernelVars, mg, phase, callVars, faults, crashes>>

-----------------------------------------------------------------------------
(* up, and the recovery of what a dead owner left (recover_stale_state)       *)

\* An operation on the record, or on its directory, fails.
RecordFault == faults < MaxFail /\ faults' = faults + 1

\* release_ownership: a record that cannot be read or removed is left, silently.
GiveUpRecord ==
  /\ rt' = [rt EXCEPT !.owned = FALSE]
  /\ \/ ~rt.owned /\ UNCHANGED <<owner, faults>>
     \/ rt.owned /\ owner' = "none" /\ UNCHANGED faults
     \/ rt.owned /\ owner' = "left" /\ RecordFault

Owned(recover) ==
  /\ owner' = "live"
  /\ rt' = [rt EXCEPT !.owned = TRUE, !.recover = recover]
  /\ Goto(Then(<<"up_claimed">>))
  /\ UNCHANGED faults

\* claim_ownership: a new record is created empty and then written; the record
\* of a dead process is replaced and its state adopted; this process's own is
\* taken as it is; an empty one is refused.
Up ==
  /\ At("up")
  /\ \/ /\ owner = "none"
        /\ owner' = "torn"
        /\ Goto(Then(<<"claim_write">>))
        /\ UNCHANGED <<rt, faults>>
     \/ owner = "dead" /\ Owned(TRUE)
     \/ owner = "left" /\ Owned(FALSE)
     \/ /\ \/ owner = "torn" /\ UNCHANGED faults
           \/ RecordFault
        /\ Finish("err")
        /\ UNCHANGED <<owner, rt>>
  /\ UNCHANGED <<kern, v6, mg, phase, callVars, crashes>>

\* A write that fails leaves the record empty, a sync that fails leaves it whole;
\* nobody owns it then, and close() does not remove it.
ClaimWrite ==
  /\ At("claim_write")
  /\ \/ Owned(FALSE)
     \/ /\ RecordFault
        /\ owner' \in {"torn", "left"}
        /\ Finish("err")
        /\ UNCHANGED rt
  /\ UNCHANGED <<kern, v6, mg, phase, callVars, crashes>>

UpClaimed ==
  /\ At("up_claimed")
  /\ RetryPending(Then(<<"up_retried">>))
  /\ UNCHANGED <<kernelVars, mg, phase, callVars, faults, crashes>>

\* up() returns the error; ownership is given up only when nothing is left.
UpFails ==
  /\ Finish("err")
  /\ IF rt.pending = <<>> /\ ~rt.recover
     THEN GiveUpRecord
     ELSE UNCHANGED <<rt, owner, faults>>

UpCleans ==
  /\ At("up_retried")
  /\ \/ ret = "err" /\ UpFails
     \/ /\ ret = "ok" /\ Run("all", UpCleanup, Then(<<"up_cleaned">>))
        /\ UNCHANGED <<rt, owner, faults>>
  /\ UNCHANGED <<kern, v6, mg, phase, callVars, crashes>>

\* The stale block rules that `ip rule show` lists, in the order of removal.
Stale(c) == IF c[2] \in kern THEN <<c>> ELSE <<>>
StaleBlock == Stale(DisableBlock[1]) \o Stale(DisableBlock[2])
ShowFails == \/ ~v6 /\ UNCHANGED faults
             \/ faults < MaxFail /\ faults' = faults + 1
RunRecovery(next) == v6 /\ UNCHANGED faults /\ Run("rtx", StaleBlock, next)

\* While the recovery is not over, a failing up() keeps the record.
UpRecovers ==
  /\ At("up_cleaned")
  /\ \/ ret = "err" /\ UpFails
     \/ ret = "ok" /\ rt.recover /\ ShowFails /\ Finish("err") /\ UNCHANGED <<rt, owner>>
     \/ ret = "ok" /\ rt.recover /\ RunRecovery(Then(<<"up_recovered">>)) /\ UNCHANGED <<rt, owner>>
     \/ /\ ret = "ok" /\ ~rt.recover
        /\ Run("tx", UpTransaction, Then(<<"up_done">>))
        /\ UNCHANGED <<rt, owner, faults>>
  /\ UNCHANGED <<kern, v6, mg, phase, callVars, crashes>>

\* The second round of `ip rule show` must find no stale block rule.
Recovered == \A f \in {4, 6} : ~BlockActive(f)

UpRecovered ==
  /\ At("up_recovered")
  /\ \/ /\ \/ (ret = "err" \/ ~Recovered) /\ UNCHANGED faults
           \/ ret = "ok" /\ ShowFails
        /\ Finish("err")
        /\ UNCHANGED <<rt, owner>>
     \/ /\ ret = "ok" /\ Recovered
        /\ rt' = [rt EXCEPT !.recover = FALSE]
        /\ Run("tx", UpTransaction, Then(<<"up_done">>))
        /\ UNCHANGED <<owner, faults>>
  /\ UNCHANGED <<kern, v6, mg, phase, callVars, crashes>>

UpDone ==
  /\ At("up_done")
  /\ \/ ret = "err" /\ UpFails
     \/ /\ ret = "ok" /\ rt' = [rt EXCEPT !.up = TRUE] /\ Finish("ok")
        /\ UNCHANGED <<owner, faults>>
  /\ UNCHANGED <<kern, v6, mg, phase, callVars, crashes>>

-----------------------------------------------------------------------------
(* close                                                                      *)

Close ==
  /\ At("close")
  /\ IF rt.recover THEN Run("all", UpCleanup, Then(<<"close_cleaned">>))
     ELSE Goto(Then(<<"close_body">>))
  /\ UNCHANGED <<kernelVars, rt, mg, phase, callVars, faults, crashes>>

CloseRecovers ==
  /\ At("close_cleaned")
  /\ \/ ret = "err" /\ Finish("err") /\ UNCHANGED faults
     \/ ret = "ok" /\ ShowFails /\ Finish("err")
     \/ ret = "ok" /\ RunRecovery(Then(<<"close_recovered">>))
  /\ UNCHANGED <<kernelVars, rt, mg, phase, callVars, crashes>>

CloseRecovered ==
  /\ At("close_recovered")
  /\ \/ (ret = "err" \/ ~Recovered) /\ Finish("err") /\ UNCHANGED <<rt, faults>>
     \/ ret = "ok" /\ ShowFails /\ Finish("err") /\ UNCHANGED rt
     \/ /\ ret = "ok" /\ Recovered
        /\ rt' = [rt EXCEPT !.recover = FALSE]
        /\ Goto(Then(<<"close_body">>))
        /\ UNCHANGED faults
  /\ UNCHANGED <<kernelVars, mg, phase, callVars, crashes>>

NothingToClose == ~rt.up /\ rt.config = None /\ rt.pending = <<>> /\ ~rt.blocked

\* The emergency block comes before the first command of the teardown.
CloseBody ==
  /\ At("close_body")
  /\ IF NothingToClose
     THEN GiveUpRecord /\ Finish("ok")
     ELSE /\ Goto(Then(<<"block", "close_blocked">>))
          /\ UNCHANGED <<rt, owner, faults>>
  /\ UNCHANGED <<kern, v6, mg, phase, callVars, crashes>>

CloseBlocked ==
  /\ At("close_blocked")
  /\ \/ ret = "err" /\ Finish("err") /\ UNCHANGED rt
     \/ ret = "ok" /\ RetryPending(Then(<<"close_pending">>))
  /\ UNCHANGED <<kernelVars, mg, phase, callVars, faults, crashes>>

\* The teardown runs whether or not the retry succeeded; either error counts.
CloseTeardown ==
  /\ At("close_pending")
  /\ mode' = "all" /\ cmds' = Teardown(Cfg(rt.config)) /\ undo' = <<>>
  /\ stack' = Then(<<"close_down">>)
  /\ UNCHANGED <<ret, kernelVars, rt, mg, phase, callVars, faults, crashes>>

\* Mutant: an error of the teardown is logged and the router counts as closed.
CloseDown_IgnoresError ==
  /\ At("close_down")
  /\ rt' = [rt EXCEPT !.config = None, !.up = FALSE]
  /\ Goto(Then(<<"unblock", "close_unblocked">>))
  /\ UNCHANGED <<kernelVars, mg, phase, callVars, faults, crashes>>

CloseDown ==
  /\ At("close_down")
  /\ \/ ret = "err" /\ Finish("err") /\ UNCHANGED rt
     \/ /\ ret = "ok"
        /\ rt' = [rt EXCEPT !.config = None, !.up = FALSE]
        /\ Goto(Then(<<"unblock", "close_unblocked">>))
  /\ UNCHANGED <<kernelVars, mg, phase, callVars, faults, crashes>>

CloseDone ==
  /\ At("close_unblocked")
  /\ \/ ret = "err" /\ Finish("err") /\ UNCHANGED <<rt, owner, faults>>
     \/ ret = "ok" /\ GiveUpRecord /\ Finish("ok")
  /\ UNCHANGED <<kern, v6, mg, phase, callVars, crashes>>

-----------------------------------------------------------------------------
(* ManagedRouter: the latch of reasons for the emergency block                *)

\* ensure_managed_security_block(why)
Ensure ==
  /\ At("ensure")
  /\ mg' = [mg EXCEPT !.reasons = @ \cup {why}, !.attempted = @ \/ ~mg.verified]
  /\ IF mg.verified THEN Finish("ok") ELSE Goto(Then(<<"block", "ensured">>))
  /\ UNCHANGED <<kernelVars, rt, phase, callVars, faults, crashes>>

Ensured ==
  /\ At("ensured")
  /\ mg' = [mg EXCEPT !.verified = (ret = "ok")]
  /\ Finish(ret)
  /\ UNCHANGED <<kernelVars, rt, phase, callVars, faults, crashes>>

\* clear_managed_security_block_reason(why): only the last reason unblocks, and
\* only from a verified block.  The code verifies the block here if it is not;
\* every caller has just synced, which verifies a block that was attempted, so
\* that case does not occur: it would be a deadlock of this model.
Clear ==
  /\ At("clear")
  /\ LET others == mg.reasons \ {why} IN
     \/ /\ others # {} \/ (~mg.attempted /\ ~mg.verified)
        /\ mg' = [mg EXCEPT !.reasons = others]
        /\ Finish("ok")
     \/ /\ others = {} /\ mg.verified
        /\ mg' = [mg EXCEPT !.reasons = {why}]
        /\ Goto(Then(<<"clear_unblock">>))
  /\ UNCHANGED <<kernelVars, rt, phase, callVars, faults, crashes>>

\* Mutant: the latch stays verified while the block is being removed.
ClearUnblock_StaysVerified ==
  /\ At("clear_unblock")
  /\ Goto(Then(<<"unblock", "clear_done">>))
  /\ UNCHANGED <<kernelVars, rt, mg, phase, callVars, faults, crashes>>

\* Verification ends the instant the removal starts.
ClearUnblock ==
  /\ At("clear_unblock")
  /\ mg' = [mg EXCEPT !.verified = FALSE]
  /\ Goto(Then(<<"unblock", "clear_done">>))
  /\ UNCHANGED <<kernelVars, rt, phase, callVars, faults, crashes>>

ClearDone ==
  /\ At("clear_done")
  /\ IF ret = "ok"
     THEN /\ mg' = [mg EXCEPT !.attempted = FALSE, !.reasons = {}]
          /\ Finish("ok")
     ELSE Goto(Then(<<"block", "clear_restored">>)) /\ UNCHANGED mg
  /\ UNCHANGED <<kernelVars, rt, phase, callVars, faults, crashes>>

ClearRestored ==
  /\ At("clear_restored")
  /\ mg' = [mg EXCEPT !.verified = (ret = "ok")]
  /\ Finish("err")
  /\ UNCHANGED <<kernelVars, rt, phase, callVars, faults, crashes>>

-----------------------------------------------------------------------------
(* sync_router: the map task, API calls and the link monitor                  *)

Entering == arg.exit /\ ~mg.exit
Leaving == ~arg.exit /\ mg.exit
Idle == stack = <<>>

\* acquire_physical_underlay_bypass counts owners; release gives one back.
Acquire(m) == [m EXCEPT !.bypass = IF @ < MaxBypass THEN @ + 1 ELSE @]
ReleaseBypass(m) == [m EXCEPT !.bypass = IF @ = 0 THEN 0 ELSE @ - 1]

\* A call with configuration c, clearing the reasons rs when it succeeds.  A
\* failing enumeration, bypass or socket refresh leaves everything as it was.
\* A link refresh that is security critical latches its reason first.
Sync(c, rs) ==
  /\ Idle /\ phase = "running"
  /\ arg' = c /\ after' = rs
  /\ LET refresh == "link" \in rs /\ c.exit /\ c.lan IN
     /\ why' = IF refresh THEN "link" ELSE "transition"
     /\ Goto(IF refresh THEN <<"ensure", "sync">> ELSE <<"sync">>)
  /\ UNCHANGED <<kernelVars, rt, mg, phase, faults, crashes>>

SyncStart ==
  /\ At("sync")
  /\ \/ ret = "err" /\ Finish("err") /\ UNCHANGED <<mg, faults>>
     \/ /\ ret = "ok" /\ Entering /\ faults < MaxFail
        /\ faults' = faults + 1
        /\ Finish("err") /\ UNCHANGED mg
     \/ /\ ret = "ok"
        /\ mg' = IF Entering THEN Acquire(mg) ELSE mg
        /\ Goto(Then(IF mg.attempted /\ ~mg.verified
                     THEN <<"block", "sync_verified">> ELSE <<"sync_cover">>))
        /\ UNCHANGED faults
  /\ UNCHANGED <<kernelVars, rt, phase, callVars, crashes>>

SyncVerified ==
  /\ At("sync_verified")
  /\ IF ret = "err" THEN Finish("err") ELSE Goto(Then(<<"sync_cover">>))
  /\ mg' = [mg EXCEPT !.verified = (ret = "ok")]
  /\ UNCHANGED <<kernelVars, rt, phase, callVars, faults, crashes>>

\* Mutant: leaving an exit node is not covered by the block.
NeedsCover_LanOnly == arg.exit /\ arg.lan

\* apply_managed_router_config: which applies the block must cover
NeedsCover == (arg.exit /\ arg.lan) \/ Leaving

SyncCover ==
  /\ At("sync_cover")
  /\ why' = "transition"
  /\ Goto(Then(IF NeedsCover THEN <<"ensure", "sync_set">> ELSE <<"sync_set">>))
  /\ UNCHANGED <<kernelVars, rt, mg, phase, arg, after, faults, crashes>>

SyncSet ==
  /\ At("sync_set")
  /\ IF ret = "err" THEN Finish("err") ELSE Goto(Then(<<"set", "sync_applied">>))
  /\ UNCHANGED <<kernelVars, rt, mg, phase, callVars, faults, crashes>>

SyncApplied ==
  /\ At("sync_applied")
  /\ mg' = [mg EXCEPT !.exit = @ \/ arg.exit]
  /\ IF ret = "err" THEN Finish("err") ELSE Goto(Then(<<"clear", "sync_cleared">>))
  /\ UNCHANGED <<kernelVars, rt, phase, callVars, faults, crashes>>

SyncCleared ==
  /\ At("sync_cleared")
  /\ IF ret = "err" THEN Finish("err") /\ UNCHANGED mg
     ELSE /\ mg' = [IF Leaving THEN ReleaseBypass(mg) ELSE mg EXCEPT !.exit = arg.exit]
          /\ Goto(Then(<<"sync_after">>))
  /\ UNCHANGED <<kernelVars, rt, phase, callVars, faults, crashes>>

\* The caller's own reasons go one by one after a successful sync.
SyncAfter ==
  /\ At("sync_after")
  /\ IF after = {} THEN Finish(ret) /\ UNCHANGED <<why, after>>
     ELSE \E r \in after : /\ why' = r
                           /\ after' = after \ {r}
                           /\ Goto(Then(<<"clear", "sync_after">>))
  /\ UNCHANGED <<kernelVars, rt, mg, phase, arg, faults, crashes>>

\* block_exit_on_map_loss, a failed enumeration in the link monitor, and the
\* withdrawal of all peers, which does not ask for the LAN preference.
Engage(r) ==
  /\ Idle /\ phase = "running"
  /\ arg.exit /\ (arg.lan \/ r = "transition")
  /\ why' = r
  /\ Goto(<<"ensure">>)
  /\ UNCHANGED <<kernelVars, rt, mg, phase, arg, after, faults, crashes>>

-----------------------------------------------------------------------------
(* The owner: create_tun_device, cleanup_or_supervise and its retry           *)

Start(c) ==
  /\ Idle /\ phase = "off"
  /\ phase' = "starting"
  /\ rt' = FreshRouter /\ mg' = FreshManaged
  /\ arg' = c
  /\ Goto(<<"up", "start_up">>)
  /\ UNCHANGED <<kernelVars, why, after, faults, crashes>>

\* Every failing step of the start hands the router to the cleanup.
CleanUp == Goto(<<"close", "closed">>) /\ phase' = "closing"

StartUp ==
  /\ At("start_up")
  /\ \/ ret = "err" /\ CleanUp
     \/ /\ ret = "ok" /\ UNCHANGED phase
        /\ Goto(IF arg.exit /\ arg.lan THEN <<"block", "start_blocked">> ELSE <<"start_set">>)
  /\ UNCHANGED <<kernelVars, rt, mg, callVars, faults, crashes>>

StartBlocked ==
  /\ At("start_blocked")
  /\ mg' = [mg EXCEPT !.attempted = TRUE, !.verified = (ret = "ok"), !.reasons = {"transition"}]
  /\ IF ret = "err" THEN CleanUp ELSE Goto(<<"start_set">>) /\ UNCHANGED phase
  /\ UNCHANGED <<kernelVars, rt, callVars, faults, crashes>>

StartSet ==
  /\ At("start_set")
  /\ \/ /\ mg' = IF arg.exit THEN Acquire(mg) ELSE mg
        /\ Goto(<<"set", "start_applied">>)
        /\ UNCHANGED <<phase, faults>>
     \/ /\ faults < MaxFail /\ faults' = faults + 1
        /\ CleanUp /\ UNCHANGED mg
  /\ UNCHANGED <<kernelVars, rt, callVars, crashes>>

StartApplied ==
  /\ At("start_applied")
  /\ mg' = [mg EXCEPT !.exit = arg.exit, !.verified = @ /\ ret = "err"]
  /\ IF ret = "err" THEN CleanUp
     ELSE /\ Goto(IF mg.verified THEN <<"unblock", "start_open">> ELSE <<"start_open">>)
          /\ UNCHANGED phase
  /\ UNCHANGED <<kernelVars, rt, callVars, faults, crashes>>

StartOpen ==
  /\ At("start_open")
  /\ IF ret = "err"
     THEN mg' = [mg EXCEPT !.verified = TRUE] /\ CleanUp
     ELSE /\ mg' = [mg EXCEPT !.attempted = FALSE, !.reasons = {}]
          /\ phase' = "running"
          /\ Goto(<<>>)
  /\ UNCHANGED <<kernelVars, rt, callVars, faults, crashes>>

\* Server::close and every later retry of a retained router
CloseOwner ==
  /\ Idle /\ phase \in {"running", "retained"}
  /\ CleanUp
  /\ UNCHANGED <<kernelVars, rt, mg, callVars, faults, crashes>>

\* cleanup_router_owner_blocking resets the latch and gives the bypass back.
Closed ==
  /\ At("closed")
  /\ stack' = <<>> /\ ret' = ret /\ UNCHANGED <<mode, cmds, undo>>
  /\ IF ret = "err" THEN phase' = "retained" /\ UNCHANGED mg
     ELSE /\ phase' = "off"
          /\ mg' = [FreshManaged EXCEPT
                    !.bypass = (IF mg.exit THEN ReleaseBypass(mg) ELSE mg).bypass]
  /\ UNCHANGED <<kernelVars, rt, callVars, faults, crashes>>

\* The process dies: the TUN device goes with it, and so does what is on it.
Crash ==
  /\ phase # "off" \/ owner = "left"
  /\ crashes < MaxCrash
  /\ crashes' = crashes + 1
  /\ kern' = {i \in kern : i[1] \in {"rule", "block", "throw"}}
  /\ owner' = IF owner \in {"live", "left"} THEN "dead" ELSE owner
  /\ rt' = FreshRouter /\ mg' = FreshManaged /\ phase' = "off"
  /\ stack' = <<>> /\ cmds' = <<>> /\ undo' = <<>> /\ mode' = "all" /\ ret' = "ok"
  /\ after' = {} /\ UNCHANGED <<v6, arg, why, faults>>

Init ==
  /\ kern = {} /\ owner = "none" /\ v6 \in V6Modes
  /\ rt = FreshRouter /\ mg = FreshManaged /\ phase = "off"
  /\ stack = <<>> /\ mode = "all" /\ cmds = <<>> /\ undo = <<>> /\ ret = "ok"
  /\ arg = EmptyConfig /\ why = "transition" /\ after = {}
  /\ faults = 0 /\ crashes = 0

Command == CommandOk \/ CommandNonFatal \/ CommandFails
RouterStep ==
  \/ BlockDirect \/ BlockRemnantsGone \/ BlockInstalled
  \/ UnblockDirect \/ UnblockRemoved \/ UnblockRestored
  \/ Set \/ SetApply \/ SetDone
  \/ Up \/ ClaimWrite \/ UpClaimed \/ UpCleans \/ UpRecovers \/ UpRecovered \/ UpDone
  \/ Close \/ CloseRecovers \/ CloseRecovered \/ CloseBody \/ CloseBlocked
  \/ CloseTeardown \/ CloseDown \/ CloseDone
ManagedStep ==
  \/ Ensure \/ Ensured
  \/ Clear \/ ClearUnblock \/ ClearDone \/ ClearRestored
  \/ SyncStart \/ SyncVerified \/ SyncCover \/ SyncSet \/ SyncApplied \/ SyncCleared \/ SyncAfter
  \/ StartUp \/ StartBlocked \/ StartSet \/ StartApplied \/ StartOpen \/ Closed
Running == Command \/ RouterStep \/ ManagedStep

Next ==
  \/ Running
  \/ \E c \in Configs, rs \in {{}, {"map"}, {"link"}} : Sync(c, rs)
  \/ \E r \in Reasons : Engage(r)
  \/ \E c \in Configs : Start(c)
  \/ CloseOwner
  \/ Crash

Spec == Init /\ [][Next]_vars

\* A call that has begun runs on, and a retained router is retried: every later
\* start calls retry_pending_router_cleanup first.
FairSpec == Spec /\ WF_vars(Running) /\ WF_vars(CloseOwner /\ phase = "retained")

-----------------------------------------------------------------------------
(* Properties                                                                 *)

\* The state has its type: the kernel state, both routers and the call stack.
TypeOK ==
  /\ v6 \in BOOLEAN /\ owner \in {"none", "torn", "live", "left", "dead"}
  /\ rt.config \in Configs \cup {None} /\ rt.up \in BOOLEAN /\ rt.blocked \in BOOLEAN
  /\ mg.reasons \subseteq Reasons /\ mg.bypass \in 0..MaxBypass
  /\ phase \in {"off", "starting", "running", "closing", "retained"}
  /\ mode \in {"tx", "undo", "pending", "all", "rtx", "rundo"}
  /\ ret \in {"ok", "err"} /\ faults \in 0..MaxFail /\ crashes \in 0..MaxCrash

Blocked == BlockActive(4) /\ (v6 => BlockActive(6))
CatchAll == <<"exit", 4>> \in kern /\ (v6 => <<"exit", 6>> \in kern)

\* The latch believes in a block only while the kernel has it: at every command
\* of every sync, whatever failed before (security_block_verified).
VerifiedIsBlocked == phase = "running" /\ mg.verified => Blocked

\* While the node runs with an exit node in force, its traffic is captured or
\* blocked: at every command of a sync, of its rollback and of later retries.
RunningNeverLeaks == phase = "running" /\ Cfg(rt.config).exit => CatchAll \/ Blocked

\* A close that reports success has left nothing in the kernel, and no record
\* either unless an operation on the record failed: then the record is an empty
\* one or this process's own, which claims no kernel state for a later owner.
CleanClose ==
  phase = "off" /\ crashes = 0 =>
    /\ kern = {}
    /\ owner \in {"none", "torn", "left"} /\ (faults = 0 => owner = "none")

\* What the kernel holds of a configuration, and of the recorded one.
ImageOf(c) ==
  {<<"addr", a>> : a \in c.addrs} \cup {<<"route", p>> : p \in c.routes}
  \cup {<<"throw", p>> : p \in c.throws}
  \cup (IF c.exit THEN {<<"exit", 4>>} \cup (IF v6 THEN {<<"exit", 6>>} ELSE {}) ELSE {})
Image == ImageOf(Cfg(rt.config))

\* set() is all or nothing: between calls, with no inverse left to retry and no
\* crash before (its throw routes outlive it, recorded nowhere), the routes and
\* addresses in the kernel are those of the recorded configuration.
SetIsAtomic ==
  Idle /\ phase = "running" /\ rt.pending = <<>> /\ crashes = 0
    => {i \in kern : i[1] \in {"addr", "route", "throw", "exit"}} = Image

\* A retained router is closed in the end when it is retried ("Failed inverses
\* remain owned and are retried before another set() or during close()").
CleanupCompletes == (phase = "retained") ~> (phase = "off")
=============================================================================
