-------------------------- MODULE TunRouterProofs --------------------------
(***************************************************************************)
(* Proofs about TunRouter: a verified block is in the kernel, an exit node *)
(* in force is captured or blocked, a set is all or nothing, and a close   *)
(* that succeeds leaves nothing behind.                                    *)
(***************************************************************************)
EXTENDS TunRouter, FiniteSetTheorems, SequenceTheorems, TLAPS

-----------------------------------------------------------------------------
(* The calls in progress *)

BlockLabels == {"block", "block_off", "block_on"}
UnblockLabels == {"unblock", "unblock_off", "unblock_back"}
SetLabels == {"set", "set_diff", "set_done"}
UpLabels == {"up", "claim_write", "up_claimed", "up_retried", "up_cleaned", "up_recovered", "up_done"}
CloseLabels == {"close", "close_cleaned", "close_recovered", "close_body", "close_blocked",
                "close_pending", "close_down", "close_unblocked"}
EnsureLabels == {"ensure", "ensured"}
ClearLabels == {"clear", "clear_unblock", "clear_done", "clear_restored"}
SyncLabels == {"sync", "sync_verified", "sync_cover", "sync_set", "sync_applied",
               "sync_cleared", "sync_after"}
StartLabels == {"start_up", "start_blocked", "start_set", "start_applied", "start_open"}

\* Labels of the calls a phase of the owner makes.
LabelsOf(p) ==
  CASE p = "running" -> BlockLabels \cup UnblockLabels \cup SetLabels
                        \cup EnsureLabels \cup ClearLabels \cup SyncLabels
    [] p = "starting" -> BlockLabels \cup UnblockLabels \cup SetLabels \cup UpLabels \cup StartLabels
    [] p = "closing" -> BlockLabels \cup UnblockLabels \cup CloseLabels \cup {"closed"}
    [] OTHER -> {}

\* The labels at which a call may have been made of the procedure with label l.
Awaits(l) ==
  CASE l \in BlockLabels -> {"start_blocked", "unblock_back", "close_blocked", "ensured",
                             "sync_verified", "clear_restored"}
    [] l \in UnblockLabels -> {"start_open", "close_unblocked", "clear_done"}
    [] l \in SetLabels -> {"start_applied", "sync_applied"}
    [] l \in UpLabels -> {"start_up"}
    [] l \in CloseLabels -> {"closed"}
    [] l \in EnsureLabels -> {"sync", "sync_set"}
    [] l \in ClearLabels -> {"sync_cleared", "sync_after"}
    [] OTHER -> {}

Outermost == EnsureLabels \cup SyncLabels \cup StartLabels \cup {"closed"}

FramesOf(s, p) ==
  /\ s \in Seq(LabelsOf(p))
  /\ \A i \in 1..Len(s) : i < Len(s) => s[i + 1] \in Awaits(s[i])
  /\ s # <<>> => s[Len(s)] \in Outermost
Frames == FramesOf(stack, phase)

-----------------------------------------------------------------------------
(* Types *)

Blocks == {<<"block", 4>>, <<"block", 6>>}
Keys == {0, 4, 6} \cup UNION {c.addrs \cup c.routes \cup c.throws : c \in Configs}
Items == {"link", "rule", "block", "exit", "addr", "route", "throw"} \X Keys
Commands == {"add", "del"} \X Items
Routers == [config : Configs \cup {None}, up : BOOLEAN, pending : Seq(Commands),
            owned : BOOLEAN, recover : BOOLEAN, blocked : BOOLEAN]
Latches == [exit : BOOLEAN, attempted : BOOLEAN, verified : BOOLEAN,
            reasons : SUBSET Reasons, bypass : 0..MaxBypass]

Types ==
  /\ kern \subseteq Items /\ v6 \in BOOLEAN /\ owner \in {"none", "torn", "live", "left", "dead"}
  /\ rt \in Routers /\ mg \in Latches
  /\ phase \in {"off", "starting", "running", "closing", "retained"}
  /\ mode \in {"tx", "undo", "pending", "all", "rtx", "rundo"}
  /\ cmds \in Seq(Commands) /\ undo \in Seq(Commands) /\ ret \in {"ok", "err"}
  /\ arg \in Configs \cup {EmptyConfig} /\ why \in Reasons /\ after \subseteq Reasons
  /\ faults \in 0..MaxFail /\ crashes \in 0..MaxCrash

-----------------------------------------------------------------------------
(* What the router still has to undo *)

\* The labels that wait for a transaction.
TxLabels == {"block_off", "block_on", "unblock_off", "set_done", "up_done"}
Top == IF stack = <<>> THEN "idle" ELSE Head(stack)

\* Inverses that will be run or are kept for a retry.
Owed ==
  Range(rt.pending)
  \cup (IF mode = "tx" /\ Top \in TxLabels THEN Range(undo) ELSE {})
  \cup (IF mode \in {"undo", "pending"} THEN Range(cmds) ELSE {})

Base == {<<"rule", 4>>, Link} \cup (IF v6 THEN {<<"rule", 6>>} ELSE {})
\* What the recorded state says the kernel holds, the block left aside.
Wanted == Image \cup (IF rt.up THEN Base ELSE {})

BlockCommands == {"add", "del"} \X Blocks
ExitAdds == {<<"add", <<"exit", 4>>>>, <<"add", <<"exit", 6>>>>}

\* An inverse adds what is wanted and deletes what is not.
OwedFits == \A c \in Owed : c[2] \notin Blocks => (c[1] = "add" <=> c[2] \in Wanted)

\* What the kernel holds is wanted, or will be deleted.
Upper == crashes = 0 => \A i \in kern \ Blocks : i \in Wanted \/ <<"del", i>> \in Owed

\* What is wanted is in the kernel, or will be added.
Lower == phase \in {"starting", "running"} => \A i \in Image : i \in kern \/ <<"add", i>> \in Owed

\* Once the router is down a block rule is recorded, or will be deleted.
BlockUpper ==
  crashes = 0 /\ ~rt.up => \A i \in kern \cap Blocks : rt.blocked \/ <<"del", i>> \in Owed

\* A block rule that will be deleted is there, is not recorded as the block,
\* and is deleted once.
DelBlock == \A i \in Blocks : <<"del", i>> \in Owed => ~rt.blocked /\ i \in kern
Once(s) == \A i, j \in DOMAIN s : s[i] = s[j] /\ s[i][1] = "del" /\ s[i][2] \in Blocks => i = j
OneDel ==
  /\ Once(rt.pending)
  /\ mode \in {"undo", "pending"} => /\ Once(cmds)
                                     /\ \A i \in Blocks : ~(<<"del", i>> \in Range(cmds) /\ <<"del", i>> \in Range(rt.pending))
  /\ mode = "tx" /\ Top \in TxLabels =>
       /\ Once(undo)
       /\ \A i \in Blocks : ~(<<"del", i>> \in Range(undo) /\ <<"del", i>> \in Range(rt.pending))

NoV6 == ~v6 => \A i \in kern : i[2] # 6

-----------------------------------------------------------------------------
(* The latch *)

Latch == phase = "running" /\ mg.verified => Blocked /\ rt.blocked
ExitOwed == phase = "running" /\ Owed \cap ExitAdds # {} => mg.verified
ExitKnown ==
  phase = "running" /\ Cfg(rt.config).exit => mg.exit \/ (Top = "sync_applied" /\ ret = "ok" /\ arg.exit)

-----------------------------------------------------------------------------
(* The owner *)

Ownership ==
  /\ owner = "live" <=> rt.owned
  /\ owner = "dead" => crashes > 0
Recovering ==
  /\ rt.recover => crashes > 0 /\ ~rt.up /\ rt.pending = <<>> /\ ~rt.blocked
  /\ rt.config # None => rt.up
Phases ==
  /\ phase = "running" => rt.up /\ ~rt.recover
  /\ phase = "off" => ~rt.owned /\ (crashes = 0 => kern = {})

-----------------------------------------------------------------------------
(* What holds while a label is on the stack *)

Asked == {"set", "set_diff", "set_done", "start_up", "start_blocked", "start_set", "start_applied", "start_open"}
         \cup SyncLabels
Upped == BlockLabels \cup UnblockLabels \cup {"close_body", "close_blocked", "close_pending", "close_down", "close_unblocked",
         "up_done"}
Pure == Range(rt.pending) \subseteq BlockCommands

Note(l) ==
  /\ l \in Asked => arg \in Configs
  /\ l \in Upped => ~rt.recover
  /\ l \in SetLabels \cup {"start_blocked", "start_set", "start_applied", "start_open"} => rt.up /\ ~rt.recover
  /\ l \in SetLabels /\ phase = "running" => (Cfg(rt.config).exit /\ ~arg.exit => mg.verified)
  /\ l \in {"ensured", "sync_verified", "clear_done", "clear_restored", "start_open"} => ~mg.verified
  /\ l \in ClearLabels \cup {"sync_cleared", "sync_after", "start_open"} =>
       rt.config = arg /\ Range(rt.pending) \cap ExitAdds = {}
  /\ l = "start_open" => mg.exit = arg.exit
  /\ l \in UpLabels => ~rt.up /\ ~rt.blocked
  /\ l \in UpLabels \ {"up_done"} => rt.pending = <<>>
  /\ l \in UpLabels \ {"up", "claim_write"} => rt.owned
  /\ l \in {"up", "claim_write"} => ~rt.owned
  /\ l \in {"close_cleaned", "close_recovered", "up_recovered"} => rt.recover
  /\ l = "claim_write" => owner = "torn"
  /\ l \in {"close_pending", "close_down"} => rt.blocked
  /\ l = "close_unblocked" =>
       ~rt.up /\ Pure /\ (crashes = 0 => kern \subseteq Blocks)
Notes == \A l \in Range(stack) : Note(l)

-----------------------------------------------------------------------------
(* What holds at the top *)

AddBlocks == {<<"add", i>> : i \in Blocks}
DelBlocks == {<<"del", i>> : i \in Blocks}
Rules == {<<"rule", 4>>, <<"rule", 6>>}
Exits == {<<"exit", 4>>, <<"exit", 6>>}
ExitsOf(c) == IF c.exit THEN Exits ELSE {}
Parts(c) ==
  {<<"addr", a>> : a \in c.addrs} \cup {<<"route", p>> : p \in c.routes}
  \cup {<<"throw", p>> : p \in c.throws} \cup ExitsOf(c)
Adds(S) == {<<"add", i>> : i \in S}
Dels(S) == {<<"del", i>> : i \in S}

\* The commands of a transaction, in any order.
Steps(l) ==
  CASE l \in {"block_off", "unblock_off"} -> Dels(Blocks)
    [] l = "block_on" -> Adds(Blocks)
    [] l = "set_done" -> Adds(Parts(arg) \ Parts(Cfg(rt.config))) \cup Dels(Parts(Cfg(rt.config)) \ Parts(arg))
    [] l = "up_done" -> Adds(Rules \cup {Link})
    [] OTHER -> {}
TeardownSteps == Dels(Parts(Cfg(rt.config)) \cup Rules \cup {Link})

\* A command has had its effect, unless the kernel does not know IPv6.
Did(c) == IF c[1] = "add" THEN c[2] \in kern \/ (~v6 /\ c[2][2] = 6) ELSE c[2] \notin kern

TxTop(l) ==
  /\ mode \in {"tx", "undo"} /\ (ret = "ok" <=> mode = "tx")
  /\ mode = "tx" =>
       /\ Range(cmds) \subseteq Steps(l)
       /\ \A c \in Steps(l) : c \in Range(cmds) \/ Did(c)
       /\ \A c \in Range(undo) : Inverse1(c) \in Steps(l)
  /\ mode = "undo" => \A c \in Range(cmds) : Inverse1(c) \in Steps(l)
  /\ l \in {"set_done", "up_done"} /\ mode = "tx" => rt.pending = <<>>
  /\ l \in {"block_off", "unblock_off"} => rt.blocked
  /\ l = "block_on" => ~rt.blocked
  /\ l = "block_on" /\ mode = "tx" =>
       \A i \in Blocks : <<"del", i>> \in Range(rt.pending) => <<"add", i>> \in Range(cmds)

RunLabels == {"set_diff", "up_retried", "up_cleaned", "up_recovered", "close_cleaned",
              "close_recovered", "close_pending", "close_down"}

AtTop(l) ==
  /\ l \notin TxLabels \cup RunLabels => cmds = <<>>
  /\ l \in TxLabels => TxTop(l)
  /\ l \in {"set_diff", "up_retried", "close_pending"} =>
       mode = "pending" /\ (ret = "ok" => rt.pending = <<>>)
  /\ l = "close_pending" => (Range(cmds) \cup Range(rt.pending)) \cap BlockCommands = {}
  /\ l = "up_retried" => cmds = <<>>
  /\ l \in {"up_cleaned", "close_cleaned"} => mode = "all" /\ Range(cmds) \subseteq Dels(Rules \cup Exits)
  /\ l = "close_down" =>
       /\ mode = "all" /\ Range(cmds) \subseteq TeardownSteps
       /\ ret = "ok" => rt.pending = <<>> /\ \A c \in TeardownSteps : c \in Range(cmds) \/ c[2] \notin kern
       /\ Range(rt.pending) \cap BlockCommands = {}
  /\ l \in {"up_recovered", "close_recovered"} =>
       mode \in {"rtx", "rundo"} /\ Range(cmds) \cup Range(undo) \subseteq BlockCommands
  /\ l \in {"start_blocked", "close_blocked", "ensured", "sync_verified", "clear_restored"} /\ ret = "ok" =>
       Blocked /\ rt.blocked /\ Range(rt.pending) \cap BlockCommands = {}
  /\ l = "unblock" /\ stack[2] = "close_unblocked" => rt.blocked
  /\ l = "close_unblocked" /\ ret = "ok" => kern \cap Blocks = {}
  /\ l = "closed" /\ ret = "ok" => ~rt.owned /\ (crashes = 0 => kern = {})
  /\ l = "start_up" /\ ret = "ok" => rt.up /\ ~rt.recover
  /\ l \in {"sync_applied", "start_applied"} /\ ret = "ok" => rt.config = arg /\ rt.pending = <<>> /\ rt.up /\ ~rt.recover
  /\ l = "sync_set" /\ ret = "ok" => (NeedsCover => mg.verified)
TopFits == AtTop(Top)

IInv ==
  /\ Types /\ Frames /\ OwedFits /\ Upper /\ Lower /\ BlockUpper /\ DelBlock /\ OneDel /\ NoV6
  /\ Latch /\ ExitOwed /\ ExitKnown /\ Ownership /\ Recovering /\ Phases /\ Notes /\ TopFits

-----------------------------------------------------------------------------
(* Sequences *)

\* A sequence is its head and its tail.
LEMMA RangeTail ==
  ASSUME NEW T, NEW s \in Seq(T), s # <<>>
  PROVE  /\ Head(s) \in T /\ Tail(s) \in Seq(T) /\ Head(s) = s[1]
         /\ Range(s) = {Head(s)} \cup Range(Tail(s))
<1>1. /\ Len(s) \in Nat /\ Len(s) >= 1 /\ DOMAIN s = 1..Len(s) /\ \A i \in 1..Len(s) : s[i] \in T
      /\ Tail(s) \in Seq(T) /\ Len(Tail(s)) = Len(s) - 1 /\ DOMAIN Tail(s) = 1..(Len(s) - 1)
      /\ \A i \in 1..(Len(s) - 1) : Tail(s)[i] = s[i + 1]
      /\ Head(s) = s[1] OBVIOUS
<1>2. ASSUME NEW i \in DOMAIN s PROVE s[i] \in {Head(s)} \cup Range(Tail(s))
  <2>1. CASE i = 1 BY <1>1, <2>1
  <2>2. CASE i # 1
    <3>1. i - 1 \in 1..(Len(s) - 1) /\ Tail(s)[i - 1] = s[i] BY <1>1, <2>2
    <3> QED BY <1>1, <3>1 DEF Range
  <2> QED BY <2>1, <2>2
<1>3. ASSUME NEW i \in DOMAIN Tail(s) PROVE Tail(s)[i] \in Range(s)
  <2>1. i + 1 \in DOMAIN s /\ Tail(s)[i] = s[i + 1] BY <1>1
  <2> QED BY <2>1 DEF Range
<1>4. Head(s) \in Range(s) BY <1>1 DEF Range
<1>5. Range(s) \subseteq {Head(s)} \cup Range(Tail(s)) BY <1>2 DEF Range
<1>6. Range(Tail(s)) \subseteq Range(s) BY <1>3 DEF Range
<1> QED BY <1>1, <1>4, <1>5, <1>6

\* The elements of an appended sequence, of a concatenation, of the empty one.
LEMMA RangeAppend ==
  ASSUME NEW T, NEW s \in Seq(T), NEW x \in T
  PROVE  Append(s, x) \in Seq(T) /\ Range(Append(s, x)) = Range(s) \cup {x}
<1>1. /\ Len(s) \in Nat /\ DOMAIN s = 1..Len(s)
      /\ Append(s, x) \in Seq(T) /\ DOMAIN Append(s, x) = 1..(Len(s) + 1)
      /\ \A i \in 1..(Len(s) + 1) : Append(s, x)[i] = IF i = Len(s) + 1 THEN x ELSE s[i] OBVIOUS
<1>2. Range(Append(s, x)) \subseteq Range(s) \cup {x} BY <1>1 DEF Range
<1>3. x \in Range(Append(s, x))
  <2>1. Len(s) + 1 \in DOMAIN Append(s, x) /\ Append(s, x)[Len(s) + 1] = x BY <1>1
  <2> QED BY <2>1 DEF Range
<1>4. ASSUME NEW i \in DOMAIN s PROVE s[i] \in Range(Append(s, x))
  <2>1. i \in DOMAIN Append(s, x) /\ Append(s, x)[i] = s[i] BY <1>1
  <2> QED BY <2>1 DEF Range
<1>5. Range(s) \subseteq Range(Append(s, x)) BY <1>4 DEF Range
<1> QED BY <1>1, <1>2, <1>3, <1>5

\* The elements of a concatenation.
LEMMA RangeCat ==
  ASSUME NEW T, NEW s \in Seq(T), NEW t \in Seq(T)
  PROVE  s \o t \in Seq(T) /\ Range(s \o t) = Range(s) \cup Range(t)
<1>1. /\ Len(s) \in Nat /\ Len(t) \in Nat /\ DOMAIN s = 1..Len(s) /\ DOMAIN t = 1..Len(t)
      /\ s \o t \in Seq(T) /\ DOMAIN (s \o t) = 1..(Len(s) + Len(t))
      /\ \A i \in 1..(Len(s) + Len(t)) : (s \o t)[i] = IF i <= Len(s) THEN s[i] ELSE t[i - Len(s)] OBVIOUS
<1>2. ASSUME NEW i \in DOMAIN (s \o t) PROVE (s \o t)[i] \in Range(s) \cup Range(t)
  <2>1. CASE i <= Len(s)
    <3>1. i \in DOMAIN s /\ (s \o t)[i] = s[i] BY <1>1, <2>1
    <3> QED BY <3>1 DEF Range
  <2>2. CASE ~(i <= Len(s))
    <3>1. i - Len(s) \in DOMAIN t /\ (s \o t)[i] = t[i - Len(s)] BY <1>1, <2>2
    <3> QED BY <3>1 DEF Range
  <2> QED BY <2>1, <2>2
<1>3. ASSUME NEW i \in DOMAIN s PROVE s[i] \in Range(s \o t)
  <2>1. i \in DOMAIN (s \o t) /\ (s \o t)[i] = s[i] BY <1>1
  <2> QED BY <2>1 DEF Range
<1>4. ASSUME NEW i \in DOMAIN t PROVE t[i] \in Range(s \o t)
  <2>1. i + Len(s) \in DOMAIN (s \o t) /\ (s \o t)[i + Len(s)] = t[i] BY <1>1
  <2> QED BY <2>1 DEF Range
<1>5. Range(s \o t) \subseteq Range(s) \cup Range(t) BY <1>2 DEF Range
<1>6. Range(s) \subseteq Range(s \o t) /\ Range(t) \subseteq Range(s \o t) BY <1>3, <1>4 DEF Range
<1> QED BY <1>1, <1>5, <1>6

\* The empty sequence has no elements.
LEMMA RangeEmpty == Range(<<>>) = {}
BY DEF Range

\* A sequence of one.
LEMMA RangeOne == ASSUME NEW x PROVE Range(<<x>>) = {x}
BY DEF Range

\* A sequence of two.
LEMMA RangeTwo == ASSUME NEW x, NEW y PROVE Range(<<x, y>>) = {x, y}
<1>1. DOMAIN <<x, y>> = {1, 2} OBVIOUS
<1> QED BY <1>1 DEF Range

\* A new first element.
LEMMA RangeCons ==
  ASSUME NEW T, NEW s \in Seq(T), NEW x \in T PROVE <<x>> \o s \in Seq(T) /\ Range(<<x>> \o s) = {x} \cup Range(s)
<1> DEFINE t == <<x>>
<1>1. t \in Seq(T) /\ Range(t) = {x} BY RangeOne
<1> HIDE DEF t
<1>2. t \o s \in Seq(T) /\ Range(t \o s) = {x} \cup Range(s) BY <1>1, RangeCat
<1> QED BY <1>2 DEF t

\* A sequence without elements is empty.
LEMMA NoElements == ASSUME NEW T, NEW s \in Seq(T), Range(s) = {} PROVE s = <<>>
<1>1. CASE s # <<>> BY <1>1, RangeTail
<1> QED BY <1>1

-----------------------------------------------------------------------------
(* The operators of the router *)

\* The positions I of a sequence are ranked from 1 to Cardinality(I), each rank
\* being that of one position.
LEMMA Ranks ==
  ASSUME NEW n \in Nat, NEW I \in SUBSET (1..n)
  PROVE  /\ Cardinality(I) \in Nat
         /\ \A k \in 1..Cardinality(I) : \E i \in I : Cardinality({h \in I : h <= i}) = k
         /\ \A i \in I : Cardinality({h \in I : h <= i}) \in 1..Cardinality(I)
         /\ \A i, m \in I : Cardinality({h \in I : h <= i}) = Cardinality({h \in I : h <= m}) => i = m
<1> DEFINE Upto(i) == {h \in I : h <= i}
           rank == [i \in I |-> Cardinality(Upto(i))]
<1>1. IsFiniteSet(I) /\ Cardinality(I) \in Nat
  <2>1. IsFiniteSet(1..n) BY FS_Interval
  <2> QED BY <2>1, FS_Subset, FS_CardinalityType
<1>2. ASSUME NEW i \in I PROVE IsFiniteSet(Upto(i)) /\ Cardinality(Upto(i)) \in 1..Cardinality(I)
  <2>1. Upto(i) \in SUBSET I /\ i \in Upto(i) OBVIOUS
  <2>2. IsFiniteSet(Upto(i)) /\ Cardinality(Upto(i)) <= Cardinality(I) BY <1>1, <2>1, FS_Subset
  <2>3. Cardinality(Upto(i)) \in Nat /\ Cardinality(Upto(i)) # 0
    BY <2>1, <2>2, FS_CardinalityType, FS_EmptySet
  <2> QED BY <1>1, <2>2, <2>3
<1>3. ASSUME NEW i \in I, NEW m \in I, i < m PROVE Cardinality(Upto(i)) # Cardinality(Upto(m))
  <2>1. \A h \in I : h \in Int OBVIOUS
  <2>2. ASSUME NEW h \in Upto(i) PROVE h \in Upto(m) BY <1>3, <2>1
  <2>3. m \in Upto(m) /\ m \notin Upto(i) BY <1>3, <2>1
  <2> HIDE DEF Upto
  <2> QED BY <1>2, <2>2, <2>3, FS_Subset
<1>4. ASSUME NEW i \in I, NEW m \in I, Cardinality(Upto(i)) = Cardinality(Upto(m)) PROVE i = m
  <2>1. i \in Int /\ m \in Int OBVIOUS
  <2> HIDE DEF Upto
  <2> QED BY <1>3, <1>4, <2>1
<1> HIDE DEF Upto
<1>5. rank \in Injection(I, 1..Cardinality(I)) BY <1>2, <1>4 DEF Injection, IsInjective
<1>6. IsFiniteSet(1..Cardinality(I)) /\ Cardinality(1..Cardinality(I)) = Cardinality(I)
  BY <1>1, FS_Interval
<1>7. rank \in Surjection(I, 1..Cardinality(I)) BY <1>5, <1>6, FS_Injection
<1>8. \A k \in 1..Cardinality(I) : \E i \in I : rank[i] = k BY <1>7 DEF Surjection
<1>9. \A k \in 1..Cardinality(I) : \E i \in I : Cardinality(Upto(i)) = k BY <1>8
<1> QED BY <1>1, <1>2, <1>4, <1>9 DEF Upto

\* forget_superseded_cleanup leaves what does not enable the block.
LEMMA ForgetIs ==
  ASSUME NEW p \in Seq(Commands)
  PROVE  /\ Forget(p) \in Seq(Commands) /\ Range(Forget(p)) = Range(p) \ Range(EnableBlock)
         /\ Once(p) => Once(Forget(p))
<1> DEFINE I == {i \in DOMAIN p : p[i] \notin Range(EnableBlock)}
           Rank(i) == Cardinality({h \in I : h <= i})
           Place(k) == CHOOSE i \in I : Rank(i) = k
<1>1. Len(p) \in Nat /\ DOMAIN p = 1..Len(p) /\ I \in SUBSET (1..Len(p)) OBVIOUS
<1>2. /\ Cardinality(I) \in Nat
      /\ \A k \in 1..Cardinality(I) : \E i \in I : Rank(i) = k
      /\ \A i \in I : Rank(i) \in 1..Cardinality(I)
      /\ \A i, m \in I : Rank(i) = Rank(m) => i = m
  <2> HIDE DEF I
  <2> QED BY <1>1, Ranks
<1>3. Forget(p) = [k \in 1..Cardinality(I) |-> p[Place(k)]] BY DEF Forget
<1> HIDE DEF Rank
<1>4. \A k \in 1..Cardinality(I) : Place(k) \in I /\ Rank(Place(k)) = k BY <1>2
<1>5. \A i \in I : Rank(i) \in 1..Cardinality(I) /\ Place(Rank(i)) = i BY <1>2, <1>4
<1> HIDE DEF Place
<1>6. \A i \in I : p[i] \in Commands /\ i \in DOMAIN p BY <1>1
<1>7. Forget(p) \in Seq(Commands) BY <1>2, <1>3, <1>4, <1>6
<1>8. Range(Forget(p)) = {p[Place(k)] : k \in 1..Cardinality(I)} BY <1>3 DEF Range
<1>9. Range(p) \ Range(EnableBlock) = {p[i] : i \in I} BY DEF Range
<1>10. ASSUME Once(p) PROVE Once(Forget(p))
  <2> HIDE DEF I
  <2>1. DOMAIN Forget(p) = 1..Cardinality(I) /\ \A k \in 1..Cardinality(I) : Forget(p)[k] = p[Place(k)]
    BY <1>3
  <2>2. \A k \in 1..Cardinality(I) : Place(k) \in DOMAIN p BY <1>4, <1>6
  <2>3. \A k, m \in 1..Cardinality(I) : Place(k) = Place(m) => k = m BY <1>4
  <2> QED BY <1>10, <2>1, <2>2, <2>3 DEF Once
<1> QED
  <2> HIDE DEF I
  <2> QED BY <1>4, <1>5, <1>7, <1>8, <1>9, <1>10

\* SetToSeq lists the elements of a finite set.
LEMMA SetToSeqIs ==
  ASSUME NEW S, IsFiniteSet(S)
  PROVE  SetToSeq(S) \in Seq(S) /\ Range(SetToSeq(S)) = S
<1> DEFINE n == Cardinality(S)
           q == SetToSeq(S)
<1>1. n \in Nat /\ ExistsBijection(1..n, S) BY FS_CardinalityType
<1>2. PICK f : f \in [1..n -> S] /\ IsInjective(f)
  BY <1>1 DEF ExistsBijection, Bijection, Injection
<1>3. q \in [1..n -> S] /\ IsInjective(q)
  <2> HIDE DEF n
  <2> QED BY <1>2 DEF SetToSeq, n
<1> HIDE DEF q
<1>4. q \in Injection(1..n, S) BY <1>3 DEF Injection
<1>5. IsFiniteSet(1..n) /\ Cardinality(1..n) = n
  <2> HIDE DEF n
  <2> QED BY <1>1, FS_Interval
<1>6. q \in Surjection(1..n, S) BY <1>4, <1>5, FS_Injection
<1> HIDE DEF n
<1>7. Range(q) = S
  <2>1. DOMAIN q = 1..n /\ \A k \in 1..n : q[k] \in S BY <1>3
  <2>2. \A x \in S : \E k \in 1..n : q[k] = x BY <1>6 DEF Surjection
  <2> QED BY <2>1, <2>2 DEF Range
<1>8. q \in Seq(S) BY <1>1, <1>3
<1> QED BY <1>7, <1>8 DEF q

\* The same command for each item of a list.
LEMMA CmdIs ==
  ASSUME NEW verb \in {"add", "del"}, NEW s \in Seq(Items)
  PROVE  Cmd(verb, s) \in Seq(Commands) /\ Range(Cmd(verb, s)) = {<<verb, i>> : i \in Range(s)}
<1>1. Len(s) \in Nat /\ DOMAIN s = 1..Len(s) /\ \A i \in 1..Len(s) : s[i] \in Items OBVIOUS
<1>2. Cmd(verb, s) = [i \in 1..Len(s) |-> <<verb, s[i]>>] BY DEF Cmd
<1>3. \A i \in 1..Len(s) : <<verb, s[i]>> \in Commands BY <1>1 DEF Commands
<1>4. Cmd(verb, s) \in Seq(Commands) BY <1>1, <1>2, <1>3
<1>5. Range(Cmd(verb, s)) = {<<verb, s[i]>> : i \in 1..Len(s)} BY <1>2 DEF Range
<1>6. {<<verb, i>> : i \in Range(s)} = {<<verb, s[i]>> : i \in 1..Len(s)} BY <1>1 DEF Range
<1> QED BY <1>4, <1>5, <1>6

\* Both families of a kind.
LEMMA FamilyIs ==
  ASSUME NEW verb \in {"add", "del"}, NEW kind \in {"rule", "block", "exit"}
  PROVE  /\ Cmd(verb, PerFamily(kind)) \in Seq(Commands)
         /\ Range(Cmd(verb, PerFamily(kind))) = {<<verb, <<kind, 4>>>>, <<verb, <<kind, 6>>>>}
<1>1. <<kind, 4>> \in Items /\ <<kind, 6>> \in Items BY DEF Items, Keys
<1>2. PerFamily(kind) \in Seq(Items) /\ Range(PerFamily(kind)) = {<<kind, 4>>, <<kind, 6>>}
  BY <1>1, RangeTwo DEF PerFamily
<1>3. {<<verb, i>> : i \in {<<kind, 4>>, <<kind, 6>>}} = {<<verb, <<kind, 4>>>>, <<verb, <<kind, 6>>>>} OBVIOUS
<1> QED BY <1>2, <1>3, CmdIs

\* The items of a kind with the keys of a part of a configuration.
LEMMA OfIs ==
  ASSUME NEW verb \in {"add", "del"}, NEW kind \in {"addr", "route", "throw"},
         NEW keys \in SUBSET Keys, IsFiniteSet(keys)
  PROVE  /\ Cmd(verb, Of(kind, keys)) \in Seq(Commands)
         /\ Range(Cmd(verb, Of(kind, keys))) = {<<verb, <<kind, k>>>> : k \in keys}
<1> DEFINE S == {<<kind, k>> : k \in keys}
           f == [k \in keys |-> <<kind, k>>]
<1>1. f \in Surjection(keys, S) BY DEF Surjection
<1>2. IsFiniteSet(S) BY <1>1, FS_Surjection
<1>3. Of(kind, keys) \in Seq(S) /\ Range(Of(kind, keys)) = S BY <1>2, SetToSeqIs DEF Of
<1>4. S \subseteq Items BY DEF Items
<1>5. Of(kind, keys) \in Seq(Items) BY <1>3, <1>4
<1>6. {<<verb, i>> : i \in S} = {<<verb, <<kind, k>>>> : k \in keys} OBVIOUS
<1> QED BY <1>3, <1>5, <1>6, CmdIs

\* A configuration: its parts are finite sets of prefixes, none named 6.
IsConfig(c) ==
  /\ c.exit \in BOOLEAN /\ c.lan \in BOOLEAN
  /\ c.addrs \in SUBSET Keys /\ c.routes \in SUBSET Keys /\ c.throws \in SUBSET Keys
  /\ IsFiniteSet(c.addrs) /\ IsFiniteSet(c.routes) /\ IsFiniteSet(c.throws)
  /\ 6 \notin c.addrs /\ 6 \notin c.routes /\ 6 \notin c.throws

\* Every configuration asked for is one, and so is the empty one.
LEMMA ConfigIs == ASSUME NEW c \in Configs \cup {EmptyConfig} PROVE IsConfig(c)
<1>1. CASE c \in Configs
  <2>1. c.addrs \cup c.routes \cup c.throws \subseteq Keys BY <1>1 DEF Keys
  <2>2. /\ c.exit \in BOOLEAN /\ c.lan \in BOOLEAN
        /\ IsFiniteSet(c.addrs) /\ IsFiniteSet(c.routes) /\ IsFiniteSet(c.throws)
        /\ 6 \notin c.addrs /\ 6 \notin c.routes /\ 6 \notin c.throws
    BY <1>1, RouterAssumption
  <2> QED BY <2>1, <2>2 DEF IsConfig
<1>2. CASE c = EmptyConfig BY <1>2, FS_EmptySet DEF IsConfig, EmptyConfig
<1> QED BY <1>1, <1>2

\* No configuration counts as the empty one.
LEMMA CfgIs == ASSUME NEW c \in Configs \cup {None} PROVE Cfg(c) \in Configs \cup {EmptyConfig}
BY DEF Cfg

\* What one configuration has and another has not, kind by kind.
LEMMA DifferenceIs ==
  ASSUME NEW old, NEW new, NEW verb, old.exit \in BOOLEAN, new.exit \in BOOLEAN
  PROVE  {<<verb, i>> : i \in Parts(new) \ Parts(old)} =
           {<<verb, <<"throw", k>>>> : k \in new.throws \ old.throws}
           \cup {<<verb, <<"route", k>>>> : k \in new.routes \ old.routes}
           \cup {<<verb, <<"addr", k>>>> : k \in new.addrs \ old.addrs}
           \cup (IF ~old.exit /\ new.exit THEN {<<verb, i>> : i \in Exits} ELSE {})
<1> DEFINE R == {<<"throw", k>> : k \in new.throws \ old.throws}
                \cup {<<"route", k>> : k \in new.routes \ old.routes}
                \cup {<<"addr", k>> : k \in new.addrs \ old.addrs}
                \cup (IF ~old.exit /\ new.exit THEN Exits ELSE {})
<1>1. ASSUME NEW i \in Parts(new) \ Parts(old) PROVE i \in R BY DEF Parts, ExitsOf, Exits
<1>2. ASSUME NEW i \in R PROVE i \in Parts(new) \ Parts(old) BY DEF Parts, ExitsOf, Exits
<1>3. Parts(new) \ Parts(old) = R BY <1>1, <1>2
<1>4. {<<verb, i>> : i \in R} =
           {<<verb, <<"throw", k>>>> : k \in new.throws \ old.throws}
           \cup {<<verb, <<"route", k>>>> : k \in new.routes \ old.routes}
           \cup {<<verb, <<"addr", k>>>> : k \in new.addrs \ old.addrs}
           \cup (IF ~old.exit /\ new.exit THEN {<<verb, i>> : i \in Exits} ELSE {})
  OBVIOUS
<1> QED BY <1>3, <1>4

\* The commands of a set, in any order.
LEMMA OperationsAre ==
  ASSUME NEW old, IsConfig(old), NEW new, IsConfig(new)
  PROVE  /\ Operations(old, new) \in Seq(Commands)
         /\ Range(Operations(old, new)) = Adds(Parts(new) \ Parts(old)) \cup Dels(Parts(old) \ Parts(new))
<1> DEFINE a == IF old.exit /\ ~new.exit THEN ExitRoutes("del") ELSE <<>>
           b == Cmd("add", Of("throw", new.throws \ old.throws))
           c == Cmd("add", Of("route", new.routes \ old.routes))
           d == Cmd("del", Of("throw", old.throws \ new.throws))
           e == Cmd("del", Of("route", old.routes \ new.routes))
           f == Cmd("del", Of("addr", old.addrs \ new.addrs))
           g == Cmd("add", Of("addr", new.addrs \ old.addrs))
           h == IF ~old.exit /\ new.exit THEN ExitRoutes("add") ELSE <<>>
           C(verb, kind, keys) == {<<verb, <<kind, k>>>> : k \in keys}
<1>1. /\ a \in Seq(Commands) /\ Range(a) = IF old.exit /\ ~new.exit THEN Dels(Exits) ELSE {}
      /\ h \in Seq(Commands) /\ Range(h) = IF ~old.exit /\ new.exit THEN Adds(Exits) ELSE {}
  <2>1. /\ ExitRoutes("del") \in Seq(Commands) /\ Range(ExitRoutes("del")) = Dels(Exits)
        /\ ExitRoutes("add") \in Seq(Commands) /\ Range(ExitRoutes("add")) = Adds(Exits)
    BY FamilyIs DEF ExitRoutes, Exits, Adds, Dels
  <2>2. <<>> \in Seq(Commands) /\ Range(<<>>) = {} BY RangeEmpty
  <2> QED BY <2>1, <2>2
<1>2. /\ IsFiniteSet(new.throws \ old.throws) /\ IsFiniteSet(old.throws \ new.throws)
      /\ IsFiniteSet(new.routes \ old.routes) /\ IsFiniteSet(old.routes \ new.routes)
      /\ IsFiniteSet(new.addrs \ old.addrs) /\ IsFiniteSet(old.addrs \ new.addrs)
  BY FS_Difference DEF IsConfig
<1>3. /\ b \in Seq(Commands) /\ Range(b) = C("add", "throw", new.throws \ old.throws)
      /\ d \in Seq(Commands) /\ Range(d) = C("del", "throw", old.throws \ new.throws)
  BY <1>2, OfIs DEF IsConfig
<1>4. /\ c \in Seq(Commands) /\ Range(c) = C("add", "route", new.routes \ old.routes)
      /\ e \in Seq(Commands) /\ Range(e) = C("del", "route", old.routes \ new.routes)
  BY <1>2, OfIs DEF IsConfig
<1>5. /\ g \in Seq(Commands) /\ Range(g) = C("add", "addr", new.addrs \ old.addrs)
      /\ f \in Seq(Commands) /\ Range(f) = C("del", "addr", old.addrs \ new.addrs)
  BY <1>2, OfIs DEF IsConfig
<1>6. Operations(old, new) = a \o b \o c \o d \o e \o f \o g \o h BY DEF Operations
<1> HIDE DEF a, b, c, d, e, f, g, h
<1>7. /\ Operations(old, new) \in Seq(Commands)
      /\ Range(Operations(old, new)) =
           Range(a) \cup Range(b) \cup Range(c) \cup Range(d) \cup Range(e) \cup Range(f) \cup Range(g) \cup Range(h)
  <2> DEFINE s2 == a \o b
             s3 == s2 \o c
             s4 == s3 \o d
             s5 == s4 \o e
             s6 == s5 \o f
             s7 == s6 \o g
             s8 == s7 \o h
  <2>1. Operations(old, new) = s8 BY <1>6
  <2>2. s2 \in Seq(Commands) /\ Range(s2) = Range(a) \cup Range(b) BY <1>1, <1>3, RangeCat
  <2> HIDE DEF s2
  <2>3. s3 \in Seq(Commands) /\ Range(s3) = Range(s2) \cup Range(c) BY <1>4, <2>2, RangeCat
  <2> HIDE DEF s3
  <2>4. s4 \in Seq(Commands) /\ Range(s4) = Range(s3) \cup Range(d) BY <1>3, <2>3, RangeCat
  <2> HIDE DEF s4
  <2>5. s5 \in Seq(Commands) /\ Range(s5) = Range(s4) \cup Range(e) BY <1>4, <2>4, RangeCat
  <2> HIDE DEF s5
  <2>6. s6 \in Seq(Commands) /\ Range(s6) = Range(s5) \cup Range(f) BY <1>5, <2>5, RangeCat
  <2> HIDE DEF s6
  <2>7. s7 \in Seq(Commands) /\ Range(s7) = Range(s6) \cup Range(g) BY <1>5, <2>6, RangeCat
  <2> HIDE DEF s7
  <2>8. s8 \in Seq(Commands) /\ Range(s8) = Range(s7) \cup Range(h) BY <1>1, <2>7, RangeCat
  <2> HIDE DEF s8
  <2> QED BY <2>1, <2>2, <2>3, <2>4, <2>5, <2>6, <2>7, <2>8
<1>8. Adds(Parts(new) \ Parts(old)) =
        C("add", "throw", new.throws \ old.throws) \cup C("add", "route", new.routes \ old.routes)
        \cup C("add", "addr", new.addrs \ old.addrs) \cup (IF ~old.exit /\ new.exit THEN Adds(Exits) ELSE {})
  BY DifferenceIs DEF Adds, IsConfig
<1>9. Dels(Parts(old) \ Parts(new)) =
        C("del", "throw", old.throws \ new.throws) \cup C("del", "route", old.routes \ new.routes)
        \cup C("del", "addr", old.addrs \ new.addrs) \cup (IF ~new.exit /\ old.exit THEN Dels(Exits) ELSE {})
  BY DifferenceIs DEF Dels, IsConfig
<1> QED BY <1>1, <1>3, <1>4, <1>5, <1>7, <1>8, <1>9, ZenonT(40)

\* The commands of a teardown, in any order.
LEMMA TeardownIs ==
  ASSUME NEW old, IsConfig(old)
  PROVE  /\ Teardown(old) \in Seq(Commands)
         /\ Range(Teardown(old)) = Dels(Parts(old) \cup Rules \cup {Link})
<1> DEFINE C(kind, keys) == {<<"del", <<kind, k>>>> : k \in keys}
           a == IF old.exit THEN ExitRoutes("del") ELSE <<>>
           b == Cmd("del", Of("route", old.routes))
           c == Cmd("del", Of("throw", old.throws))
           d == Cmd("del", Of("addr", old.addrs))
           e == <<<<"del", Link>>>>
           f == PolicyRules("del")
           s2 == a \o b
           s3 == s2 \o c
           s4 == s3 \o d
           s5 == s4 \o e
           s6 == s5 \o f
<1>1. a \in Seq(Commands) /\ Range(a) = Dels(ExitsOf(old))
  <2>1. ExitRoutes("del") \in Seq(Commands) /\ Range(ExitRoutes("del")) = Dels(Exits)
    BY FamilyIs DEF ExitRoutes, Exits, Dels
  <2>2. <<>> \in Seq(Commands) /\ Range(<<>>) = {} /\ Dels({}) = {} BY RangeEmpty DEF Dels
  <2> QED BY <2>1, <2>2 DEF ExitsOf
<1>2. b \in Seq(Commands) /\ Range(b) = C("route", old.routes) BY OfIs DEF IsConfig
<1>3. c \in Seq(Commands) /\ Range(c) = C("throw", old.throws) BY OfIs DEF IsConfig
<1>4. d \in Seq(Commands) /\ Range(d) = C("addr", old.addrs) BY OfIs DEF IsConfig
<1>5. e \in Seq(Commands) /\ Range(e) = {<<"del", Link>>}
  <2>1. <<"del", Link>> \in Commands BY DEF Commands, Items, Keys, Link
  <2> QED BY <2>1, RangeOne
<1>6. f \in Seq(Commands) /\ Range(f) = Dels(Rules) BY FamilyIs DEF PolicyRules, Rules, Dels
<1>7. Teardown(old) = s6 BY DEF Teardown
<1> HIDE DEF a, b, c, d, e, f
<1>8. s2 \in Seq(Commands) /\ Range(s2) = Range(a) \cup Range(b) BY <1>1, <1>2, RangeCat
<1> HIDE DEF s2
<1>9. s3 \in Seq(Commands) /\ Range(s3) = Range(s2) \cup Range(c) BY <1>8, <1>3, RangeCat
<1> HIDE DEF s3
<1>10. s4 \in Seq(Commands) /\ Range(s4) = Range(s3) \cup Range(d) BY <1>9, <1>4, RangeCat
<1> HIDE DEF s4
<1>11. s5 \in Seq(Commands) /\ Range(s5) = Range(s4) \cup Range(e) BY <1>10, <1>5, RangeCat
<1> HIDE DEF s5
<1>12. s6 \in Seq(Commands) /\ Range(s6) = Range(s5) \cup Range(f) BY <1>11, <1>6, RangeCat
<1> HIDE DEF s6
<1>13. Dels(Parts(old) \cup Rules \cup {Link}) =
         Dels(ExitsOf(old)) \cup C("route", old.routes) \cup C("throw", old.throws) \cup C("addr", old.addrs)
         \cup {<<"del", Link>>} \cup Dels(Rules)
  BY DEF Dels, Parts
<1> QED BY <1>1, <1>2, <1>3, <1>4, <1>5, <1>6, <1>7, <1>8, <1>9, <1>10, <1>11, <1>12, <1>13

\* Commands of up, and of the block.
LEMMA FixedAre ==
  /\ EnableBlock \in Seq(Commands) /\ Range(EnableBlock) = Adds(Blocks)
  /\ DisableBlock \in Seq(Commands) /\ Range(DisableBlock) = Dels(Blocks)
  /\ UpTransaction \in Seq(Commands) /\ Range(UpTransaction) = Adds(Rules \cup {Link})
<1>1. EnableBlock \in Seq(Commands) /\ Range(EnableBlock) = Adds(Blocks)
  BY FamilyIs DEF EnableBlock, Adds, Blocks
<1>2. DisableBlock \in Seq(Commands) /\ Range(DisableBlock) = Dels(Blocks)
  BY FamilyIs DEF DisableBlock, Dels, Blocks
<1>3. PolicyRules("add") \in Seq(Commands) /\ Range(PolicyRules("add")) = Adds(Rules)
  BY FamilyIs DEF PolicyRules, Adds, Rules
<1>4. <<<<"add", Link>>>> \in Seq(Commands) /\ Range(<<<<"add", Link>>>>) = {<<"add", Link>>}
  <2>1. <<"add", Link>> \in Commands BY DEF Commands, Items, Keys, Link
  <2> QED BY <2>1, RangeOne
<1>5. UpTransaction \in Seq(Commands) /\ Range(UpTransaction) = Adds(Rules) \cup {<<"add", Link>>}
  <2> DEFINE s == PolicyRules("add")
             t == <<<<"add", Link>>>>
  <2>1. UpTransaction = s \o t BY DEF UpTransaction
  <2>2. s \in Seq(Commands) /\ t \in Seq(Commands) /\ Range(s) = Adds(Rules) /\ Range(t) = {<<"add", Link>>}
    BY <1>3, <1>4
  <2> HIDE DEF s, t
  <2> QED BY <2>1, <2>2, RangeCat
<1>6. Adds(Rules) \cup {<<"add", Link>>} = Adds(Rules \cup {Link}) BY DEF Adds
<1> QED BY <1>1, <1>2, <1>5, <1>6

\* up removes rules and catch-all routes only.
LEMMA UpCleanupIs == UpCleanup \in Seq(Commands) /\ Range(UpCleanup) \subseteq Dels(Rules \cup Exits)
<1>1. PolicyRules("del") \in Seq(Commands) /\ Range(PolicyRules("del")) = Dels(Rules)
  BY FamilyIs DEF PolicyRules, Dels, Rules
<1>2. ExitRoutes("del") \in Seq(Commands) /\ Range(ExitRoutes("del")) = Dels(Exits)
  BY FamilyIs DEF ExitRoutes, Dels, Exits
<1>3. <<>> \in Seq(Commands) /\ Range(<<>>) = {} BY RangeEmpty
<1> DEFINE t == IF rt.recover THEN ExitRoutes("del") ELSE <<>>
<1>4. t \in Seq(Commands) /\ Range(t) \subseteq Dels(Exits) BY <1>2, <1>3
<1>5. UpCleanup = PolicyRules("del") \o t BY DEF UpCleanup
<1> HIDE DEF t
<1>6. UpCleanup \in Seq(Commands) /\ Range(UpCleanup) = Dels(Rules) \cup Range(t) BY <1>1, <1>4, <1>5, RangeCat
<1>7. Dels(Rules) \subseteq Dels(Rules \cup Exits) /\ Dels(Exits) \subseteq Dels(Rules \cup Exits) BY DEF Dels
<1> QED BY <1>4, <1>6, <1>7

\* The recovery removes block rules only.
LEMMA StaleBlockIs == StaleBlock \in Seq(Commands) /\ Range(StaleBlock) \subseteq Dels(Blocks)
<1> DEFINE s == Stale(DisableBlock[1])
           t == Stale(DisableBlock[2])
<1>1. DisableBlock = <<<<"del", <<"block", 4>>>>, <<"del", <<"block", 6>>>>>> BY DEF DisableBlock, Cmd, PerFamily
<1>2. /\ DisableBlock[1] \in Dels(Blocks) /\ DisableBlock[2] \in Dels(Blocks)
      /\ DisableBlock[1] \in Commands /\ DisableBlock[2] \in Commands
  BY <1>1 DEF Dels, Blocks, Commands, Items, Keys
<1>3. <<>> \in Seq(Commands) /\ Range(<<>>) = {} BY RangeEmpty
<1>4. s \in Seq(Commands) /\ Range(s) \subseteq Dels(Blocks) BY <1>2, <1>3, RangeOne DEF Stale
<1>5. t \in Seq(Commands) /\ Range(t) \subseteq Dels(Blocks) BY <1>2, <1>3, RangeOne DEF Stale
<1>6. StaleBlock = s \o t BY DEF StaleBlock
<1> HIDE DEF s, t
<1> QED BY <1>4, <1>5, <1>6, RangeCat

-----------------------------------------------------------------------------
(* Calls and returns *)

\* What may be beneath a label, at any depth.
Under(l) ==
  CASE l \in BlockLabels -> {"start_blocked", "unblock_back", "close_blocked", "ensured", "sync_verified",
                             "clear_restored", "start_open", "close_unblocked", "clear_done", "closed",
                             "sync", "sync_set", "sync_cleared", "sync_after"}
    [] l \in UnblockLabels -> {"start_open", "close_unblocked", "clear_done", "closed", "sync_cleared", "sync_after"}
    [] l \in SetLabels -> {"start_applied", "sync_applied"}
    [] l \in UpLabels -> {"start_up"}
    [] l \in CloseLabels -> {"closed"}
    [] l \in EnsureLabels -> {"sync", "sync_set"}
    [] l \in ClearLabels -> {"sync_cleared", "sync_after"}
    [] OTHER -> {}

\* What Awaits and Under are, label by label.
LEMMA AwaitsAre ==
  ASSUME NEW l
  PROVE  /\ l \in BlockLabels => Awaits(l) = {"start_blocked", "unblock_back", "close_blocked", "ensured",
                                              "sync_verified", "clear_restored"}
         /\ l \in UnblockLabels => Awaits(l) = {"start_open", "close_unblocked", "clear_done"}
         /\ l \in SetLabels => Awaits(l) = {"start_applied", "sync_applied"}
         /\ l \in UpLabels => Awaits(l) = {"start_up"}
         /\ l \in CloseLabels => Awaits(l) = {"closed"}
         /\ l \in EnsureLabels => Awaits(l) = {"sync", "sync_set"}
         /\ l \in ClearLabels => Awaits(l) = {"sync_cleared", "sync_after"}
         /\ l \in SyncLabels \cup StartLabels \cup {"closed"} => Awaits(l) = {}
BY DEF Awaits, BlockLabels, UnblockLabels, SetLabels, UpLabels, CloseLabels, EnsureLabels, ClearLabels,
       SyncLabels, StartLabels

\* What may be beneath each label.
LEMMA UnderAre ==
  ASSUME NEW l
  PROVE  /\ l \in BlockLabels => Under(l) =
              {"start_blocked", "unblock_back", "close_blocked", "ensured", "sync_verified",
               "clear_restored", "start_open", "close_unblocked", "clear_done", "closed",
               "sync", "sync_set", "sync_cleared", "sync_after"}
         /\ l \in UnblockLabels =>
              Under(l) = {"start_open", "close_unblocked", "clear_done", "closed", "sync_cleared", "sync_after"}
         /\ l \in SetLabels => Under(l) = {"start_applied", "sync_applied"}
         /\ l \in UpLabels => Under(l) = {"start_up"}
         /\ l \in CloseLabels => Under(l) = {"closed"}
         /\ l \in EnsureLabels => Under(l) = {"sync", "sync_set"}
         /\ l \in ClearLabels => Under(l) = {"sync_cleared", "sync_after"}
         /\ l \in SyncLabels \cup StartLabels \cup {"closed"} => Under(l) = {}
BY DEF Under, BlockLabels, UnblockLabels, SetLabels, UpLabels, CloseLabels, EnsureLabels, ClearLabels,
       SyncLabels, StartLabels

AllLabels == BlockLabels \cup UnblockLabels \cup SetLabels \cup UpLabels \cup CloseLabels \cup EnsureLabels
             \cup ClearLabels \cup SyncLabels \cup StartLabels \cup {"closed"}

\* The labels of each phase.
LEMMA LabelsAre ==
  /\ LabelsOf("running") = BlockLabels \cup UnblockLabels \cup SetLabels
                           \cup EnsureLabels \cup ClearLabels \cup SyncLabels
  /\ LabelsOf("starting") = BlockLabels \cup UnblockLabels \cup SetLabels \cup UpLabels \cup StartLabels
  /\ LabelsOf("closing") = BlockLabels \cup UnblockLabels \cup CloseLabels \cup {"closed"}
  /\ LabelsOf("off") = {} /\ LabelsOf("retained") = {}
  /\ \A p : LabelsOf(p) \subseteq AllLabels
BY DEF LabelsOf, AllLabels

\* The labels a call may have been made at are beneath it, and so is what is
\* beneath them.
LEMMA UnderCloses ==
  ASSUME NEW l \in AllLabels, NEW m \in Awaits(l)
  PROVE  m \in Under(l) /\ Under(m) \subseteq Under(l) /\ m \in AllLabels
<1>1. CASE l \in BlockLabels
  <2>1. m \in {"start_blocked", "unblock_back", "close_blocked", "ensured", "sync_verified", "clear_restored"}
    BY <1>1, AwaitsAre
  <2>2. CASE m = "unblock_back" BY <1>1, <2>2, UnderAre DEF UnblockLabels, AllLabels
  <2>3. CASE m = "close_blocked" BY <1>1, <2>3, UnderAre DEF CloseLabels, AllLabels
  <2>4. CASE m = "ensured" BY <1>1, <2>4, UnderAre DEF EnsureLabels, AllLabels
  <2>5. CASE m = "clear_restored" BY <1>1, <2>5, UnderAre DEF ClearLabels, AllLabels
  <2>6. CASE m \in {"start_blocked", "sync_verified"} BY <1>1, <2>6, UnderAre DEF StartLabels, SyncLabels, AllLabels
  <2> QED BY <2>1, <2>2, <2>3, <2>4, <2>5, <2>6
<1>2. CASE l \in UnblockLabels
  <2>1. m \in {"start_open", "close_unblocked", "clear_done"} BY <1>2, AwaitsAre
  <2>2. CASE m = "start_open" BY <1>2, <2>2, UnderAre DEF StartLabels, AllLabels
  <2>3. CASE m = "close_unblocked" BY <1>2, <2>3, UnderAre DEF CloseLabels, AllLabels
  <2>4. CASE m = "clear_done" BY <1>2, <2>4, UnderAre DEF ClearLabels, AllLabels
  <2> QED BY <2>1, <2>2, <2>3, <2>4
<1>3. CASE l \in SetLabels \cup UpLabels \cup CloseLabels \cup EnsureLabels \cup ClearLabels
  <2>1. m \in Under(l) /\ m \in SyncLabels \cup StartLabels \cup {"closed"}
    BY <1>3, AwaitsAre, UnderAre DEF SyncLabels, StartLabels
  <2> QED BY <2>1, UnderAre DEF AllLabels
<1>4. CASE l \in SyncLabels \cup StartLabels \cup {"closed"} BY <1>4, AwaitsAre
<1> QED BY <1>1, <1>2, <1>3, <1>4 DEF AllLabels

\* How deep the calls of a procedure can be.
Depth(l) ==
  IF l \in BlockLabels THEN 4 ELSE IF l \in UnblockLabels THEN 3
  ELSE IF l \in SyncLabels \cup StartLabels \cup {"closed"} THEN 1 ELSE 2

\* A label waits for one that is deeper by at least one level,
LEMMA DepthFalls ==
  ASSUME NEW l \in AllLabels, NEW m \in Awaits(l) PROVE Depth(m) < Depth(l) /\ Depth(m) \in 1..4 /\ Depth(l) \in 1..4
<1>1. CASE l \in BlockLabels
  <2>1. m \in {"start_blocked", "unblock_back", "close_blocked", "ensured", "sync_verified", "clear_restored"}
    BY <1>1, AwaitsAre
  <2> QED BY <1>1, <2>1 DEF Depth, BlockLabels
<1>2. CASE l \in UnblockLabels
  <2>1. m \in {"start_open", "close_unblocked", "clear_done"} BY <1>2, AwaitsAre
  <2> QED BY <1>2, <2>1 DEF Depth, BlockLabels, UnblockLabels
<1>3. CASE l \in SetLabels \cup UpLabels \cup CloseLabels \cup EnsureLabels \cup ClearLabels
  <2>1. m \in SyncLabels \cup StartLabels \cup {"closed"}
    BY <1>3, AwaitsAre DEF SyncLabels, StartLabels
  <2>2. Depth(m) = 1 BY <2>1 DEF Depth, BlockLabels, UnblockLabels, SyncLabels, StartLabels
  <2>3. Depth(l) = 2
    BY <1>3 DEF Depth, BlockLabels, UnblockLabels, SyncLabels, StartLabels, SetLabels, UpLabels, CloseLabels,
                EnsureLabels, ClearLabels
  <2> QED BY <2>2, <2>3
<1>4. CASE l \in SyncLabels \cup StartLabels \cup {"closed"} BY <1>4, AwaitsAre
<1> QED BY <1>1, <1>2, <1>3, <1>4 DEF AllLabels

\* so that a stack has at most four labels, all of its phase.
LEMMA Shape ==
  ASSUME NEW s, NEW p, FramesOf(s, p), s # <<>>
  PROVE  /\ Len(s) \in 1..4 /\ \A i \in 1..Len(s) : s[i] \in AllLabels /\ s[i] \in LabelsOf(p)
         /\ \A i \in 2..Len(s) : s[i] \in Under(s[1])
<1>1. /\ Len(s) \in Nat /\ Len(s) >= 1 /\ \A i \in 1..Len(s) : s[i] \in AllLabels /\ s[i] \in LabelsOf(p)
  BY LabelsAre DEF FramesOf
<1>2. \A i \in 1..Len(s) : i < Len(s) => s[i + 1] \in Awaits(s[i]) BY DEF FramesOf
<1>3. Len(s) >= 2 => s[2] \in Awaits(s[1]) BY <1>1, <1>2
<1>4. Len(s) >= 3 => s[3] \in Awaits(s[2]) BY <1>1, <1>2
<1>5. Len(s) >= 4 => s[4] \in Awaits(s[3]) BY <1>1, <1>2
<1>6. Len(s) >= 5 => s[5] \in Awaits(s[4]) BY <1>1, <1>2
<1>7. Len(s) < 5
  <2>1. SUFFICES ASSUME Len(s) >= 5 PROVE FALSE BY <1>1
  <2>2. s[1] \in AllLabels /\ s[2] \in AllLabels /\ s[3] \in AllLabels /\ s[4] \in AllLabels BY <1>1, <2>1
  <2>3. Depth(s[2]) < Depth(s[1]) /\ Depth(s[2]) \in 1..4 /\ Depth(s[1]) \in 1..4 BY <1>1, <1>3, <2>1, <2>2, DepthFalls
  <2>4. Depth(s[3]) < Depth(s[2]) /\ Depth(s[3]) \in 1..4 BY <1>1, <1>4, <2>1, <2>2, DepthFalls
  <2>5. Depth(s[4]) < Depth(s[3]) /\ Depth(s[4]) \in 1..4 BY <1>1, <1>5, <2>1, <2>2, DepthFalls
  <2>6. Depth(s[5]) < Depth(s[4]) /\ Depth(s[5]) \in 1..4 BY <1>1, <1>6, <2>1, <2>2, DepthFalls
  <2> QED BY <2>3, <2>4, <2>5, <2>6
<1>8. Len(s) >= 2 => s[2] \in Under(s[1]) /\ Under(s[2]) \subseteq Under(s[1]) BY <1>1, <1>3, UnderCloses
<1>9. Len(s) >= 3 => s[3] \in Under(s[2]) /\ Under(s[3]) \subseteq Under(s[2]) BY <1>1, <1>4, UnderCloses
<1>10. Len(s) >= 4 => s[4] \in Under(s[3]) BY <1>1, <1>5, UnderCloses
<1>11. ASSUME NEW i \in 2..Len(s) PROVE s[i] \in Under(s[1])
  <2>1. i \in {2, 3, 4} BY <1>1, <1>7
  <2>2. CASE i = 2 BY <1>1, <1>8, <2>2
  <2>3. CASE i = 3 BY <1>1, <1>8, <1>9, <2>3
  <2>4. CASE i = 4 BY <1>1, <1>8, <1>9, <1>10, <2>4
  <2> QED BY <2>1, <2>2, <2>3, <2>4
<1>12. Len(s) \in 1..4
  <2>1. ASSUME NEW n \in Nat, n >= 1, n < 5 PROVE n \in 1..4 BY <2>1
  <2> QED BY <1>1, <1>7, <2>1
<1> QED BY <1>1, <1>11, <1>12

\* What is beneath the top.
Beneath(s, p) ==
  /\ Head(s) \in LabelsOf(p) /\ Head(s) \in AllLabels /\ Head(s) \in Range(s) /\ Head(s) = s[1]
  /\ Range(Tail(s)) \subseteq Range(s) \cap Under(Head(s)) \cap LabelsOf(p)
  /\ Tail(s) # <<>> => Head(Tail(s)) = s[2] /\ s[2] \in Awaits(Head(s)) /\ s[2] \in Range(Tail(s))
  /\ Tail(s) = <<>> => Head(s) \in Outermost
\* Every stack of calls has that shape.
LEMMA BeneathIs == ASSUME NEW s, NEW p, FramesOf(s, p), s # <<>> PROVE Beneath(s, p)
<1>1. /\ s \in Seq(LabelsOf(p)) /\ Len(s) \in 1..4
      /\ \A i \in 1..Len(s) : s[i] \in AllLabels /\ s[i] \in LabelsOf(p)
      /\ \A i \in 2..Len(s) : s[i] \in Under(s[1])
  BY Shape DEF FramesOf
<1>2. /\ Tail(s) \in Seq(LabelsOf(p)) /\ Len(Tail(s)) = Len(s) - 1 /\ DOMAIN Tail(s) = 1..(Len(s) - 1)
      /\ \A i \in 1..(Len(s) - 1) : Tail(s)[i] = s[i + 1]
      /\ Head(s) = s[1] BY <1>1
<1>3. Head(s) \in Range(s) /\ Range(Tail(s)) \subseteq Range(s) BY <1>1, RangeTail
<1>4. ASSUME NEW x \in Range(Tail(s)) PROVE x \in Under(Head(s)) /\ x \in LabelsOf(p)
  <2>1. PICK i \in 1..(Len(s) - 1) : x = s[i + 1] BY <1>2 DEF Range
  <2>2. i + 1 \in 2..Len(s) /\ i + 1 \in 1..Len(s) BY <1>1
  <2> QED BY <1>1, <1>2, <2>1, <2>2
<1>5. ASSUME Tail(s) # <<>> PROVE Head(Tail(s)) = s[2] /\ s[2] \in Awaits(Head(s)) /\ s[2] \in Range(Tail(s))
  <2>1. Len(Tail(s)) >= 1 /\ Len(s) >= 2 /\ Head(Tail(s)) = Tail(s)[1] /\ Tail(s)[1] = s[2] BY <1>1, <1>2, <1>5
  <2>2. s[2] \in Awaits(s[1]) BY <1>1, <2>1 DEF FramesOf
  <2>3. Tail(s)[1] \in Range(Tail(s))
    <3>1. 1 \in DOMAIN Tail(s) BY <1>1, <1>2, <2>1
    <3> QED BY <3>1 DEF Range
  <2> QED BY <1>2, <2>1, <2>2, <2>3
<1>6. ASSUME Tail(s) = <<>> PROVE Head(s) \in Outermost
  <2>1. Len(s) = 1 BY <1>1, <1>2, <1>6
  <2> QED BY <1>2, <2>1 DEF FramesOf
<1> QED BY <1>1, <1>2, <1>3, <1>4, <1>5, <1>6 DEF Beneath

\* A return.
LEMMA PopFrames == ASSUME NEW s, NEW p, FramesOf(s, p), s # <<>> PROVE FramesOf(Tail(s), p)
<1>1. s \in Seq(LabelsOf(p)) /\ Len(s) \in Nat /\ Len(s) >= 1 BY DEF FramesOf
<1>2. /\ Tail(s) \in Seq(LabelsOf(p)) /\ Len(Tail(s)) = Len(s) - 1
      /\ \A i \in 1..(Len(s) - 1) : Tail(s)[i] = s[i + 1] BY <1>1
<1>3. ASSUME NEW i \in 1..Len(Tail(s)), i < Len(Tail(s)) PROVE Tail(s)[i + 1] \in Awaits(Tail(s)[i])
  <2>1. i + 1 \in 1..Len(s) /\ i + 1 < Len(s) /\ i + 1 \in 1..(Len(s) - 1) /\ i \in 1..(Len(s) - 1) BY <1>1, <1>2, <1>3
  <2>2. s[(i + 1) + 1] \in Awaits(s[i + 1]) BY <2>1 DEF FramesOf
  <2> QED BY <1>2, <2>1, <2>2
<1>4. ASSUME Tail(s) # <<>> PROVE Tail(s)[Len(Tail(s))] \in Outermost
  <2>1. Len(Tail(s)) >= 1 BY <1>1, <1>2, <1>4
  <2>2. Tail(s)[Len(Tail(s))] = s[Len(s)]
    <3>1. Len(s) - 1 \in 1..(Len(s) - 1) /\ (Len(s) - 1) + 1 = Len(s) BY <1>1, <1>2, <2>1
    <3> QED BY <1>2, <3>1
  <2> QED BY <2>2 DEF FramesOf
<1> QED BY <1>2, <1>3, <1>4 DEF FramesOf

\* The top goes on to another label of its procedure.
Goes(s, l) ==
  /\ <<l>> \o Tail(s) # <<>> /\ Head(<<l>> \o Tail(s)) = l
  /\ Range(<<l>> \o Tail(s)) = {l} \cup Range(Tail(s))
  /\ Tail(s) # <<>> => (<<l>> \o Tail(s))[2] = s[2]
\* A step within a procedure keeps the order of calls.
LEMMA GoFrames ==
  ASSUME NEW s, NEW p, FramesOf(s, p), s # <<>>, NEW l \in LabelsOf(p), Awaits(l) = Awaits(Head(s)),
         Head(s) \in Outermost => l \in Outermost
  PROVE  FramesOf(<<l>> \o Tail(s), p) /\ Goes(s, l)
<1> DEFINE t == <<l>> \o Tail(s)
<1>1. s \in Seq(LabelsOf(p)) /\ Len(s) \in Nat /\ Len(s) >= 1 /\ Head(s) = s[1] BY DEF FramesOf
<1>2. /\ t \in Seq(LabelsOf(p)) /\ Len(t) = Len(s) /\ t[1] = l /\ t # <<>> /\ Head(t) = l
      /\ \A i \in 2..Len(s) : t[i] = s[i]
  <2>1. /\ Tail(s) \in Seq(LabelsOf(p)) /\ Len(Tail(s)) = Len(s) - 1
        /\ \A i \in 1..(Len(s) - 1) : Tail(s)[i] = s[i + 1] BY <1>1
  <2>2. <<l>> \in Seq(LabelsOf(p)) /\ Len(<<l>>) = 1 OBVIOUS
  <2>3. /\ t \in Seq(LabelsOf(p)) /\ Len(t) = Len(s) /\ t[1] = l
        /\ \A i \in 1..Len(s) : i > 1 => t[i] = Tail(s)[i - 1] BY <1>1, <2>1, <2>2
  <2>4. ASSUME NEW i \in 2..Len(s) PROVE t[i] = s[i]
    <3>1. i \in 1..Len(s) /\ i > 1 /\ i - 1 \in 1..(Len(s) - 1) /\ (i - 1) + 1 = i BY <1>1
    <3> QED BY <2>1, <2>3, <3>1
  <2>5. t # <<>> /\ Head(t) = t[1] BY <1>1, <2>3
  <2> QED BY <2>3, <2>4, <2>5
<1>3. ASSUME NEW i \in 1..Len(t), i < Len(t) PROVE t[i + 1] \in Awaits(t[i])
  <2>1. s[i + 1] \in Awaits(s[i]) BY <1>1, <1>2, <1>3 DEF FramesOf
  <2>2. t[i + 1] = s[i + 1] BY <1>1, <1>2, <1>3
  <2>3. CASE i = 1 BY <1>1, <1>2, <2>1, <2>2, <2>3
  <2>4. CASE i # 1
    <3>1. t[i] = s[i] BY <1>1, <1>2, <1>3, <2>4
    <3> QED BY <2>1, <2>2, <3>1
  <2> QED BY <2>3, <2>4
<1>4. t[Len(t)] \in Outermost
  <2>1. s[Len(s)] \in Outermost BY DEF FramesOf
  <2>2. CASE Len(s) = 1 BY <1>1, <1>2, <2>1, <2>2
  <2>3. CASE Len(s) # 1
    <3>1. t[Len(s)] = s[Len(s)] BY <1>1, <1>2, <2>3
    <3> QED BY <1>2, <2>1, <3>1
  <2> QED BY <2>2, <2>3
<1>5. FramesOf(t, p) BY <1>2, <1>3, <1>4 DEF FramesOf
<1>6. Range(t) = {l} \cup Range(Tail(s))
  <2>1. Tail(s) \in Seq(LabelsOf(p)) /\ <<l>> \in Seq(LabelsOf(p)) BY <1>1
  <2>2. Range(t) = Range(<<l>>) \cup Range(Tail(s)) BY <2>1, RangeCat
  <2> QED BY <2>2, RangeOne
<1>7. ASSUME Tail(s) # <<>> PROVE t[2] = s[2]
  <2>1. Len(s) >= 2 BY <1>1, <1>7
  <2> QED BY <1>1, <1>2, <2>1
<1> QED BY <1>2, <1>5, <1>6, <1>7 DEF Goes

\* The top makes a call.
Calls(s, l, m) ==
  /\ <<l, m>> \o Tail(s) # <<>> /\ Head(<<l, m>> \o Tail(s)) = l /\ (<<l, m>> \o Tail(s))[2] = m
  /\ Range(<<l, m>> \o Tail(s)) = {l, m} \cup Range(Tail(s))
\* So does a call.
LEMMA CallFrames ==
  ASSUME NEW s, NEW p, FramesOf(s, p), s # <<>>, NEW m \in LabelsOf(p), Awaits(m) = Awaits(Head(s)),
         Head(s) \in Outermost => m \in Outermost, NEW l \in LabelsOf(p), m \in Awaits(l)
  PROVE  FramesOf(<<l, m>> \o Tail(s), p) /\ Calls(s, l, m)
<1> DEFINE r == <<m>> \o Tail(s)
           t == <<l, m>> \o Tail(s)
<1>1. FramesOf(r, p) /\ Goes(s, m) BY GoFrames
<1>2. r \in Seq(LabelsOf(p)) /\ r[1] = m /\ r # <<>> BY <1>1 DEF FramesOf, Goes
<1>3. t = <<l>> \o r /\ Tail(s) \in Seq(LabelsOf(p))
  <2>1. Tail(s) \in Seq(LabelsOf(p)) BY DEF FramesOf
  <2> QED BY <2>1
<1> HIDE DEF r
<1>4. /\ t \in Seq(LabelsOf(p)) /\ Len(t) = Len(r) + 1 /\ t[1] = l /\ Len(r) \in Nat /\ Len(r) >= 1
      /\ \A i \in 1..Len(t) : i > 1 => t[i] = r[i - 1]
  BY <1>2, <1>3
<1>5. Head(t) = l /\ t # <<>> /\ t[2] = m BY <1>2, <1>4
<1> HIDE DEF t
<1>6. ASSUME NEW i \in 1..Len(t), i < Len(t) PROVE t[i + 1] \in Awaits(t[i])
  <2>1. t[i + 1] = r[i]
    <3>1. i + 1 \in 1..Len(t) /\ i + 1 > 1 /\ (i + 1) - 1 = i BY <1>4, <1>6
    <3> QED BY <1>4, <3>1
  <2>2. CASE i = 1 BY <1>2, <1>4, <2>1, <2>2
  <2>3. CASE i # 1
    <3>1. t[i] = r[i - 1] /\ i - 1 \in 1..Len(r) /\ i - 1 < Len(r) /\ (i - 1) + 1 = i BY <1>4, <1>6, <2>3
    <3>2. r[(i - 1) + 1] \in Awaits(r[i - 1]) BY <1>1, <3>1 DEF FramesOf
    <3> QED BY <2>1, <3>1, <3>2
  <2> QED BY <2>2, <2>3
<1>7. t[Len(t)] \in Outermost
  <2>1. t[Len(t)] = r[Len(r)] BY <1>4
  <2> QED BY <1>1, <1>2, <2>1 DEF FramesOf
<1>8. FramesOf(t, p) BY <1>4, <1>6, <1>7 DEF FramesOf
<1>9. Range(t) = {l, m} \cup Range(Tail(s))
  <2>1. Range(r) = {m} \cup Range(Tail(s)) BY <1>1 DEF Goes, r
  <2>2. Range(t) = Range(<<l>>) \cup Range(r)
    <3>1. <<l>> \in Seq(LabelsOf(p)) OBVIOUS
    <3> QED BY <1>2, <1>3, <3>1, RangeCat
  <2> QED BY <2>1, <2>2, RangeOne
<1> QED BY <1>5, <1>8, <1>9 DEF Calls, t

\* Labels of one procedure are called from the same places.
Proc(l) ==
  CASE l \in BlockLabels -> "block"
    [] l \in UnblockLabels -> "unblock"
    [] l \in SetLabels -> "set"
    [] l \in UpLabels -> "up"
    [] l \in CloseLabels -> "close"
    [] l \in EnsureLabels -> "ensure"
    [] l \in ClearLabels -> "clear"
    [] l \in SyncLabels -> "sync"
    [] l \in StartLabels -> "start"
    [] OTHER -> "closed"

\* The procedure of a label, set by set.
LEMMA ProcIs ==
  ASSUME NEW l \in AllLabels
  PROVE  /\ (Proc(l) = "block") = (l \in BlockLabels) /\ (Proc(l) = "unblock") = (l \in UnblockLabels)
         /\ (Proc(l) = "set") = (l \in SetLabels) /\ (Proc(l) = "up") = (l \in UpLabels)
         /\ (Proc(l) = "close") = (l \in CloseLabels) /\ (Proc(l) = "ensure") = (l \in EnsureLabels)
         /\ (Proc(l) = "clear") = (l \in ClearLabels) /\ (Proc(l) = "sync") = (l \in SyncLabels)
         /\ (Proc(l) = "start") = (l \in StartLabels) /\ (Proc(l) = "closed") = (l = "closed")
         /\ Proc(l) \in {"block", "unblock", "set", "up", "close", "ensure", "clear", "sync", "start", "closed"}
<1> USE DEF BlockLabels, UnblockLabels, SetLabels, UpLabels, CloseLabels, EnsureLabels, ClearLabels,
            SyncLabels, StartLabels
<1>1. CASE l \in BlockLabels BY <1>1 DEF Proc
<1>2. CASE l \in UnblockLabels BY <1>2 DEF Proc
<1>3. CASE l \in SetLabels BY <1>3 DEF Proc
<1>4. CASE l \in UpLabels BY <1>4 DEF Proc
<1>5. CASE l \in CloseLabels BY <1>5 DEF Proc
<1>6. CASE l \in EnsureLabels BY <1>6 DEF Proc
<1>7. CASE l \in ClearLabels BY <1>7 DEF Proc
<1>8. CASE l \in SyncLabels BY <1>8 DEF Proc
<1>9. CASE l \in StartLabels BY <1>9 DEF Proc
<1>10. CASE l = "closed" BY <1>10 DEF Proc
<1> QED BY <1>1, <1>2, <1>3, <1>4, <1>5, <1>6, <1>7, <1>8, <1>9, <1>10 DEF AllLabels

\* A phase makes all calls of a procedure or none.
PhasesOf(q) ==
  CASE q \in {"block", "unblock"} -> {"starting", "running", "closing"}
    [] q = "set" -> {"starting", "running"}
    [] q \in {"up", "start"} -> {"starting"}
    [] q \in {"close", "closed"} -> {"closing"}
    [] OTHER -> {"running"}
\* The labels of a phase are those of the procedures it calls.
LEMMA PhasesAre ==
  ASSUME NEW l \in AllLabels, NEW p \in {"off", "starting", "running", "closing", "retained"}
  PROVE  l \in LabelsOf(p) <=> p \in PhasesOf(Proc(l))
<1> USE DEF BlockLabels, UnblockLabels, SetLabels, UpLabels, CloseLabels, EnsureLabels, ClearLabels,
            SyncLabels, StartLabels
<1>1. CASE p = "running"
  <2>1. l \in LabelsOf(p) <=> l \in BlockLabels \cup UnblockLabels \cup SetLabels
                              \cup EnsureLabels \cup ClearLabels \cup SyncLabels BY <1>1, LabelsAre
  <2> QED BY <1>1, <2>1, ProcIs DEF PhasesOf
<1>2. CASE p = "starting"
  <2>1. l \in LabelsOf(p) <=> l \in BlockLabels \cup UnblockLabels \cup SetLabels \cup UpLabels \cup StartLabels
    BY <1>2, LabelsAre
  <2> QED BY <1>2, <2>1, ProcIs DEF PhasesOf
<1>3. CASE p = "closing"
  <2>1. l \in LabelsOf(p) <=> l \in BlockLabels \cup UnblockLabels \cup CloseLabels \cup {"closed"} BY <1>3, LabelsAre
  <2> QED BY <1>3, <2>1, ProcIs DEF PhasesOf
<1>4. CASE p \in {"off", "retained"} BY <1>4, LabelsAre, ProcIs DEF PhasesOf
<1> QED BY <1>1, <1>2, <1>3, <1>4

\* Two labels of one procedure wait for the same callers.
LEMMA SameProc ==
  ASSUME NEW l \in AllLabels, NEW m \in AllLabels, Proc(l) = Proc(m)
  PROVE  Awaits(l) = Awaits(m) /\ Under(l) = Under(m) /\ (l \in Outermost <=> m \in Outermost)
<1>1. Proc(l) \in {"block", "unblock", "set", "up", "close", "ensure", "clear", "sync", "start", "closed"}
  BY ProcIs
<1>2. CASE Proc(l) = "block"
  <2>1. l \in BlockLabels /\ m \in BlockLabels BY <1>2, ProcIs, ZenonT(40)
  <2>2. l \notin Outermost /\ m \notin Outermost BY <2>1 DEF Outermost, BlockLabels, EnsureLabels, SyncLabels, StartLabels
  <2>3. Awaits(l) = Awaits(m) BY <2>1, AwaitsAre
  <2>4. Under(l) = Under(m) BY <2>1, UnderAre
  <2> QED BY <2>2, <2>3, <2>4
<1>3. CASE Proc(l) = "unblock"
  <2>1. l \in UnblockLabels /\ m \in UnblockLabels BY <1>3, ProcIs, ZenonT(40)
  <2>2. l \notin Outermost /\ m \notin Outermost BY <2>1 DEF Outermost, UnblockLabels, EnsureLabels, SyncLabels, StartLabels
  <2>3. Awaits(l) = Awaits(m) BY <2>1, AwaitsAre
  <2>4. Under(l) = Under(m) BY <2>1, UnderAre
  <2> QED BY <2>2, <2>3, <2>4
<1>4. CASE Proc(l) = "set"
  <2>1. l \in SetLabels /\ m \in SetLabels BY <1>4, ProcIs, ZenonT(40)
  <2>2. l \notin Outermost /\ m \notin Outermost BY <2>1 DEF Outermost, SetLabels, EnsureLabels, SyncLabels, StartLabels
  <2>3. Awaits(l) = Awaits(m) BY <2>1, AwaitsAre
  <2>4. Under(l) = Under(m) BY <2>1, UnderAre
  <2> QED BY <2>2, <2>3, <2>4
<1>5. CASE Proc(l) = "up"
  <2>1. l \in UpLabels /\ m \in UpLabels BY <1>5, ProcIs, ZenonT(40)
  <2>2. l \notin Outermost /\ m \notin Outermost BY <2>1 DEF Outermost, UpLabels, EnsureLabels, SyncLabels, StartLabels
  <2>3. Awaits(l) = Awaits(m) BY <2>1, AwaitsAre
  <2>4. Under(l) = Under(m) BY <2>1, UnderAre
  <2> QED BY <2>2, <2>3, <2>4
<1>6. CASE Proc(l) = "close"
  <2>1. l \in CloseLabels /\ m \in CloseLabels BY <1>6, ProcIs, ZenonT(40)
  <2>2. l \notin Outermost /\ m \notin Outermost BY <2>1 DEF Outermost, CloseLabels, EnsureLabels, SyncLabels, StartLabels
  <2>3. Awaits(l) = Awaits(m) BY <2>1, AwaitsAre
  <2>4. Under(l) = Under(m) BY <2>1, UnderAre
  <2> QED BY <2>2, <2>3, <2>4
<1>7. CASE Proc(l) = "clear"
  <2>1. l \in ClearLabels /\ m \in ClearLabels BY <1>7, ProcIs, ZenonT(40)
  <2>2. l \notin Outermost /\ m \notin Outermost BY <2>1 DEF Outermost, ClearLabels, EnsureLabels, SyncLabels, StartLabels
  <2>3. Awaits(l) = Awaits(m) BY <2>1, AwaitsAre
  <2>4. Under(l) = Under(m) BY <2>1, UnderAre
  <2> QED BY <2>2, <2>3, <2>4
<1>8. CASE Proc(l) = "ensure"
  <2>1. l \in EnsureLabels /\ m \in EnsureLabels BY <1>8, ProcIs, ZenonT(40)
  <2>2. l \in Outermost /\ m \in Outermost BY <2>1 DEF Outermost
  <2>3. Awaits(l) = Awaits(m) BY <2>1, AwaitsAre
  <2>4. Under(l) = Under(m) BY <2>1, UnderAre
  <2> QED BY <2>2, <2>3, <2>4
<1>9. CASE Proc(l) = "sync"
  <2>1. l \in SyncLabels /\ m \in SyncLabels BY <1>9, ProcIs, ZenonT(40)
  <2>2. l \in Outermost /\ m \in Outermost BY <2>1 DEF Outermost
  <2>3. Awaits(l) = Awaits(m) BY <2>1, AwaitsAre
  <2>4. Under(l) = Under(m) BY <2>1, UnderAre
  <2> QED BY <2>2, <2>3, <2>4
<1>10. CASE Proc(l) = "start"
  <2>1. l \in StartLabels /\ m \in StartLabels BY <1>10, ProcIs, ZenonT(40)
  <2>2. l \in Outermost /\ m \in Outermost BY <2>1 DEF Outermost
  <2>3. Awaits(l) = Awaits(m) BY <2>1, AwaitsAre
  <2>4. Under(l) = Under(m) BY <2>1, UnderAre
  <2> QED BY <2>2, <2>3, <2>4
<1>11. CASE Proc(l) = "closed"
  <2>1. l = "closed" BY <1>11, ProcIs
  <2>2. m = "closed" BY <1>11, ProcIs
  <2> QED BY <2>1, <2>2
<1> QED BY <1>1, <1>2, <1>3, <1>4, <1>5, <1>6, <1>7, <1>8, <1>9, <1>10, <1>11

\* What is known when an action is at its label.
Here(l) ==
  /\ Top = l /\ cmds = <<>> /\ Range(cmds) = {} /\ stack # <<>> /\ Head(stack) = l
  /\ l \in AllLabels /\ l \in LabelsOf(phase) /\ phase \in PhasesOf(Proc(l))
  /\ l \in Range(stack) /\ Note(l) /\ AtTop(l)
  /\ Range(Tail(stack)) \subseteq Range(stack) \cap Under(l) \cap LabelsOf(phase)
  /\ Tail(stack) # <<>> => Head(Tail(stack)) = stack[2] /\ stack[2] \in Awaits(l) /\ stack[2] \in Range(Tail(stack))
  /\ Tail(stack) = <<>> => l \in Outermost
\* An action at its label has the facts of Here.
LEMMA HereIs == ASSUME IInv, NEW l, At(l) PROVE Here(l)
<1>1. cmds = <<>> /\ stack # <<>> /\ Head(stack) = l BY DEF At
<1>2. FramesOf(stack, phase) /\ Notes /\ TopFits /\ phase \in {"off", "starting", "running", "closing", "retained"}
  BY DEF IInv, Frames, Types
<1>3. Beneath(stack, phase) BY <1>1, <1>2, BeneathIs
<1>4. Top = l BY <1>1 DEF Top
<1>5. l \in AllLabels /\ l \in LabelsOf(phase) /\ l \in Range(stack) BY <1>1, <1>3 DEF Beneath
<1>6. phase \in PhasesOf(Proc(l)) BY <1>2, <1>5, PhasesAre
<1>7. Note(l) /\ AtTop(l) BY <1>2, <1>4, <1>5 DEF Notes, TopFits
<1>8. Range(cmds) = {} BY <1>1, RangeEmpty
<1> QED BY <1>1, <1>3, <1>4, <1>5, <1>6, <1>7, <1>8 DEF Here, Beneath

\* A return, a step within a procedure, and a call.
LEMMA FinishIs ==
  ASSUME IInv, NEW l, At(l), stack' = Tail(stack), phase' = phase
  PROVE  /\ Frames' /\ Range(stack') \subseteq Range(stack) \cap Under(l) \cap LabelsOf(phase)
         /\ Top' \in Awaits(l) \cup {"idle"} /\ (Top' # "idle" => Top' \in Range(stack'))
<1>1. Here(l) /\ FramesOf(stack, phase) BY HereIs DEF IInv, Frames
<1>2. FramesOf(Tail(stack), phase) BY <1>1, PopFrames DEF Here
<1>3. Frames' BY <1>2 DEF Frames
<1>4. Range(stack') \subseteq Range(stack) \cap Under(l) \cap LabelsOf(phase) BY <1>1 DEF Here
<1>5. CASE Tail(stack) = <<>> BY <1>3, <1>4, <1>5 DEF Top
<1>6. CASE Tail(stack) # <<>> BY <1>1, <1>3, <1>4, <1>6 DEF Top, Here
<1> QED BY <1>5, <1>6

\* A step within a procedure, and what is then on the stack.
LEMMA GoIs ==
  ASSUME IInv, NEW l, At(l), NEW m \in AllLabels, Proc(m) = Proc(l), stack' = Then(<<m>>), phase' = phase
  PROVE  /\ Frames' /\ Range(stack') = {m} \cup Range(Tail(stack)) /\ Top' = m
         /\ Tail(stack) # <<>> => stack'[2] = stack[2]
<1>1. Here(l) /\ FramesOf(stack, phase) /\ phase \in {"off", "starting", "running", "closing", "retained"}
  BY HereIs DEF IInv, Frames, Types
<1>2. m \in LabelsOf(phase) BY <1>1, PhasesAre DEF Here
<1>3. Awaits(m) = Awaits(l) /\ (l \in Outermost => m \in Outermost) BY <1>1, SameProc DEF Here
<1>4. FramesOf(<<m>> \o Tail(stack), phase) /\ Goes(stack, m) BY <1>1, <1>2, <1>3, GoFrames DEF Here
<1>5. stack' = <<m>> \o Tail(stack) BY DEF Then
<1>6. Frames' BY <1>4, <1>5 DEF Frames
<1>7. Top' = m BY <1>4, <1>5 DEF Top, Goes
<1> QED BY <1>4, <1>5, <1>6, <1>7 DEF Goes

\* A call, and what is then on the stack.
LEMMA CallIs ==
  ASSUME IInv, NEW l, At(l), NEW m \in AllLabels, Proc(m) = Proc(l), NEW k \in AllLabels, m \in Awaits(k),
         phase \in PhasesOf(Proc(k)), stack' = Then(<<k, m>>), phase' = phase
  PROVE  /\ Frames' /\ Range(stack') = {k, m} \cup Range(Tail(stack)) /\ Top' = k /\ stack'[2] = m
<1>1. Here(l) /\ FramesOf(stack, phase) /\ phase \in {"off", "starting", "running", "closing", "retained"}
  BY HereIs DEF IInv, Frames, Types
<1>2. m \in LabelsOf(phase) /\ k \in LabelsOf(phase) BY <1>1, PhasesAre DEF Here
<1>3. Awaits(m) = Awaits(l) /\ (l \in Outermost => m \in Outermost) BY <1>1, SameProc DEF Here
<1>4. FramesOf(<<k, m>> \o Tail(stack), phase) /\ Calls(stack, k, m) BY <1>1, <1>2, <1>3, CallFrames DEF Here
<1>5. stack' = <<k, m>> \o Tail(stack) BY DEF Then
<1>6. Frames' BY <1>4, <1>5 DEF Frames
<1>7. Top' = k BY <1>4, <1>5 DEF Top, Calls
<1> QED BY <1>4, <1>5, <1>6, <1>7 DEF Calls

-----------------------------------------------------------------------------
(* Steps that leave the kernel alone *)

Kernel == OwedFits /\ Upper /\ Lower /\ BlockUpper /\ DelBlock /\ NoV6

\* The types of the commands.
LEMMA OwedType == ASSUME Types PROVE Owed \in SUBSET Commands
<1>1. rt.pending \in Seq(Commands) /\ undo \in Seq(Commands) /\ cmds \in Seq(Commands) BY DEF Types, Routers
<1>2. ASSUME NEW s \in Seq(Commands) PROVE Range(s) \subseteq Commands BY DEF Range
<1> QED BY <1>1, <1>2 DEF Owed

\* The kernel is as it should be when nothing of it changes and inverses that
\* concern it are neither lost nor added.
LEMMA KernelKeeps ==
  ASSUME Types, Kernel, UNCHANGED <<kern, v6, crashes>>, rt'.config = rt.config, rt'.up = rt.up,
         phase' \in {"starting", "running"} => phase \in {"starting", "running"} \/ Image = {},
         Owed' \subseteq Owed, Owed \ BlockCommands \subseteq Owed',
         \/ rt'.blocked = rt.blocked /\ Owed \ Adds(Blocks) \subseteq Owed'
         \/ Owed' \cap Dels(Blocks) = {} /\ (rt'.blocked \/ kern \cap Blocks = {})
  PROVE  Kernel'
<1>1. Image' = Image /\ Wanted' = Wanted
  <2>1. Image' = Image BY DEF Image, ImageOf, Cfg
  <2> QED BY <2>1 DEF Wanted, Base
<1>2. Owed \in SUBSET Commands BY OwedType
<1>3. OwedFits' BY <1>1 DEF Kernel, OwedFits
<1>4. Upper'
  <2>1. SUFFICES ASSUME crashes = 0, NEW i \in kern \ Blocks PROVE i \in Wanted \/ <<"del", i>> \in Owed'
    BY <1>1 DEF Upper
  <2>2. i \in Wanted \/ <<"del", i>> \in Owed BY <2>1 DEF Kernel, Upper
  <2>3. <<"del", i>> \notin BlockCommands BY <2>1 DEF BlockCommands
  <2> QED BY <2>2, <2>3
<1>5. Lower'
  <2>1. SUFFICES ASSUME phase \in {"starting", "running"}, NEW i \in Image PROVE i \in kern \/ <<"add", i>> \in Owed'
    BY <1>1 DEF Lower
  <2>2. i \in kern \/ <<"add", i>> \in Owed BY <2>1 DEF Kernel, Lower
  <2>3. i \notin Blocks BY <2>1 DEF Image, ImageOf, Blocks
  <2>4. <<"add", i>> \notin BlockCommands BY <2>3 DEF BlockCommands
  <2> QED BY <2>2, <2>4
<1>6. NoV6' BY DEF Kernel, NoV6
<1>7. BlockUpper'
  <2>1. SUFFICES ASSUME crashes = 0, ~rt.up, NEW i \in kern \cap Blocks PROVE rt'.blocked \/ <<"del", i>> \in Owed'
    BY DEF BlockUpper
  <2>2. rt.blocked \/ <<"del", i>> \in Owed BY <2>1 DEF Kernel, BlockUpper
  <2>3. <<"del", i>> \notin Adds(Blocks) BY DEF Adds
  <2> QED BY <2>2, <2>3
<1>8. DelBlock'
  <2>1. SUFFICES ASSUME NEW i \in Blocks, <<"del", i>> \in Owed' PROVE ~rt'.blocked /\ i \in kern
    BY DEF DelBlock
  <2>2. ~rt.blocked /\ i \in kern BY <2>1 DEF Kernel, DelBlock
  <2>3. <<"del", i>> \in Dels(Blocks) BY DEF Dels
  <2> QED BY <2>1, <2>2, <2>3
<1> QED BY <1>3, <1>4, <1>5, <1>6, <1>7, <1>8 DEF Kernel

\* No transaction is being undone or could be.
Settled ==
  /\ cmds = <<>> \/ mode \notin {"undo", "pending"}
  /\ undo = <<>> \/ Top \notin TxLabels \/ mode # "tx"
\* Then only what is kept for a retry is owed.
LEMMA SettledOwes ==
  ASSUME Settled', Once(rt'.pending) PROVE Owed' = Range(rt'.pending) /\ OneDel'
<1>1. Owed' = Range(rt'.pending) BY RangeEmpty DEF Settled, Owed
<1>2. Once(<<>>) /\ Range(<<>>) = {} BY RangeEmpty DEF Once
<1>3. OneDel' BY <1>2 DEF Settled, OneDel
<1> QED BY <1>1, <1>3

\* What an action finds owed at its label: of a transaction that has succeeded
\* the inverses of its commands.
LEMMA OwedHere ==
  ASSUME IInv, NEW l, At(l)
  PROVE  /\ Owed = Range(rt.pending) \cup (IF mode = "tx" /\ l \in TxLabels THEN Range(undo) ELSE {})
         /\ mode = "tx" /\ l \in TxLabels => \A c \in Range(undo) : Inverse1(c) \in Steps(l)
         /\ Once(rt.pending)
<1>1. Here(l) BY HereIs
<1>2. l \in TxLabels => TxTop(l) BY <1>1 DEF Here, AtTop
<1> QED BY <1>1, <1>2 DEF Owed, Here, TxTop, IInv, OneDel

\* An inverse of a command that deletes a block rule adds one, and vice versa.
LEMMA InverseOf ==
  ASSUME NEW c \in Commands, NEW S
  PROVE  /\ Inverse1(c) \in Dels(S) => c \in Adds(S)
         /\ Inverse1(c) \in Adds(S) => c \in Dels(S)
<1>1. PICK v \in {"add", "del"}, i \in Items : c = <<v, i>> BY DEF Commands
<1> QED BY <1>1 DEF Inverse1, Adds, Dels

\* A step at a label that leaves kernel and router alone.
LEMMA Undisturbed ==
  ASSUME IInv, NEW l, At(l), UNCHANGED <<kern, v6, owner, rt, crashes>>, Settled',
         phase' \in {"starting", "running"} => phase \in {"starting", "running"},
         l # "claim_write", mode = "tx" /\ l \in TxLabels => l \in {"block_off", "unblock_off"}
  PROVE  Kernel' /\ OneDel' /\ Ownership' /\ Recovering' /\ Owed' = Range(rt.pending)
<1>1. Here(l) BY HereIs
<1>2. Once(rt.pending) BY OwedHere
<1>3. Owed' = Range(rt.pending) /\ OneDel'
  <2>1. Once(rt'.pending) BY <1>2
  <2> QED BY <2>1, SettledOwes
<1>4. Owed' \subseteq Owed BY <1>3, OwedHere
<1>5. Owed \ Adds(Blocks) \subseteq Owed'
  <2>1. CASE ~(mode = "tx" /\ l \in TxLabels) BY <1>3, <2>1, OwedHere
  <2>2. CASE mode = "tx" /\ l \in TxLabels
    <3>1. Steps(l) = Dels(Blocks) BY <2>2 DEF Steps
    <3>2. Range(undo) \subseteq Commands BY DEF IInv, Types, Range
    <3>3. Range(undo) \subseteq Adds(Blocks) BY <2>2, <3>1, <3>2, OwedHere, InverseOf
    <3> QED BY <1>3, <3>3, OwedHere
  <2> QED BY <2>1, <2>2
<1>6. Adds(Blocks) \subseteq BlockCommands BY DEF Adds, BlockCommands
<1>7. Kernel' BY <1>4, <1>5, <1>6, KernelKeeps DEF IInv, Kernel
<1>8. Ownership' /\ Recovering' BY <1>1 DEF IInv, Ownership, Recovering, Here
<1> QED BY <1>3, <1>7, <1>8

\* The notes of labels that stay, when nothing they are about changes.
LEMMA NotesStay ==
  ASSUME UNCHANGED <<kern, owner, rt, mg, phase, arg, crashes>>,
         \A m \in Range(stack') : Note(m)
  PROVE  Notes'
<1>1. ASSUME NEW m, Note(m) PROVE Note(m)' BY <1>1 DEF Note, Pure
<1> QED BY <1>1 DEF Notes

\* A step that only moves on.
LEMMA Moves ==
  ASSUME IInv, NEW l, At(l), UNCHANGED <<kern, v6, owner, rt, mg, phase, arg, crashes>>, Settled',
         l \notin {"claim_write", "sync_applied"}, mode = "tx" /\ l \in TxLabels => l \in {"block_off", "unblock_off"},
         Types', Frames', \A m \in Range(stack') : Note(m), TopFits'
  PROVE  IInv'
<1>1. Kernel' /\ OneDel' /\ Ownership' /\ Recovering' /\ Owed' = Range(rt.pending) BY Undisturbed
<1>2. Notes'
  <2>1. UNCHANGED <<kern, owner, rt, mg, phase, arg, crashes>> OBVIOUS
  <2> QED BY <2>1, NotesStay
<1>3. Latch' BY DEF IInv, Latch, Blocked, BlockActive
<1>4. ExitOwed'
  <2>1. Owed' \subseteq Owed BY <1>1, OwedHere
  <2> QED BY <2>1 DEF IInv, ExitOwed
<1>5. ExitKnown'
  <2>1. Top # "sync_applied" BY HereIs DEF Here
  <2> QED BY <2>1 DEF IInv, ExitKnown, Cfg
<1>6. Phases' BY DEF IInv, Phases
<1> QED BY <1>1, <1>2, <1>3, <1>4, <1>5, <1>6 DEF IInv, Kernel

\* Where a procedure can return to.
AwaitLabels == {"start_blocked", "unblock_back", "close_blocked", "ensured", "sync_verified", "clear_restored",
                "start_open", "close_unblocked", "clear_done", "start_applied", "sync_applied", "start_up",
                "closed", "sync", "sync_set", "sync_cleared", "sync_after"}
\* Labels that wait for a call.
LEMMA AwaitsIn == ASSUME NEW l \in AllLabels PROVE Awaits(l) \subseteq AwaitLabels
<1>1. CASE l \in BlockLabels \cup UnblockLabels \cup SetLabels BY <1>1, AwaitsAre DEF AwaitLabels
<1>2. CASE l \in UpLabels \cup CloseLabels \cup EnsureLabels \cup ClearLabels BY <1>2, AwaitsAre DEF AwaitLabels
<1>3. CASE l \in SyncLabels \cup StartLabels \cup {"closed"} BY <1>3, AwaitsAre
<1> QED BY <1>1, <1>2, <1>3 DEF AllLabels

\* A return leaves no transaction open, and an error promises nothing.
LEMMA Returned ==
  ASSUME NEW l \in AllLabels, Top' \in Awaits(l) \cup {"idle"}, cmds' = <<>>
  PROVE  Settled' /\ (ret' = "err" => TopFits')
<1>1. Top' \in AwaitLabels \cup {"idle"} BY AwaitsIn
<1>2. Top' \notin TxLabels \cup RunLabels BY <1>1 DEF AwaitLabels, TxLabels, RunLabels
<1>3. Settled' BY <1>2 DEF Settled
<1>4. ASSUME ret' = "err" PROVE TopFits' BY <1>1, <1>2, <1>4 DEF TopFits, AtTop, AwaitLabels, TxLabels, RunLabels
<1> QED BY <1>3, <1>4

\* An error is returned: nothing changes but the stack.
LEMMA ErrReturns ==
  ASSUME IInv, NEW l, At(l), Finish("err"), UNCHANGED <<kern, v6, owner, rt, mg, phase, arg, crashes>>,
         l \notin {"claim_write", "sync_applied"}, mode = "tx" /\ l \in TxLabels => l \in {"block_off", "unblock_off"},
         Types'
  PROVE  IInv'
<1>1. stack' = Tail(stack) /\ ret' = "err" /\ UNCHANGED <<mode, cmds, undo>> BY DEF Finish
<1>2. l \in AllLabels /\ cmds' = <<>> BY <1>1, HereIs DEF Here
<1>3. Frames' /\ Range(stack') \subseteq Range(stack) /\ Top' \in Awaits(l) \cup {"idle"} BY <1>1, FinishIs
<1>4. Settled' /\ TopFits' BY <1>1, <1>2, <1>3, Returned
<1>5. \A m \in Range(stack') : Note(m) BY <1>3 DEF IInv, Notes
<1> QED BY <1>3, <1>4, <1>5, Moves

\* A transaction begins.
LEMMA TxBegins ==
  ASSUME NEW m \in TxLabels, Top' = m, mode' = "tx", undo' = <<>>, ret' = "ok", Range(cmds') = Steps(m)',
         m \in {"set_done", "up_done"} => rt'.pending = <<>>,
         m \in {"block_off", "unblock_off"} => rt'.blocked, m = "block_on" => ~rt'.blocked
  PROVE  TopFits' /\ Settled'
<1>1. Settled' BY DEF Settled
<1>2. Range(undo') = {} BY RangeEmpty
<1>3. m = "block_on" => \A i \in Blocks : <<"add", i>> \in Range(cmds') BY DEF Steps, Adds
<1>4. TxTop(m)'
  <2>1. \A c \in Steps(m)' : c \in Range(cmds') OBVIOUS
  <2> QED BY <1>2, <1>3, <2>1 DEF TxTop
<1>5. m \notin RunLabels /\ m \notin AwaitLabels /\ m \notin {"unblock"} BY DEF TxLabels, RunLabels, AwaitLabels
<1>6. AtTop(m)' BY <1>4, <1>5 DEF AtTop, RunLabels, AwaitLabels
<1> QED BY <1>1, <1>6 DEF TopFits

\* While the node runs the latch is open as long as the block is being changed.
LEMMA Unverified ==
  ASSUME IInv, stack # <<>>, Head(stack) \in BlockLabels \cup UnblockLabels, phase = "running"
  PROVE  ~mg.verified
<1>1. FramesOf(stack, phase) /\ Notes BY DEF IInv, Frames
<1>2. stack \in Seq(LabelsOf(phase)) /\ Len(stack) \in Nat /\ Len(stack) >= 1 /\ Head(stack) = stack[1]
  BY <1>1 DEF FramesOf
<1>3. \A i \in 1..Len(stack) : stack[i] \in Range(stack) /\ stack[i] \in LabelsOf(phase) BY <1>2 DEF Range
<1>4. "unblock_back" \in UnblockLabels /\ \A x \in UnblockLabels : x \notin Outermost
  BY DEF UnblockLabels, Outermost, EnsureLabels, SyncLabels, StartLabels
<1>5. \A x \in BlockLabels : x \notin Outermost
  BY DEF BlockLabels, Outermost, EnsureLabels, SyncLabels, StartLabels
<1>6. \A i \in 1..Len(stack) : stack[i] \notin Outermost => i + 1 \in 1..Len(stack) /\ stack[i + 1] \in Awaits(stack[i])
  <2>1. SUFFICES ASSUME NEW i \in 1..Len(stack), stack[i] \notin Outermost
                 PROVE  i + 1 \in 1..Len(stack) /\ stack[i + 1] \in Awaits(stack[i]) OBVIOUS
  <2>2. i # Len(stack) BY <1>1, <2>1 DEF FramesOf
  <2>3. i < Len(stack) /\ i + 1 \in 1..Len(stack) BY <1>2, <2>2
  <2> QED BY <1>1, <2>3 DEF FramesOf
<1>7. \A x \in {"start_blocked", "close_blocked", "start_open", "close_unblocked"} : x \notin LabelsOf(phase)
  BY LabelsAre DEF BlockLabels, UnblockLabels, SetLabels, EnsureLabels, ClearLabels, SyncLabels
<1>8. ASSUME NEW i \in 1..Len(stack), stack[i] \in UnblockLabels PROVE ~mg.verified
  <2>1. i + 1 \in 1..Len(stack) /\ stack[i + 1] \in {"start_open", "close_unblocked", "clear_done"}
    BY <1>4, <1>6, <1>8, AwaitsAre
  <2>2. stack[i + 1] = "clear_done" /\ Note("clear_done") BY <1>1, <1>3, <1>7, <2>1 DEF Notes
  <2> QED BY <2>2 DEF Note
<1>9. CASE stack[1] \in UnblockLabels BY <1>2, <1>8, <1>9
<1>10. CASE stack[1] \in BlockLabels
  <2>1. 1 \in 1..Len(stack) BY <1>2
  <2>2. /\ 2 \in 1..Len(stack)
        /\ stack[2] \in {"start_blocked", "unblock_back", "close_blocked", "ensured", "sync_verified", "clear_restored"}
    <3>1. 1 + 1 \in 1..Len(stack) /\ stack[1 + 1] \in Awaits(stack[1]) BY <1>5, <1>6, <1>10, <2>1
    <3>2. 1 + 1 = 2 OBVIOUS
    <3> QED BY <1>10, <3>1, <3>2, AwaitsAre
  <2>3. CASE stack[2] = "unblock_back" BY <1>4, <1>8, <2>2, <2>3
  <2>4. CASE stack[2] \in {"ensured", "sync_verified", "clear_restored"}
    <3>1. Note(stack[2]) BY <1>1, <1>3, <2>2 DEF Notes
    <3> QED BY <2>4, <3>1 DEF Note
  <2> QED BY <1>3, <1>7, <2>2, <2>3, <2>4
<1> QED BY <1>2, <1>9, <1>10

\* The block is recorded or forgotten, with the inverses that enable it.
LEMMA BlockMoves ==
  ASSUME IInv, NEW l \in BlockLabels \cup UnblockLabels, At(l), NEW b \in BOOLEAN, NEW q \in Seq(Commands),
         rt' = [rt EXCEPT !.blocked = b, !.pending = q],
         UNCHANGED <<kern, v6, owner, mg, phase, arg, crashes>>, Settled', Types', Frames', TopFits',
         \A m \in Range(stack') : m \in Range(Tail(stack)) \/ m \in BlockLabels,
         Once(q), Range(q) \subseteq Range(rt.pending), Range(rt.pending) \ Adds(Blocks) \subseteq Range(q),
         mode = "tx" /\ l \in TxLabels => Range(undo) \subseteq BlockCommands,
         \/ b = rt.blocked /\ l \notin TxLabels
         \/ Range(q) \cap Dels(Blocks) = {} /\ (b \/ kern \cap Blocks = {})
  PROVE  IInv'
<1>1. Here(l) /\ rt \in Routers BY HereIs DEF IInv, Types
<1>2. /\ rt'.blocked = b /\ rt'.pending = q /\ rt'.config = rt.config /\ rt'.up = rt.up
      /\ rt'.owned = rt.owned /\ rt'.recover = rt.recover BY <1>1 DEF Routers
<1>3. Owed' = Range(q) /\ OneDel' BY <1>2, SettledOwes
<1>4. ~rt.recover BY <1>1 DEF Here, Note, Upped
<1>5. Kernel'
  <2>1. Owed = Range(rt.pending) \cup (IF mode = "tx" /\ l \in TxLabels THEN Range(undo) ELSE {}) BY OwedHere
  <2>2. Adds(Blocks) \subseteq BlockCommands BY DEF Adds, BlockCommands
  <2>3. Owed' \subseteq Owed /\ Owed \ BlockCommands \subseteq Owed' BY <1>3, <2>1, <2>2
  <2>4. \/ rt'.blocked = rt.blocked /\ Owed \ Adds(Blocks) \subseteq Owed'
        \/ Owed' \cap Dels(Blocks) = {} /\ (rt'.blocked \/ kern \cap Blocks = {}) BY <1>2, <1>3, <2>1
  <2> QED BY <1>2, <2>3, <2>4, KernelKeeps DEF IInv, Kernel
<1>6. Latch'
  <2>1. phase = "running" => ~mg.verified BY <1>1, Unverified DEF Here
  <2> QED BY <2>1 DEF Latch
<1>7. ExitOwed'
  <2>1. Owed' \subseteq Owed BY <1>3, OwedHere
  <2> QED BY <2>1 DEF IInv, ExitOwed
<1>8. ExitKnown'
  <2>1. Top # "sync_applied" BY <1>1 DEF Here, BlockLabels, UnblockLabels
  <2> QED BY <1>2, <2>1 DEF IInv, ExitKnown, Cfg
<1>9. Ownership' /\ Recovering' /\ Phases'
  <2>1. Top # "claim_write" BY <1>1 DEF Here, BlockLabels, UnblockLabels
  <2> QED BY <1>2, <1>4, <2>1 DEF IInv, Ownership, Recovering, Phases
<1>10. Notes'
  <2>1. SUFFICES ASSUME NEW m \in Range(stack') PROVE Note(m)' BY DEF Notes
  <2>2. CASE m \in BlockLabels
    <3>1. ~rt'.recover BY <1>2, <1>4
    <3> QED BY <2>2, <3>1 DEF Note, BlockLabels, Asked, SyncLabels, SetLabels, ClearLabels, UpLabels
  <2>3. CASE m \in Range(Tail(stack))
    <3>1. Note(m) /\ m \in Under(l) BY <1>1, <2>3 DEF Here, IInv, Notes
    <3>2. m \in {"start_blocked", "unblock_back", "close_blocked", "ensured", "sync_verified",
               "clear_restored", "start_open", "close_unblocked", "clear_done", "closed",
               "sync", "sync_set", "sync_cleared", "sync_after"} BY <3>1, UnderAre
    <3>3. /\ m \notin SetLabels \cup UpLabels \cup {"close_pending", "close_down"}
          /\ m \notin {"up", "claim_write", "close_cleaned", "close_recovered", "up_recovered"}
      BY <3>2 DEF SetLabels, UpLabels
    <3>4. Pure => Pure' BY <1>2 DEF Pure
    <3> QED BY <1>2, <3>1, <3>3, <3>4 DEF Note
  <2> QED BY <2>1, <2>2, <2>3
<1> QED BY <1>3, <1>5, <1>6, <1>7, <1>8, <1>9, <1>10 DEF IInv, Kernel

\* A label at which nothing is promised.
LEMMA Entered ==
  ASSUME Top' \notin TxLabels \cup RunLabels \cup AwaitLabels \cup {"unblock"}, cmds' = <<>>
  PROVE  TopFits' /\ Settled'
<1>1. TopFits' BY DEF TopFits, AtTop, AwaitLabels, TxLabels, RunLabels
<1>2. Settled' BY DEF Settled
<1> QED BY <1>1, <1>2

\* A block that is verified on return.
LEMMA BlockReturns ==
  ASSUME Top' \in Awaits("block") \cup {"idle"}, cmds' = <<>>, Blocked', rt'.blocked,
         Range(rt'.pending) \cap BlockCommands = {}
  PROVE  TopFits'
<1>1. "block" \in BlockLabels BY DEF BlockLabels
<1>2. Top' \in {"start_blocked", "unblock_back", "close_blocked", "ensured", "sync_verified", "clear_restored", "idle"}
  BY <1>1, AwaitsAre
<1> QED BY <1>2 DEF TopFits, AtTop, TxLabels, RunLabels

\* The labels of a procedure.
LEMMA Procs ==
  /\ \A l \in BlockLabels : l \in AllLabels /\ Proc(l) = "block"
  /\ \A l \in UnblockLabels : l \in AllLabels /\ Proc(l) = "unblock"
  /\ \A l \in SetLabels : l \in AllLabels /\ Proc(l) = "set"
  /\ \A l \in UpLabels : l \in AllLabels /\ Proc(l) = "up"
  /\ \A l \in CloseLabels : l \in AllLabels /\ Proc(l) = "close"
  /\ \A l \in EnsureLabels : l \in AllLabels /\ Proc(l) = "ensure"
  /\ \A l \in ClearLabels : l \in AllLabels /\ Proc(l) = "clear"
  /\ \A l \in SyncLabels : l \in AllLabels /\ Proc(l) = "sync"
  /\ \A l \in StartLabels : l \in AllLabels /\ Proc(l) = "start"
BY ProcIs DEF AllLabels

\* Both families of the block are verified at once.
LEMMA VerifiesIs ==
  /\ Verifies(TRUE) => Blocked
  /\ Verifies(FALSE) => kern \cap Blocks = {}
BY DEF Verifies, Blocked, BlockActive, Blocks

\* The count of failures stays within its bound.
LEMMA FaultsAre ==
  ASSUME Types, faults' = faults \/ (faults < MaxFail /\ faults' = faults + 1) PROVE faults' \in 0..MaxFail
BY RouterAssumption DEF Types

\* While a block is recorded none of its rules will be deleted.
LEMMA NoDels == ASSUME IInv, rt.blocked PROVE Range(rt.pending) \cap Dels(Blocks) = {}
<1>1. Range(rt.pending) \subseteq Owed BY DEF Owed
<1> QED BY <1>1 DEF IInv, DelBlock, Dels

\* A command about a block rule adds it or deletes it.
LEMMA BlockSplit == BlockCommands = Adds(Blocks) \cup Dels(Blocks)
BY DEF BlockCommands, Adds, Dels

\* A note needs no more than this within block and unblock.
LEMMA BlockNote == ASSUME NEW m \in BlockLabels \cup UnblockLabels, ~rt.recover PROVE Note(m)
BY DEF Note, BlockLabels, UnblockLabels, Asked, SyncLabels, SetLabels, ClearLabels, UpLabels

\* block_direct installs the block, replaces it, or drops inverses that would enable it.
LEMMA StepBlockDirect == ASSUME IInv, BlockDirect PROVE IInv'
<1> DEFINE l == "block"
<1>1. /\ At(l) /\ l \in BlockLabels /\ "block_on" \in BlockLabels /\ "block_off" \in BlockLabels
      /\ l \notin TxLabels /\ l \notin {"claim_write", "sync_applied"}
      /\ UNCHANGED <<kern, v6, owner, mg, phase, arg, why, after, crashes>>
  BY DEF BlockDirect, kernelVars, callVars, BlockLabels, TxLabels
<1>2. Here(l) /\ Types /\ rt \in Routers BY <1>1, HereIs DEF IInv, Types
<1>3. ~rt.recover BY <1>2 DEF Here, Note, Upped, BlockLabels
<1>4. /\ l \in AllLabels /\ "block_on" \in AllLabels /\ "block_off" \in AllLabels
      /\ Proc("block_on") = Proc(l) /\ Proc("block_off") = Proc(l) BY <1>1, Procs
<1> HIDE DEF l
<1>5. ASSUME NEW m \in {"block_on", "block_off"}, NEW cs, Run("tx", cs, Then(<<m>>)), cs \in Seq(Commands),
             Range(cs) = Steps(m)', UNCHANGED rt, m = "block_off" => rt.blocked, m = "block_on" => ~rt.blocked,
             faults' \in 0..MaxFail
      PROVE  IInv'
  <2>1. mode' = "tx" /\ cmds' = cs /\ undo' = <<>> /\ ret' = "ok" /\ stack' = Then(<<m>>) BY <1>5 DEF Run
  <2>2. Frames' /\ Range(stack') = {m} \cup Range(Tail(stack)) /\ Top' = m BY <1>1, <1>4, <2>1, GoIs
  <2>3. TopFits' /\ Settled'
    <3>1. m \in TxLabels BY DEF TxLabels
    <3>2. m \in {"block_off", "unblock_off"} => rt'.blocked BY <1>5
    <3>3. m = "block_on" => ~rt'.blocked BY <1>5
    <3> QED BY <1>5, <2>1, <2>2, <3>1, <3>2, <3>3, TxBegins
  <2>4. Types' BY <1>1, <1>2, <1>5, <2>1 DEF Types
  <2>5. \A k \in Range(stack') : Note(k)
    <3>1. Note(m) BY <1>1, <1>3, BlockNote
    <3> QED BY <1>2, <2>2, <3>1 DEF Here, IInv, Notes
  <2> QED BY <1>1, <1>5, <2>2, <2>3, <2>4, <2>5, Moves
<1>6. CASE ~rt.blocked /\ Run("tx", EnableBlock, Then(<<"block_on">>)) /\ UNCHANGED <<rt, faults>>
  <2>1. Range(EnableBlock) = Steps("block_on")' /\ EnableBlock \in Seq(Commands) BY FixedAre DEF Steps
  <2> QED BY <1>2, <1>5, <1>6, <2>1 DEF Types
<1>7. CASE rt.blocked /\ VerifyOk(TRUE) /\ rt' = [rt EXCEPT !.pending = Forget(@)] /\ Finish("ok")
  <2> DEFINE q == Forget(rt.pending)
  <2>1. rt.pending \in Seq(Commands) /\ Once(rt.pending) BY <1>2 DEF Routers, IInv, OneDel
  <2>2. q \in Seq(Commands) /\ Range(q) = Range(rt.pending) \ Adds(Blocks) /\ Once(q)
    BY <2>1, ForgetIs, FixedAre
  <2>3. rt' = [rt EXCEPT !.blocked = rt.blocked, !.pending = q] BY <1>2, <1>7 DEF Routers
  <2> HIDE DEF q
  <2>4. rt'.blocked /\ rt'.pending = q /\ rt' \in Routers BY <1>2, <1>7, <2>2, <2>3 DEF Routers
  <2>5. stack' = Tail(stack) /\ ret' = "ok" /\ UNCHANGED <<mode, cmds, undo>> BY <1>7 DEF Finish
  <2>6. cmds' = <<>> BY <1>2, <2>5 DEF Here
  <2>7. Frames' /\ Range(stack') = Range(Tail(stack)) /\ Top' \in Awaits(l) \cup {"idle"} BY <1>1, <2>5, FinishIs
  <2>8. Types' BY <1>1, <1>2, <1>7, <2>4, <2>5 DEF Types, VerifyOk
  <2>9. TopFits'
    <3>1. Blocked' BY <1>1, <1>7, VerifiesIs DEF VerifyOk, Blocked, BlockActive
    <3>2. Range(q) \cap BlockCommands = {} BY <1>7, <2>2, NoDels, BlockSplit
    <3> QED BY <2>4, <2>6, <2>7, <3>1, <3>2, BlockReturns DEF l
  <2>10. Settled' BY <1>4, <2>6, <2>7, Returned
  <2>11. \A m \in Range(stack') : m \in Range(Tail(stack)) \/ m \in BlockLabels BY <2>7
  <2>12. rt.blocked \in BOOLEAN BY <1>2 DEF Routers
  <2> QED BY <1>1, <2>2, <2>3, <2>7, <2>8, <2>9, <2>10, <2>11, <2>12, BlockMoves
<1>8. CASE rt.blocked /\ VerifyFails(TRUE) /\ Run("tx", DisableBlock, Then(<<"block_off">>)) /\ UNCHANGED rt
  <2>1. Range(DisableBlock) = Steps("block_off")' /\ DisableBlock \in Seq(Commands) BY FixedAre DEF Steps
  <2>2. faults' \in 0..MaxFail BY <1>2, <1>8, FaultsAre DEF VerifyFails
  <2> QED BY <1>5, <1>8, <2>1, <2>2
<1> QED BY <1>6, <1>7, <1>8 DEF BlockDirect

\* A transaction on the block that has run: what it can undo, and what it did.
LEMMA BlockTx ==
  ASSUME IInv, NEW l \in {"block_off", "unblock_off", "block_on"}, At(l)
  PROVE  /\ mode = "tx" => ret = "ok" /\ Range(undo) \subseteq BlockCommands
         /\ ret = "ok" => mode = "tx"
         /\ l # "block_on" => rt.blocked
         /\ ret = "ok" /\ l # "block_on" => kern \cap Blocks = {}
         /\ ret = "ok" /\ l = "block_on" => Range(rt.pending) \cap Dels(Blocks) = {}
<1>1. Here(l) /\ l \in TxLabels BY HereIs DEF TxLabels
<1>2. TxTop(l) BY <1>1 DEF Here, AtTop
<1>3. Steps(l) \in {Dels(Blocks), Adds(Blocks)} /\ (l # "block_on" => Steps(l) = Dels(Blocks)) BY DEF Steps
<1>4. ASSUME mode = "tx" PROVE Range(undo) \subseteq BlockCommands
  <2>1. Range(undo) \subseteq Commands BY DEF IInv, Types, Range
  <2>2. \A c \in Range(undo) : Inverse1(c) \in Steps(l) BY <1>2, <1>4 DEF TxTop
  <2> QED BY <1>3, <2>1, <2>2, InverseOf, BlockSplit
<1>5. ASSUME ret = "ok", l # "block_on" PROVE kern \cap Blocks = {}
  <2>1. \A c \in Dels(Blocks) : Did(c) BY <1>1, <1>2, <1>3, <1>5 DEF TxTop, Here
  <2>2. ASSUME NEW i \in Blocks PROVE i \notin kern
    <3>1. <<"del", i>> \in Dels(Blocks) BY DEF Dels
    <3>2. Did(<<"del", i>>) BY <2>1, <3>1
    <3> QED BY <3>2 DEF Did
  <2> QED BY <2>2
<1>6. ASSUME ret = "ok", l = "block_on" PROVE Range(rt.pending) \cap Dels(Blocks) = {}
  <2>1. \A i \in Blocks : <<"del", i>> \notin Range(rt.pending) BY <1>1, <1>2, <1>6 DEF TxTop, Here
  <2> QED BY <2>1 DEF Dels
<1> QED BY <1>2, <1>4, <1>5, <1>6 DEF TxTop

\* The remnants are gone, and the block is installed anew.
LEMMA StepBlockRemnantsGone == ASSUME IInv, BlockRemnantsGone PROVE IInv'
<1> DEFINE l == "block_off"
<1>1. /\ At(l) /\ l \in BlockLabels /\ "block_on" \in BlockLabels
      /\ l \notin {"claim_write", "sync_applied"}
      /\ UNCHANGED <<kern, v6, owner, mg, phase, arg, why, after, faults, crashes>>
  BY DEF BlockRemnantsGone, kernelVars, callVars, BlockLabels
<1>2. Here(l) /\ Types /\ rt \in Routers BY <1>1, HereIs DEF IInv, Types
<1>3. /\ mode = "tx" => ret = "ok" /\ Range(undo) \subseteq BlockCommands
      /\ ret = "ok" => mode = "tx" /\ kern \cap Blocks = {} /\ rt.blocked
  BY <1>1, BlockTx
<1>4. CASE ret = "err" /\ Finish("err") /\ UNCHANGED rt
  <2>1. Types' BY <1>1, <1>2, <1>4 DEF Types, Finish
  <2> QED BY <1>1, <1>3, <1>4, <2>1, ErrReturns
<1>5. CASE ret = "ok" /\ rt' = [rt EXCEPT !.blocked = FALSE] /\ Run("tx", EnableBlock, Then(<<"block_on">>))
  <2>1. mode' = "tx" /\ cmds' = EnableBlock /\ undo' = <<>> /\ ret' = "ok" /\ stack' = Then(<<"block_on">>)
    BY <1>5 DEF Run
  <2>2. Frames' /\ Range(stack') = {"block_on"} \cup Range(Tail(stack)) /\ Top' = "block_on"
    BY <1>1, <2>1, GoIs, Procs
  <2>3. rt' = [rt EXCEPT !.blocked = FALSE, !.pending = rt.pending] BY <1>2, <1>5 DEF Routers
  <2>4. rt' \in Routers /\ ~rt'.blocked /\ rt.pending \in Seq(Commands) BY <1>2, <1>5 DEF Routers
  <2>5. EnableBlock \in Seq(Commands) /\ Range(EnableBlock) = Steps("block_on")' BY FixedAre DEF Steps
  <2>6. TopFits' /\ Settled'
    <3>1. "block_on" \in TxLabels BY DEF TxLabels
    <3> QED BY <2>1, <2>2, <2>4, <2>5, <3>1, TxBegins
  <2>7. Types' BY <1>1, <1>2, <2>1, <2>4, <2>5 DEF Types
  <2>8. \A m \in Range(stack') : m \in Range(Tail(stack)) \/ m \in BlockLabels BY <1>1, <2>2
  <2>9. Once(rt.pending) BY OwedHere, <1>1
  <2>10. Range(rt.pending) \cap Dels(Blocks) = {} BY <1>3, <1>5, NoDels
  <2>11. FALSE \in BOOLEAN OBVIOUS
  <2> QED BY <1>1, <1>3, <1>5, <2>2, <2>3, <2>4, <2>6, <2>7, <2>8, <2>9, <2>10, <2>11, BlockMoves
<1> QED BY <1>4, <1>5 DEF BlockRemnantsGone

\* The block is recorded once its transaction is through, verified or not.
LEMMA StepBlockInstalled == ASSUME IInv, BlockInstalled PROVE IInv'
<1> DEFINE l == "block_on"
<1>1. /\ At(l) /\ l \in BlockLabels /\ l \notin {"claim_write", "sync_applied"}
      /\ UNCHANGED <<kern, v6, owner, mg, phase, arg, why, after, crashes>>
  BY DEF BlockInstalled, kernelVars, callVars, BlockLabels
<1>2. Here(l) /\ Types /\ rt \in Routers BY <1>1, HereIs DEF IInv, Types
<1>3. /\ mode = "tx" => ret = "ok" /\ Range(undo) \subseteq BlockCommands
      /\ ret = "ok" => mode = "tx" /\ Range(rt.pending) \cap Dels(Blocks) = {}
  BY <1>1, BlockTx
<1>4. CASE ret = "err" /\ Finish("err") /\ UNCHANGED <<rt, faults>>
  <2>1. Types' BY <1>1, <1>2, <1>4 DEF Types, Finish
  <2> QED BY <1>1, <1>3, <1>4, <2>1, ErrReturns
<1>5. ASSUME ret = "ok", NEW q, q \in {rt.pending, Forget(rt.pending)}, rt' = [rt EXCEPT !.blocked = TRUE, !.pending = q],
             NEW r \in {"ok", "err"}, Finish(r), faults' \in 0..MaxFail,
             r = "ok" => Blocked /\ q = Forget(rt.pending)
      PROVE  IInv'
  <2>1. rt.pending \in Seq(Commands) /\ Once(rt.pending) BY <1>2 DEF Routers, IInv, OneDel
  <2>2. /\ q \in Seq(Commands) /\ Once(q) /\ Range(q) \subseteq Range(rt.pending)
        /\ Range(rt.pending) \ Adds(Blocks) \subseteq Range(q)
        /\ r = "ok" => Range(q) = Range(rt.pending) \ Adds(Blocks)
    BY <1>5, <2>1, ForgetIs, FixedAre
  <2>3. rt'.blocked /\ rt'.pending = q /\ rt' \in Routers BY <1>2, <1>5, <2>2 DEF Routers
  <2>4. stack' = Tail(stack) /\ ret' = r /\ UNCHANGED <<mode, cmds, undo>> BY <1>5 DEF Finish
  <2>5. cmds' = <<>> BY <1>2, <2>4 DEF Here
  <2>6. Frames' /\ Range(stack') = Range(Tail(stack)) /\ Top' \in Awaits(l) \cup {"idle"} BY <1>1, <2>4, FinishIs
  <2>7. Types' BY <1>1, <1>2, <1>5, <2>3, <2>4 DEF Types
  <2>8. Settled' /\ (ret' = "err" => TopFits')
    <3>1. l \in AllLabels BY <1>1, Procs
    <3> QED BY <2>5, <2>6, <3>1, Returned
  <2>9. ASSUME r = "ok" PROVE TopFits'
    <3>1. Blocked' BY <1>1, <1>5, <2>9 DEF Blocked, BlockActive
    <3>2. Range(q) \cap BlockCommands = {} BY <1>3, <1>5, <2>2, <2>9, BlockSplit
    <3>3. Awaits(l) = Awaits("block") BY AwaitsAre DEF BlockLabels
    <3> QED BY <2>3, <2>5, <2>6, <3>1, <3>2, <3>3, BlockReturns
  <2>10. TopFits' BY <2>4, <2>8, <2>9
  <2>11. \A m \in Range(stack') : m \in Range(Tail(stack)) \/ m \in BlockLabels BY <2>6
  <2>12. Range(q) \cap Dels(Blocks) = {} BY <1>3, <1>5, <2>2
  <2>13. TRUE \in BOOLEAN OBVIOUS
  <2> QED BY <1>1, <1>3, <1>5, <2>2, <2>6, <2>7, <2>8, <2>10, <2>11, <2>12, <2>13, BlockMoves
<1>6. CASE ret = "ok" /\ VerifyOk(TRUE) /\ rt' = [rt EXCEPT !.blocked = TRUE, !.pending = Forget(@)] /\ Finish("ok")
  <2>1. Blocked BY <1>6, VerifiesIs DEF VerifyOk
  <2>2. faults' \in 0..MaxFail BY <1>2, <1>6 DEF Types, VerifyOk
  <2>3. rt' = [rt EXCEPT !.blocked = TRUE, !.pending = Forget(rt.pending)] BY <1>6
  <2> QED BY <1>5, <1>6, <2>1, <2>2, <2>3
<1>7. CASE ret = "ok" /\ VerifyFails(TRUE) /\ rt' = [rt EXCEPT !.blocked = TRUE] /\ Finish("err")
  <2>1. faults' \in 0..MaxFail BY <1>2, <1>7, FaultsAre DEF VerifyFails
  <2>2. rt' = [rt EXCEPT !.blocked = TRUE, !.pending = rt.pending] BY <1>2, <1>7 DEF Routers
  <2> QED BY <1>5, <1>7, <2>1, <2>2
<1> QED BY <1>4, <1>6, <1>7 DEF BlockInstalled

\* unblock_direct removes the block if one is recorded.
LEMMA StepUnblockDirect == ASSUME IInv, UnblockDirect PROVE IInv'
<1> DEFINE l == "unblock"
<1>1. /\ At(l) /\ l \in UnblockLabels /\ "unblock_off" \in UnblockLabels /\ l \notin TxLabels
      /\ l \notin {"claim_write", "sync_applied"}
      /\ UNCHANGED <<kern, v6, owner, rt, mg, phase, arg, why, after, faults, crashes>>
  BY DEF UnblockDirect, kernelVars, callVars, UnblockLabels, TxLabels
<1>2. Here(l) /\ Types /\ ~rt.recover BY <1>1, HereIs DEF IInv, Here, Note, Upped
<1>3. CASE rt.blocked
  <2>1. mode' = "tx" /\ cmds' = DisableBlock /\ undo' = <<>> /\ ret' = "ok" /\ stack' = Then(<<"unblock_off">>)
    BY <1>3 DEF Run, UnblockDirect
  <2>2. Frames' /\ Range(stack') = {"unblock_off"} \cup Range(Tail(stack)) /\ Top' = "unblock_off"
    BY <1>1, <2>1, GoIs, Procs
  <2>3. DisableBlock \in Seq(Commands) /\ Range(DisableBlock) = Steps("unblock_off")' BY FixedAre DEF Steps
  <2>4. TopFits' /\ Settled'
    <3>1. "unblock_off" \in TxLabels BY DEF TxLabels
    <3> QED BY <1>1, <1>3, <2>1, <2>2, <2>3, <3>1, TxBegins
  <2>5. Types' BY <1>1, <1>2, <2>1, <2>3 DEF Types
  <2>6. \A m \in Range(stack') : Note(m)
    <3>1. Note("unblock_off") BY <1>1, <1>2, BlockNote
    <3> QED BY <1>2, <2>2, <3>1 DEF Here, IInv, Notes
  <2> QED BY <1>1, <2>2, <2>4, <2>5, <2>6, Moves
<1>4. CASE ~rt.blocked
  <2>1. stack' = Tail(stack) /\ ret' = "ok" /\ UNCHANGED <<mode, cmds, undo>> BY <1>4 DEF Finish, UnblockDirect
  <2>2. cmds' = <<>> BY <1>2, <2>1 DEF Here
  <2>3. Frames' /\ Range(stack') \subseteq Range(stack) /\ Top' \in Awaits(l) \cup {"idle"} BY <1>1, <2>1, FinishIs
  <2>4. Types' BY <1>1, <1>2, <2>1 DEF Types
  <2>5. Settled' BY <2>2, <2>3, Returned, <1>1, Procs
  <2>6. TopFits'
    <3>1. Top' \in {"start_open", "close_unblocked", "clear_done", "idle"} BY <1>1, <2>3, AwaitsAre
    <3>2. Top' # "close_unblocked"
      <4>1. SUFFICES ASSUME Top' = "close_unblocked" PROVE FALSE OBVIOUS
      <4>2. Tail(stack) # <<>> /\ Head(Tail(stack)) = "close_unblocked" BY <2>1, <4>1 DEF Top
      <4>3. stack[2] = "close_unblocked" BY <1>2, <4>2 DEF Here
      <4> QED BY <1>2, <1>4, <4>3 DEF Here, AtTop
    <3> QED BY <2>2, <3>1, <3>2 DEF TopFits, AtTop, TxLabels, RunLabels
  <2>7. \A m \in Range(stack') : Note(m) BY <2>3 DEF IInv, Notes
  <2> QED BY <1>1, <2>3, <2>4, <2>5, <2>6, <2>7, Moves
<1> QED BY <1>3, <1>4

\* The block counts as gone only when both families are verified absent.
LEMMA StepUnblockRemoved == ASSUME IInv, UnblockRemoved PROVE IInv'
<1> DEFINE l == "unblock_off"
<1>1. /\ At(l) /\ l \in UnblockLabels /\ "unblock_back" \in UnblockLabels /\ "block" \in BlockLabels
      /\ l \notin {"claim_write", "sync_applied"}
      /\ UNCHANGED <<kern, v6, owner, mg, phase, arg, why, after, crashes>>
  BY DEF UnblockRemoved, kernelVars, callVars, UnblockLabels, BlockLabels
<1>2. Here(l) /\ Types /\ rt \in Routers /\ ~rt.recover BY <1>1, HereIs DEF IInv, Types, Here, Note, Upped
<1>3. /\ mode = "tx" => ret = "ok" /\ Range(undo) \subseteq BlockCommands
      /\ ret = "ok" => mode = "tx" /\ kern \cap Blocks = {}
      /\ rt.blocked
  BY <1>1, BlockTx
<1>4. CASE ret = "ok" /\ VerifyOk(FALSE) /\ rt' = [rt EXCEPT !.blocked = FALSE] /\ Finish("ok")
  <2>1. stack' = Tail(stack) /\ ret' = "ok" /\ UNCHANGED <<mode, cmds, undo>> BY <1>4 DEF Finish
  <2>2. cmds' = <<>> BY <1>2, <2>1 DEF Here
  <2>3. Frames' /\ Range(stack') = Range(Tail(stack)) /\ Top' \in Awaits(l) \cup {"idle"} BY <1>1, <2>1, FinishIs
  <2>4. rt' = [rt EXCEPT !.blocked = FALSE, !.pending = rt.pending] BY <1>2, <1>4 DEF Routers
  <2>5. rt' \in Routers /\ rt.pending \in Seq(Commands) BY <1>2, <1>4 DEF Routers
  <2>6. Types' BY <1>1, <1>2, <1>4, <2>1, <2>5 DEF Types, VerifyOk
  <2>7. Settled' BY <2>2, <2>3, Returned, <1>1, Procs
  <2>8. TopFits'
    <3>1. Top' \in {"start_open", "close_unblocked", "clear_done", "idle"} BY <1>1, <2>3, AwaitsAre
    <3>2. kern' \cap Blocks = {} BY <1>1, <1>3, <1>4
    <3> QED BY <2>2, <3>1, <3>2 DEF TopFits, AtTop, TxLabels, RunLabels
  <2>9. \A m \in Range(stack') : m \in Range(Tail(stack)) \/ m \in BlockLabels BY <2>3
  <2>10. Once(rt.pending) BY OwedHere, <1>1
  <2>11. Range(rt.pending) \cap Dels(Blocks) = {} BY <1>3, NoDels
  <2>12. FALSE \in BOOLEAN OBVIOUS
  <2> QED BY <1>1, <1>3, <1>4, <2>3, <2>4, <2>5, <2>6, <2>7, <2>8, <2>9, <2>10, <2>11, <2>12, BlockMoves
<1>5. CASE /\ \/ ret = "ok" /\ VerifyFails(FALSE)
              \/ ret = "err" /\ UNCHANGED faults
           /\ Goto(Then(<<"block", "unblock_back">>))
           /\ UNCHANGED rt
  <2>1. stack' = Then(<<"block", "unblock_back">>) /\ ret' = "ok" /\ UNCHANGED <<mode, cmds, undo>> BY <1>5 DEF Goto
  <2>2. phase \in PhasesOf(Proc("block"))
    <3>1. phase \in PhasesOf("unblock") /\ Proc("block") = "block" BY <1>1, <1>2, Procs DEF Here
    <3> QED BY <3>1 DEF PhasesOf
  <2>3. "unblock_back" \in Awaits("block") BY <1>1, AwaitsAre
  <2>4. Frames' /\ Range(stack') = {"block", "unblock_back"} \cup Range(Tail(stack)) /\ Top' = "block"
    BY <1>1, <2>1, <2>2, <2>3, CallIs, Procs
  <2>5. TopFits' /\ Settled'
    <3>1. cmds' = <<>> BY <1>2, <2>1 DEF Here
    <3> QED BY <2>4, <3>1, Entered DEF TxLabels, RunLabels, AwaitLabels
  <2>6. faults' \in 0..MaxFail BY <1>2, <1>5, FaultsAre DEF VerifyFails
  <2>7. Types' BY <1>1, <1>2, <1>5, <2>1, <2>6 DEF Types
  <2>8. \A m \in Range(stack') : Note(m)
    <3>1. Note("block") /\ Note("unblock_back") BY <1>1, <1>2, BlockNote
    <3> QED BY <1>2, <2>4, <3>1 DEF Here, IInv, Notes
  <2> QED BY <1>1, <1>5, <2>4, <2>5, <2>7, <2>8, Moves
<1> QED BY <1>4, <1>5 DEF UnblockRemoved

\* unblock_direct reports the error once the block is back.
LEMMA StepUnblockRestored == ASSUME IInv, UnblockRestored PROVE IInv'
<1>1. /\ At("unblock_back") /\ Finish("err")
      /\ UNCHANGED <<kern, v6, owner, rt, mg, phase, arg, why, after, faults, crashes>>
  BY DEF UnblockRestored, kernelVars, callVars
<1>2. Types' BY <1>1 DEF IInv, Types, Finish
<1> QED BY <1>1, <1>2, ErrReturns DEF TxLabels

-----------------------------------------------------------------------------
(* set *)

\* The retry of what is owed begins.
LEMMA RetryMoves ==
  ASSUME IInv, NEW l, NEW m, <<l, m>> \in {<<"set", "set_diff">>, <<"up_claimed", "up_retried">>, <<"close_blocked", "close_pending">>},
         At(l), RetryPending(Then(<<m>>)), l = "close_blocked" => ret = "ok",
         UNCHANGED <<kern, v6, owner, mg, phase, arg, why, after, faults, crashes>>
  PROVE  IInv'
<1>1. /\ mode' = "pending" /\ cmds' = rt.pending /\ undo' = <<>> /\ ret' = "ok" /\ stack' = Then(<<m>>)
      /\ rt' = [rt EXCEPT !.pending = <<>>]
  BY DEF RetryPending, Run
<1>2. Here(l) /\ Types /\ rt \in Routers BY HereIs DEF IInv, Types
<1>3. /\ rt' \in Routers /\ rt'.pending = <<>> /\ rt'.config = rt.config /\ rt'.up = rt.up /\ rt'.blocked = rt.blocked
      /\ rt'.owned = rt.owned /\ rt'.recover = rt.recover /\ rt.pending \in Seq(Commands)
  <2>1. <<>> \in Seq(Commands) OBVIOUS
  <2> QED BY <1>1, <1>2, <2>1 DEF Routers
<1>4. l \in AllLabels /\ m \in AllLabels /\ Proc(l) = Proc(m) BY Procs DEF SetLabels, UpLabels, CloseLabels
<1>5. Frames' /\ Range(stack') = {m} \cup Range(Tail(stack)) /\ Top' = m BY <1>1, <1>4, GoIs
<1>6. Types' BY <1>1, <1>2, <1>3 DEF Types
<1>7. l \notin TxLabels /\ m \notin TxLabels /\ m \in RunLabels /\ m # "claim_write" /\ l # "claim_write" BY DEF TxLabels, RunLabels
<1>8. Owed = Range(rt.pending) /\ Once(rt.pending) BY <1>7, OwedHere
<1>9. Owed' = Owed BY <1>1, <1>3, <1>5, <1>7, <1>8, RangeEmpty DEF Owed
<1>10. OneDel'
  <2>1. Once(<<>>) /\ Range(<<>>) = {} BY RangeEmpty DEF Once
  <2> QED BY <1>1, <1>3, <1>8, <2>1 DEF OneDel
<1>11. Kernel' BY <1>2, <1>3, <1>9, KernelKeeps DEF IInv, Kernel
<1>12. Latch' /\ ExitOwed' /\ Phases' /\ Recovering'
  BY <1>3, <1>9 DEF IInv, Latch, Blocked, BlockActive, ExitOwed, Phases, Recovering
<1>13. ExitKnown'
  <2>1. Top # "sync_applied" BY <1>2 DEF Here
  <2> QED BY <1>3, <2>1 DEF IInv, ExitKnown, Cfg
<1>14. Ownership' BY <1>2, <1>3, <1>5, <1>7 DEF IInv, Ownership, Here
<1>15. Notes'
  <2>1. ASSUME NEW k \in Range(Tail(stack)) PROVE Note(k)'
    <3>1. Note(k) BY <1>2 DEF Here, IInv, Notes
    <3>2. Range(<<>>) = {} BY RangeEmpty
    <3> QED BY <1>3, <3>1, <3>2 DEF Note, Pure
  <2>2. Note(m)'
    <3>1. Note(l) /\ AtTop(l) BY <1>2 DEF Here
    <3>2. CASE l = "set"
      <4>1. m = "set_diff" /\ m \in SetLabels /\ l \in SetLabels /\ l \in Asked BY <3>2 DEF SetLabels, Asked
      <4>2. /\ arg \in Configs /\ rt.up /\ ~rt.recover
            /\ phase = "running" => (Cfg(rt.config).exit /\ ~arg.exit => mg.verified)
        BY <3>1, <4>1 DEF Note
      <4> QED BY <1>3, <4>1, <4>2 DEF Note, Upped, BlockLabels, UnblockLabels, ClearLabels, UpLabels, Cfg
    <3>3. CASE l = "up_claimed"
      <4>1. m = "up_retried" BY <3>3
      <4>2. ~rt.up /\ ~rt.blocked /\ rt.owned BY <3>1, <3>3 DEF Note, UpLabels
      <4> QED BY <1>3, <4>1, <4>2
           DEF Note, Upped, Asked, SyncLabels, BlockLabels, UnblockLabels, ClearLabels, UpLabels, SetLabels
    <3>4. CASE l = "close_blocked"
      <4>1. m = "close_pending" BY <3>4
      <4>2. ~rt.recover /\ rt.blocked BY <3>1, <3>4 DEF Note, Upped, AtTop
      <4> QED BY <1>3, <4>1, <4>2
           DEF Note, Upped, Asked, SyncLabels, BlockLabels, UnblockLabels, ClearLabels, UpLabels, SetLabels
    <3> QED BY <3>2, <3>3, <3>4
  <2> QED BY <1>5, <2>1, <2>2 DEF Notes
<1>16. TopFits'
  <2>1. m = "up_retried" => cmds' = <<>>
    <3>1. SUFFICES ASSUME m = "up_retried" PROVE rt.pending = <<>> BY <1>1
    <3>2. l = "up_claimed" BY <3>1
    <3> QED BY <1>2, <3>2 DEF Here, Note, UpLabels
  <2>2. m = "close_pending" => Range(rt.pending) \cap BlockCommands = {} BY <1>2 DEF Here, AtTop
  <2>3. Range(<<>>) = {} BY RangeEmpty
  <2> QED BY <1>1, <1>3, <1>5, <2>1, <2>2, <2>3 DEF TopFits, AtTop, TxLabels, RunLabels
<1> QED BY <1>5, <1>6, <1>10, <1>11, <1>12, <1>13, <1>14, <1>15, <1>16 DEF IInv, Kernel

\* set retries what is owed first.
LEMMA StepSet == ASSUME IInv, Set PROVE IInv'
<1>1. /\ At("set") /\ RetryPending(Then(<<"set_diff">>))
      /\ UNCHANGED <<kern, v6, owner, mg, phase, arg, why, after, faults, crashes>>
  BY DEF Set, kernelVars, callVars
<1> QED BY <1>1, RetryMoves

\* The notes of one label of set are those of another.
LEMMA SetNote == ASSUME NEW l \in SetLabels, Note(l), NEW m \in SetLabels PROVE Note(m)
<1>1. l \in Asked /\ m \in Asked /\ m \notin Upped /\ m \notin ClearLabels /\ m \notin UpLabels
  BY DEF SetLabels, Asked, Upped, BlockLabels, UnblockLabels, ClearLabels, UpLabels
<1>2. /\ arg \in Configs /\ rt.up /\ ~rt.recover
      /\ phase = "running" => (Cfg(rt.config).exit /\ ~arg.exit => mg.verified) BY <1>1 DEF Note
<1> QED BY <1>1, <1>2 DEF Note, SetLabels, UpLabels

\* set goes on to the difference only when nothing is owed any more.
LEMMA StepSetApply == ASSUME IInv, SetApply PROVE IInv'
<1> DEFINE l == "set_diff"
<1>1. /\ At(l) /\ l \in SetLabels /\ "set_done" \in SetLabels /\ l \notin {"claim_write", "sync_applied"} /\ l \notin TxLabels
      /\ UNCHANGED <<kern, v6, owner, rt, mg, phase, arg, why, after, faults, crashes>>
  BY DEF SetApply, kernelVars, callVars, SetLabels, TxLabels
<1>2. Here(l) /\ Types /\ rt \in Routers BY <1>1, HereIs DEF IInv, Types
<1>3. CASE ret = "err"
  <2>1. Finish("err") BY <1>3 DEF SetApply
  <2>2. Types' BY <1>1, <1>2, <2>1 DEF Types, Finish
  <2> QED BY <1>1, <2>1, <2>2, ErrReturns
<1>4. CASE ret # "err"
  <2>1. /\ mode' = "tx" /\ cmds' = Operations(Cfg(rt.config), arg) /\ undo' = <<>> /\ ret' = "ok"
        /\ stack' = Then(<<"set_done">>) BY <1>4 DEF SetApply, Run
  <2>2. Frames' /\ Range(stack') = {"set_done"} \cup Range(Tail(stack)) /\ Top' = "set_done"
    BY <1>1, <2>1, GoIs, Procs
  <2>3. rt.pending = <<>> BY <1>2, <1>4 DEF Here, AtTop, Types
  <2>4. cmds' \in Seq(Commands) /\ Range(cmds') = Steps("set_done")
    <3>1. IsConfig(Cfg(rt.config)) /\ IsConfig(arg) BY <1>2, ConfigIs, CfgIs DEF Types, Routers
    <3> QED BY <2>1, <3>1, OperationsAre DEF Steps
  <2>5. Steps("set_done")' = Steps("set_done") BY <1>1 DEF Steps, Cfg
  <2>6. TopFits' /\ Settled'
    <3>1. "set_done" \in TxLabels BY DEF TxLabels
    <3> QED BY <1>1, <2>1, <2>2, <2>3, <2>4, <2>5, <3>1, TxBegins
  <2>7. Types' BY <1>1, <1>2, <2>1, <2>4 DEF Types
  <2>8. \A m \in Range(stack') : Note(m)
    <3>1. Note("set_done") BY <1>1, <1>2, SetNote DEF Here
    <3> QED BY <1>2, <2>2, <3>1 DEF Here, IInv, Notes
  <2> QED BY <1>1, <2>2, <2>6, <2>7, <2>8, Moves
<1> QED BY <1>3, <1>4

\* What the kernel holds of a configuration, in terms of its parts.
LEMMA ImageParts ==
  ASSUME NEW c, IsConfig(c), NEW i PROVE i \in ImageOf(c) <=> i \in Parts(c) /\ (v6 \/ i[2] # 6)
<1>1. 6 \notin c.addrs /\ 6 \notin c.routes /\ 6 \notin c.throws BY DEF IsConfig
<1>2. CASE i \in {<<"addr", a>> : a \in c.addrs} \cup {<<"route", p>> : p \in c.routes} \cup {<<"throw", p>> : p \in c.throws}
  BY <1>1, <1>2 DEF ImageOf, Parts
<1>3. CASE i \notin {<<"addr", a>> : a \in c.addrs} \cup {<<"route", p>> : p \in c.routes} \cup {<<"throw", p>> : p \in c.throws}
  BY <1>3 DEF ImageOf, Parts, ExitsOf, Exits
<1> QED BY <1>2, <1>3

\* Parts are neither block rules, nor rules, nor the link.
LEMMA PartsKinds == ASSUME NEW c, NEW i \in Parts(c) PROVE i \notin Blocks /\ i \notin Rules /\ i # Link
BY DEF Parts, ExitsOf, Exits, Blocks, Rules, Link

\* The configuration is recorded: what it wants is in the kernel, the inverses are dropped.
LEMMA StepSetDone == ASSUME IInv, SetDone PROVE IInv'
<1> DEFINE l == "set_done"
<1>1. /\ At(l) /\ l \in SetLabels /\ l \notin {"claim_write", "sync_applied"} /\ l \in TxLabels
      /\ UNCHANGED <<kern, v6, owner, mg, phase, arg, why, after, faults, crashes>> /\ Finish(ret)
      /\ rt' = IF ret = "ok" THEN [rt EXCEPT !.config = arg] ELSE rt
  BY DEF SetDone, kernelVars, callVars, SetLabels, TxLabels
<1>2. Here(l) /\ Types /\ rt \in Routers /\ ret \in {"ok", "err"} BY <1>1, HereIs DEF IInv, Types
<1>3. TxTop(l) BY <1>1, <1>2 DEF Here, AtTop
<1>4. CASE ret = "err"
  <2>1. Finish("err") /\ rt' = rt /\ mode # "tx" BY <1>1, <1>3, <1>4 DEF TxTop
  <2>2. Types' BY <1>1, <1>2, <2>1 DEF Types, Finish
  <2> QED BY <1>1, <2>1, <2>2, ErrReturns
<1>5. CASE ret = "ok"
  <2> DEFINE old == Cfg(rt.config)
  <2>1. stack' = Tail(stack) /\ ret' = "ok" /\ UNCHANGED <<mode, cmds, undo>> BY <1>1, <1>5 DEF Finish
  <2>2. mode = "tx" /\ rt.pending = <<>> /\ cmds' = <<>> /\ Range(cmds) = {} BY <1>2, <1>3, <1>5, <2>1 DEF TxTop, Here
  <2>3. Frames' /\ Range(stack') \subseteq Range(stack) \cap Under(l) \cap LabelsOf(phase) /\ Top' \in Awaits(l) \cup {"idle"}
    BY <1>1, <2>1, FinishIs
  <2>4. arg \in Configs /\ rt.up /\ ~rt.recover
    <3>1. Note(l) /\ l \in Asked BY <1>2 DEF Here, Asked
    <3> QED BY <1>1, <3>1 DEF Note
  <2>5. /\ rt' = [rt EXCEPT !.config = arg] /\ rt' \in Routers /\ rt'.config = arg /\ rt'.pending = <<>> /\ rt'.up
        /\ ~rt'.recover /\ rt'.blocked = rt.blocked /\ rt'.owned = rt.owned
    BY <1>1, <1>2, <1>5, <2>2, <2>4 DEF Routers
  <2>6. Types' BY <1>1, <1>2, <2>1, <2>5 DEF Types
  <2>7. Settled' BY <2>2, <2>3, Returned, <1>1, Procs
  <2>8. Owed' = {} /\ OneDel'
    <3>1. Once(rt'.pending) BY <2>5 DEF Once
    <3> QED BY <2>5, <2>7, <3>1, SettledOwes, RangeEmpty
  <2>9. Owed = Range(undo) BY <1>1, <2>2, OwedHere, RangeEmpty
  <2>10. IsConfig(old) /\ IsConfig(arg) /\ Cfg(arg) = arg
    BY <1>2, <2>4, ConfigIs, CfgIs, RouterAssumption DEF Types, Routers, Cfg
  <2> HIDE DEF old
  <2>11. Steps(l) = Adds(Parts(arg) \ Parts(old)) \cup Dels(Parts(old) \ Parts(arg)) BY DEF Steps, old
  <2>12. \A c \in Steps(l) : Did(c) BY <1>3, <2>2 DEF TxTop
  <2>13. \A c \in Range(undo) : Inverse1(c) \in Steps(l) BY <1>3, <2>2 DEF TxTop
  <2>14. Image = ImageOf(old) /\ Image' = ImageOf(arg)
    <3>1. Image = ImageOf(old) BY DEF Image, old
    <3>2. Image' = ImageOf(arg)' BY <1>1, <2>5, <2>10 DEF Image, ImageOf, Cfg
    <3>3. ImageOf(arg)' = ImageOf(arg) BY <1>1 DEF ImageOf
    <3> QED BY <3>1, <3>2, <3>3
  <2>15. ASSUME NEW i \in kern, i \in Parts(arg) PROVE i \in Image'
    <3>1. v6 \/ i[2] # 6 BY DEF IInv, NoV6
    <3> QED BY <2>10, <2>14, <2>15, <3>1, ImageParts
  <2>16. Upper'
    <3>1. SUFFICES ASSUME crashes = 0, NEW i \in kern \ Blocks PROVE i \in Wanted' BY <1>1 DEF Upper
    <3>2. i \in Wanted \/ <<"del", i>> \in Range(undo) BY <2>9, <3>1 DEF IInv, Upper
    <3>3. CASE i \in Base
      <4>1. Base' = Base BY <1>1 DEF Base
      <4> QED BY <2>5, <3>3, <4>1 DEF Wanted
    <3>4. CASE i \in Image
      <4>1. i \in Parts(old) BY <2>10, <2>14, <3>4, ImageParts
      <4>2. CASE i \in Parts(arg) BY <2>15, <4>2 DEF Wanted
      <4>3. CASE i \notin Parts(arg)
        <5>1. <<"del", i>> \in Steps(l) BY <2>11, <4>1, <4>3 DEF Dels
        <5>2. Did(<<"del", i>>) BY <2>12, <5>1
        <5> QED BY <5>2 DEF Did
      <4> QED BY <4>2, <4>3
    <3>5. CASE <<"del", i>> \in Range(undo)
      <4>1. <<"add", i>> \in Steps(l)
        <5>1. Inverse1(<<"del", i>>) \in Steps(l) BY <2>13, <3>5
        <5>2. Inverse1(<<"del", i>>) = <<"add", i>> BY DEF Inverse1
        <5> QED BY <5>1, <5>2
      <4>2. i \in Parts(arg) BY <2>11, <4>1 DEF Adds, Dels
      <4> QED BY <2>15, <4>2 DEF Wanted
    <3> QED BY <2>4, <3>2, <3>3, <3>4, <3>5 DEF Wanted
  <2>17. Lower'
    <3>1. SUFFICES ASSUME phase \in {"starting", "running"}, NEW i \in ImageOf(arg) PROVE i \in kern
      BY <1>1, <2>14 DEF Lower
    <3>2. i \in Parts(arg) /\ (v6 \/ i[2] # 6) BY <2>10, ImageParts
    <3>3. CASE i \in Parts(old)
      <4>1. i \in Image BY <2>10, <2>14, <3>2, <3>3, ImageParts
      <4>2. i \in kern \/ <<"add", i>> \in Range(undo) BY <2>9, <3>1, <4>1 DEF IInv, Lower
      <4>3. <<"add", i>> \notin Range(undo)
        <5>1. SUFFICES ASSUME <<"add", i>> \in Range(undo) PROVE FALSE OBVIOUS
        <5>2. Inverse1(<<"add", i>>) \in Steps(l) BY <2>13, <5>1
        <5>3. Inverse1(<<"add", i>>) = <<"del", i>> BY DEF Inverse1
        <5> QED BY <2>11, <3>2, <5>2, <5>3 DEF Adds, Dels
      <4> QED BY <4>2, <4>3
    <3>4. CASE i \notin Parts(old)
      <4>1. <<"add", i>> \in Steps(l) BY <2>11, <3>2, <3>4 DEF Adds
      <4>2. Did(<<"add", i>>) BY <2>12, <4>1
      <4> QED BY <3>2, <4>2 DEF Did
    <3> QED BY <3>3, <3>4
  <2>18. OwedFits' /\ BlockUpper' /\ DelBlock' /\ NoV6'
    BY <1>1, <2>5, <2>8 DEF OwedFits, BlockUpper, DelBlock, NoV6, IInv
  <2>19. Latch' /\ ExitOwed' /\ Phases' /\ Recovering'
    BY <1>1, <2>5, <2>8 DEF IInv, Latch, Blocked, BlockActive, ExitOwed, Phases, Recovering
  <2>20. Top' \in {"start_applied", "sync_applied"} /\ Top' \in LabelsOf(phase)
    <3>1. l \notin Outermost BY DEF Outermost, EnsureLabels, SyncLabels, StartLabels
    <3>2. Tail(stack) # <<>> /\ Top' = stack[2] /\ stack[2] \in Awaits(l) /\ stack[2] \in LabelsOf(phase)
      BY <1>2, <2>1, <3>1 DEF Here, Top
    <3> QED BY <1>1, <3>2, AwaitsAre
  <2>21. ExitKnown'
    <3>1. phase = "running" => Top' = "sync_applied"
      <4>1. SUFFICES ASSUME phase = "running" PROVE "start_applied" \notin LabelsOf(phase) BY <2>20
      <4> QED BY <4>1, LabelsAre DEF BlockLabels, UnblockLabels, SetLabels, EnsureLabels, ClearLabels, SyncLabels
    <3>2. Cfg(rt.config)' = arg BY <1>1, <2>5, <2>10 DEF Cfg
    <3> QED BY <1>1, <2>1, <2>5, <2>10, <3>1, <3>2 DEF ExitKnown
  <2>22. Ownership' BY <1>1, <1>2, <2>5, <2>20 DEF IInv, Ownership, Here
  <2>23. Notes'
    <3>1. SUFFICES ASSUME NEW m \in {"start_applied", "sync_applied"} PROVE Note(m)'
      BY <1>1, <2>3, UnderAre DEF Notes
    <3> QED BY <1>1, <2>4, <2>5 DEF Note, Upped, BlockLabels, UnblockLabels, ClearLabels, UpLabels, SetLabels
  <2>24. TopFits' BY <1>1, <2>2, <2>5, <2>20 DEF TopFits, AtTop, TxLabels, RunLabels
  <2> QED BY <2>3, <2>6, <2>8, <2>16, <2>17, <2>18, <2>19, <2>21, <2>22, <2>23, <2>24 DEF IInv
<1> QED BY <1>2, <1>4, <1>5

-----------------------------------------------------------------------------
(* up *)

\* Only the record of the owner, and what it stands for, changes.
LEMMA OwnerMoves ==
  ASSUME IInv, NEW l, At(l), NEW o \in BOOLEAN, NEW r \in BOOLEAN,
         rt' = [rt EXCEPT !.owned = o, !.recover = r], r => crashes > 0 /\ ~rt.up /\ rt.pending = <<>> /\ ~rt.blocked,
         UNCHANGED <<kern, v6, mg, phase, arg, crashes>>, phase \in {"starting", "closing"}, Settled',
         ~(mode = "tx" /\ l \in TxLabels), Types', Frames', Notes', TopFits', Ownership'
  PROVE  IInv'
<1>1. rt \in Routers /\ Types BY DEF IInv, Types
<1>2. rt'.pending = rt.pending /\ rt'.config = rt.config /\ rt'.up = rt.up /\ rt'.blocked = rt.blocked /\ rt'.recover = r
  BY <1>1 DEF Routers
<1>3. Once(rt'.pending) /\ Owed = Range(rt.pending) BY <1>2, OwedHere
<1>4. Owed' = Owed /\ OneDel' BY <1>2, <1>3, SettledOwes
<1>5. Kernel' BY <1>1, <1>2, <1>4, KernelKeeps DEF IInv, Kernel
<1>6. Latch' /\ ExitOwed' /\ ExitKnown' /\ Phases' BY DEF Latch, ExitOwed, ExitKnown, Phases
<1>7. Recovering' BY <1>2 DEF Recovering, IInv
<1> QED BY <1>4, <1>5, <1>6, <1>7 DEF IInv, Kernel

\* What up knows at each of its labels.
UpAt(l) ==
  /\ At(l) /\ Here(l) /\ phase = "starting" /\ ~rt.up /\ ~rt.blocked /\ Range(Tail(stack)) \subseteq {"start_up"}
  /\ Note("start_up") /\ arg \in Configs
  /\ l # "up_done" => rt.pending = <<>>
  /\ (l \in {"up", "claim_write"}) = ~rt.owned
\* An action of up has the facts of UpAt.
LEMMA UpIs == ASSUME IInv, NEW l \in UpLabels, At(l) PROVE UpAt(l)
<1>1. Here(l) /\ Note(l) BY HereIs DEF Here
<1>2. phase = "starting"
  <2>1. phase \in PhasesOf("up") BY <1>1, Procs DEF Here
  <2> QED BY <2>1 DEF PhasesOf
<1>3. Range(Tail(stack)) \subseteq {"start_up"} BY <1>1, UnderAre DEF Here
<1>4. /\ ~rt.up /\ ~rt.blocked /\ (l # "up_done" => rt.pending = <<>>)
      /\ (l \in {"up", "claim_write"}) = ~rt.owned
  <2>1. rt.owned \in BOOLEAN BY DEF IInv, Types, Routers
  <2> QED BY <1>1, <2>1 DEF Note
<1>5. arg \in Configs /\ Note("start_up")
  <2>1. l \notin Outermost BY DEF UpLabels, Outermost, EnsureLabels, SyncLabels, StartLabels
  <2>2. stack[2] = "start_up" /\ stack[2] \in Range(stack) BY <1>1, <2>1, AwaitsAre DEF Here
  <2>3. Note("start_up") BY <2>2 DEF IInv, Notes
  <2> QED BY <2>3 DEF Note, Asked
<1> QED BY <1>1, <1>2, <1>3, <1>4, <1>5 DEF UpAt

\* The notes of the caller of up.
LEMMA UpNotes ==
  ASSUME arg' \in Configs, Range(stack') \subseteq {"start_up"} \cup UpLabels,
         \A m \in Range(stack') \cap UpLabels : Note(m)'
  PROVE  Notes'
<1>1. Note("start_up")'
  BY DEF Note, Upped, Asked, SyncLabels, BlockLabels, UnblockLabels, ClearLabels, UpLabels, SetLabels
<1> QED BY <1>1 DEF Notes

\* A note of up.
LEMMA UpNote ==
  ASSUME NEW m \in UpLabels, ~rt'.up, ~rt'.blocked, m # "up_done" => rt'.pending = <<>>,
         (m \in {"up", "claim_write"}) = ~rt'.owned, m = "up_recovered" => rt'.recover,
         m = "claim_write" => owner' = "torn", m = "up_done" => ~rt'.recover
  PROVE  Note(m)'
BY DEF Note, Upped, Asked, SyncLabels, BlockLabels, UnblockLabels, ClearLabels, UpLabels, SetLabels

\* The record is given up: removed, or left as nobody's.
LEMMA GivenUp ==
  ASSUME IInv, GiveUpRecord
  PROVE  /\ rt' = [rt EXCEPT !.owned = FALSE] /\ rt' \in Routers /\ ~rt'.owned
         /\ owner' \in {"none", "torn", "left", "dead"} /\ faults' \in 0..MaxFail
         /\ owner' = "dead" => owner = "dead"
<1>1. Types /\ rt \in Routers /\ Ownership BY DEF IInv, Types
<1>2. rt' = [rt EXCEPT !.owned = FALSE] /\ rt' \in Routers /\ ~rt'.owned BY <1>1 DEF GiveUpRecord, Routers
<1>3. faults' \in 0..MaxFail BY <1>1, FaultsAre DEF GiveUpRecord, RecordFault
<1>4. owner' \in {"none", "torn", "left", "dead"} /\ (owner' = "dead" => owner = "dead")
  BY <1>1 DEF Types, Ownership, GiveUpRecord
<1> QED BY <1>2, <1>3, <1>4

\* up reports an error, and gives up its record when nothing is left.
LEMMA StepUpFails ==
  ASSUME IInv, NEW l \in {"up_retried", "up_cleaned", "up_recovered", "up_done"}, At(l), UpFails, l = "up_done" => mode # "tx",
         UNCHANGED <<kern, v6, mg, phase, arg, why, after, crashes>>
  PROVE  IInv'
<1>1. UpAt(l) /\ Types /\ rt \in Routers /\ l \in UpLabels BY UpIs DEF IInv, Types, UpLabels
<1>2. stack' = Tail(stack) /\ ret' = "err" /\ UNCHANGED <<mode, cmds, undo>> /\ Finish("err") BY DEF UpFails, Finish
<1>3. Frames' /\ Range(stack') = Range(Tail(stack)) /\ Top' \in Awaits(l) \cup {"idle"} BY <1>2, FinishIs
<1>4. cmds' = <<>> BY <1>1, <1>2 DEF UpAt, Here
<1>5. l \in AllLabels /\ ~(mode = "tx" /\ l \in TxLabels) BY <1>1, Procs DEF TxLabels
<1>6. Settled' /\ TopFits' BY <1>2, <1>3, <1>4, <1>5, Returned
<1>7. Notes'
  <2>1. Range(stack') \subseteq {"start_up"} /\ "start_up" \notin UpLabels BY <1>1, <1>3 DEF UpAt, UpLabels
  <2> QED BY <1>1, <2>1, UpNotes DEF UpAt
<1>8. CASE rt.pending = <<>> /\ ~rt.recover
  <2>1. /\ rt' = [rt EXCEPT !.owned = FALSE] /\ rt' \in Routers /\ ~rt'.owned /\ faults' \in 0..MaxFail
        /\ owner' \in {"none", "torn", "left", "dead"} /\ (owner' = "dead" => owner = "dead")
    BY <1>8, GivenUp DEF UpFails
  <2>2. rt' = [rt EXCEPT !.owned = FALSE, !.recover = FALSE] BY <1>1, <1>8, <2>1 DEF Routers
  <2>3. Types' BY <1>1, <1>2, <2>1 DEF Types
  <2>4. Ownership' BY <2>1 DEF Ownership, IInv
  <2>5. FALSE \in BOOLEAN OBVIOUS
  <2> QED BY <1>1, <1>3, <1>5, <1>6, <1>7, <2>2, <2>3, <2>4, <2>5, OwnerMoves DEF UpAt
<1>9. CASE ~(rt.pending = <<>> /\ ~rt.recover)
  <2>1. UNCHANGED <<rt, owner, faults>> BY <1>9 DEF UpFails
  <2>2. Types' BY <1>1, <1>2, <2>1 DEF Types
  <2> QED BY <1>2, <1>5, <2>1, <2>2, ErrReturns
<1> QED BY <1>8, <1>9

\* The claim goes on.
LEMMA ClaimGoes ==
  ASSUME IInv, NEW l \in {"up", "claim_write"}, At(l), NEW m \in {"claim_write", "up_claimed"}, Goto(Then(<<m>>)),
         NEW o \in BOOLEAN, NEW r \in BOOLEAN,
         rt' = [rt EXCEPT !.owned = o, !.recover = r], r => crashes > 0, Ownership', owner' \in {"torn", "live"},
         o = (m = "up_claimed"), m = "claim_write" => owner' = "torn", faults' \in 0..MaxFail,
         UNCHANGED <<kern, v6, mg, phase, arg, why, after, crashes>>
  PROVE  IInv'
<1>1. l \in UpLabels /\ m \in UpLabels /\ l \notin TxLabels BY DEF UpLabels, TxLabels
<1>2. UpAt(l) /\ Types /\ rt \in Routers BY <1>1, UpIs DEF IInv, Types
<1>3. rt.pending = <<>> /\ ~rt.up /\ ~rt.blocked /\ phase = "starting" /\ arg \in Configs BY <1>2 DEF UpAt
<1>4. stack' = Then(<<m>>) /\ ret' = "ok" /\ UNCHANGED <<mode, cmds, undo>> BY DEF Goto
<1>5. Frames' /\ Range(stack') = {m} \cup Range(Tail(stack)) /\ Top' = m BY <1>1, <1>4, GoIs, Procs
<1>6. cmds' = <<>> BY <1>2, <1>4 DEF UpAt, Here
<1>7. Settled' /\ TopFits' BY <1>5, <1>6, Entered DEF TxLabels, RunLabels, AwaitLabels
<1>8. rt' \in Routers /\ ~rt'.up /\ ~rt'.blocked /\ rt'.pending = <<>> /\ rt'.owned = o BY <1>2, <1>3 DEF Routers
<1>9. Types' BY <1>2, <1>4, <1>8 DEF Types
<1>10. Notes'
  <2>1. Note(m)'
    <3>1. CASE m = "claim_write"
      <4>1. ~rt'.owned /\ owner' = "torn" BY <1>8, <3>1
      <4> QED BY <1>1, <1>8, <3>1, <4>1, UpNote
    <3>2. CASE m = "up_claimed"
      <4>1. rt'.owned BY <1>8, <3>2
      <4> QED BY <1>1, <1>8, <3>2, <4>1, UpNote
    <3> QED BY <3>1, <3>2
  <2>2. Range(stack') \subseteq {"start_up"} \cup UpLabels /\ Range(stack') \cap UpLabels \subseteq {m}
    BY <1>1, <1>2, <1>5 DEF UpAt, UpLabels
  <2> QED BY <1>3, <2>1, <2>2, UpNotes
<1> QED BY <1>1, <1>3, <1>5, <1>7, <1>9, <1>10, OwnerMoves

\* The claim succeeds.
LEMMA ClaimOwns ==
  ASSUME IInv, NEW l \in {"up", "claim_write"}, At(l), NEW r \in BOOLEAN, Owned(r), r => crashes > 0,
         UNCHANGED <<kern, v6, mg, phase, arg, why, after, crashes>>
  PROVE  IInv'
<1>1. /\ owner' = "live" /\ rt' = [rt EXCEPT !.owned = TRUE, !.recover = r] /\ Goto(Then(<<"up_claimed">>))
      /\ UNCHANGED faults BY DEF Owned
<1>2. rt \in Routers /\ faults' \in 0..MaxFail BY <1>1 DEF IInv, Types
<1>3. rt'.owned BY <1>1, <1>2 DEF Routers
<1>4. Ownership' BY <1>1, <1>3 DEF Ownership
<1>5. TRUE \in BOOLEAN OBVIOUS
<1> QED BY <1>1, <1>2, <1>4, <1>5, ClaimGoes

\* up claims the record.
LEMMA StepUp == ASSUME IInv, Up PROVE IInv'
<1> DEFINE l == "up"
<1>1. At(l) /\ UNCHANGED <<kern, v6, mg, phase, arg, why, after, crashes>> BY DEF Up, callVars
<1>2. l \in UpLabels /\ l \notin TxLabels BY DEF UpLabels, TxLabels
<1>3. UpAt(l) /\ Types /\ rt \in Routers /\ ~rt.owned BY <1>1, <1>2, UpIs DEF IInv, Types, UpAt
<1>4. CASE owner = "none" /\ owner' = "torn" /\ Goto(Then(<<"claim_write">>)) /\ UNCHANGED <<rt, faults>>
  <2>1. rt' = [rt EXCEPT !.owned = FALSE, !.recover = rt.recover] /\ rt.recover \in BOOLEAN BY <1>3, <1>4 DEF Routers
  <2>2. rt.recover => crashes > 0 BY DEF IInv, Recovering
  <2>3. Ownership' BY <1>3, <1>4 DEF Ownership
  <2> QED BY <1>1, <1>3, <1>4, <2>1, <2>2, <2>3, ClaimGoes DEF Types
<1>5. ASSUME NEW r \in BOOLEAN, Owned(r), r => crashes > 0 PROVE IInv' BY <1>1, <1>5, ClaimOwns
<1>6. CASE owner = "dead" /\ Owned(TRUE)
  <2>1. crashes > 0 BY <1>6 DEF IInv, Ownership
  <2> QED BY <1>5, <1>6, <2>1
<1>7. CASE owner = "left" /\ Owned(FALSE) BY <1>5, <1>7
<1>8. CASE (UNCHANGED faults \/ RecordFault) /\ Finish("err") /\ UNCHANGED <<owner, rt>>
  <2>1. faults' \in 0..MaxFail BY <1>3, <1>8, FaultsAre DEF RecordFault
  <2>2. Types' BY <1>1, <1>3, <1>8, <2>1 DEF Types, Finish
  <2> QED BY <1>1, <1>2, <1>8, <2>2, ErrReturns
<1> QED BY <1>4, <1>6, <1>7, <1>8 DEF Up

\* The new record is written, or the claim fails and the record is nobody's.
LEMMA StepClaimWrite == ASSUME IInv, ClaimWrite PROVE IInv'
<1> DEFINE l == "claim_write"
<1>1. At(l) /\ UNCHANGED <<kern, v6, mg, phase, arg, why, after, crashes>> BY DEF ClaimWrite, callVars
<1>2. CASE Owned(FALSE)
  <2>1. FALSE \in BOOLEAN OBVIOUS
  <2> QED BY <1>1, <1>2, <2>1, ClaimOwns
<1>3. CASE RecordFault /\ owner' \in {"torn", "left"} /\ Finish("err") /\ UNCHANGED rt
  <2>1. l \in UpLabels /\ l \in AllLabels /\ l \notin TxLabels BY Procs DEF UpLabels, TxLabels
  <2>2. UpAt(l) /\ Types /\ rt \in Routers /\ ~rt.owned BY <1>1, <2>1, UpIs DEF IInv, Types, UpAt
  <2>3. stack' = Tail(stack) /\ ret' = "err" /\ UNCHANGED <<mode, cmds, undo>> BY <1>3 DEF Finish
  <2>4. Frames' /\ Range(stack') = Range(Tail(stack)) /\ Top' \in Awaits(l) \cup {"idle"} BY <1>1, <2>3, FinishIs
  <2>5. cmds' = <<>> BY <2>2, <2>3 DEF UpAt, Here
  <2>6. Settled' /\ TopFits' BY <2>1, <2>3, <2>4, <2>5, Returned
  <2>7. faults' \in 0..MaxFail BY <1>3, <2>2, FaultsAre DEF RecordFault
  <2>8. Types' BY <1>1, <1>3, <2>2, <2>3, <2>7 DEF Types
  <2>9. Notes'
    <3>1. Range(stack') \subseteq {"start_up"} /\ "start_up" \notin UpLabels BY <2>2, <2>4 DEF UpAt, UpLabels
    <3> QED BY <1>1, <2>2, <3>1, UpNotes DEF UpAt
  <2>10. Ownership' BY <1>3, <2>2 DEF Ownership
  <2>11. rt' = [rt EXCEPT !.owned = FALSE, !.recover = rt.recover] /\ rt.recover \in BOOLEAN BY <1>3, <2>2 DEF Routers
  <2>12. rt.recover => crashes > 0 /\ ~rt.up /\ rt.pending = <<>> /\ ~rt.blocked BY DEF IInv, Recovering
  <2>13. phase \in {"starting", "closing"} /\ FALSE \in BOOLEAN BY <2>2 DEF UpAt
  <2> HIDE DEF l
  <2> QED BY <1>1, <2>1, <2>4, <2>6, <2>8, <2>9, <2>10, <2>11, <2>12, <2>13, OwnerMoves
<1> QED BY <1>2, <1>3 DEF ClaimWrite

\* up retries what is owed: nothing, in a router that is not up.
LEMMA StepUpClaimed == ASSUME IInv, UpClaimed PROVE IInv'
<1>1. /\ At("up_claimed") /\ RetryPending(Then(<<"up_retried">>))
      /\ UNCHANGED <<kern, v6, owner, mg, phase, arg, why, after, faults, crashes>>
  BY DEF UpClaimed, kernelVars, callVars
<1> QED BY <1>1, RetryMoves

\* up goes on to run commands.
LEMMA UpRuns ==
  ASSUME IInv, NEW l \in {"up_retried", "up_cleaned", "up_recovered"}, At(l), NEW r \in BOOLEAN, r => rt.recover,
         rt' = [rt EXCEPT !.recover = r], NEW md, NEW cs \in Seq(Commands), NEW m, Run(md, cs, Then(<<m>>)),
         UNCHANGED <<kern, v6, owner, mg, phase, arg, why, after, crashes>>, faults' \in 0..MaxFail,
         \/ m = "up_cleaned" /\ md = "all" /\ Range(cs) \subseteq Dels(Rules \cup Exits)
         \/ m = "up_recovered" /\ md = "rtx" /\ r /\ Range(cs) \subseteq Dels(Blocks)
         \/ m = "up_done" /\ md = "tx" /\ ~r /\ Range(cs) = Adds(Rules \cup {Link})
  PROVE  IInv'
<1>1. l \in UpLabels /\ m \in UpLabels /\ l \notin TxLabels BY DEF UpLabels, TxLabels
<1>2. UpAt(l) /\ Types /\ rt \in Routers BY <1>1, UpIs DEF IInv, Types
<1>3. rt.pending = <<>> /\ ~rt.up /\ ~rt.blocked /\ rt.owned /\ phase = "starting" /\ arg \in Configs
  <2>1. rt.owned \in BOOLEAN BY <1>2 DEF Routers
  <2> QED BY <1>2, <2>1 DEF UpAt
<1>4. mode' = md /\ cmds' = cs /\ undo' = <<>> /\ ret' = "ok" /\ stack' = Then(<<m>>) BY DEF Run
<1>5. Frames' /\ Range(stack') = {m} \cup Range(Tail(stack)) /\ Top' = m BY <1>1, <1>4, GoIs, Procs
<1>6. rt' = [rt EXCEPT !.owned = rt.owned, !.recover = r] /\ rt.owned \in BOOLEAN BY <1>2 DEF Routers
<1>7. rt' \in Routers /\ ~rt'.up /\ ~rt'.blocked /\ rt'.pending = <<>> /\ rt'.owned /\ rt'.recover = r
  BY <1>2, <1>3 DEF Routers
<1>8. Types' BY <1>2, <1>4, <1>7 DEF Types
<1>9. Settled' BY <1>4 DEF Settled
<1>10. TopFits'
  <2>1. CASE m = "up_cleaned" /\ md = "all" /\ Range(cs) \subseteq Dels(Rules \cup Exits)
    BY <1>4, <1>5, <2>1 DEF TopFits, AtTop, TxLabels, RunLabels
  <2>2. CASE m = "up_recovered" /\ md = "rtx" /\ r /\ Range(cs) \subseteq Dels(Blocks)
    <3>1. Range(undo') = {} /\ Range(cs) \subseteq BlockCommands BY <1>4, <2>2, RangeEmpty, BlockSplit
    <3> QED BY <1>4, <1>5, <2>2, <3>1 DEF TopFits, AtTop, TxLabels, RunLabels
  <2>3. CASE m = "up_done" /\ md = "tx" /\ ~r /\ Range(cs) = Adds(Rules \cup {Link})
    <3>1. Steps(m)' = Adds(Rules \cup {Link}) /\ m \in TxLabels BY <2>3 DEF Steps, TxLabels
    <3> QED BY <1>4, <1>5, <1>7, <2>3, <3>1, TxBegins
  <2> QED BY <2>1, <2>2, <2>3
<1>11. Notes'
  <2>1. Note(m)' BY <1>1, <1>7, UpNote
  <2>2. Range(stack') \subseteq {"start_up"} \cup UpLabels /\ Range(stack') \cap UpLabels \subseteq {m}
    BY <1>1, <1>2, <1>5 DEF UpAt, UpLabels
  <2> QED BY <1>3, <2>1, <2>2, UpNotes
<1>12. Ownership' BY <1>2, <1>3, <1>7 DEF IInv, Ownership, UpAt, Here
<1>13. r => crashes > 0 /\ ~rt.up /\ rt.pending = <<>> /\ ~rt.blocked BY DEF IInv, Recovering
<1> QED BY <1>1, <1>3, <1>5, <1>6, <1>8, <1>9, <1>10, <1>11, <1>12, <1>13, OwnerMoves

\* The router is as it was.
LEMMA SameRecover == ASSUME rt \in Routers, UNCHANGED rt PROVE rt' = [rt EXCEPT !.recover = rt.recover] /\ rt.recover \in BOOLEAN
BY DEF Routers

\* up removes rules that may be left.
LEMMA StepUpCleans == ASSUME IInv, UpCleans PROVE IInv'
<1>1. At("up_retried") /\ UNCHANGED <<kern, v6, mg, phase, arg, why, after, crashes>> BY DEF UpCleans, callVars
<1>2. Types /\ rt \in Routers /\ faults \in 0..MaxFail BY DEF IInv, Types
<1>3. CASE UpFails BY <1>1, <1>3, StepUpFails
<1>4. CASE Run("all", UpCleanup, Then(<<"up_cleaned">>)) /\ UNCHANGED <<rt, owner, faults>>
  <2>1. rt' = [rt EXCEPT !.recover = rt.recover] /\ rt.recover \in BOOLEAN BY <1>2, <1>4, SameRecover
  <2> QED BY <1>1, <1>2, <1>4, <2>1, UpCleanupIs, UpRuns
<1> QED BY <1>3, <1>4 DEF UpCleans

\* up reports an error and keeps its record.
LEMMA UpErrs ==
  ASSUME IInv, NEW l \in {"up_cleaned", "up_recovered"}, At(l), Finish("err"), faults' \in 0..MaxFail,
         UNCHANGED <<kern, v6, owner, rt, mg, phase, arg, why, after, crashes>>
  PROVE  IInv'
<1>1. l \in UpLabels /\ l \notin TxLabels BY DEF UpLabels, TxLabels
<1>2. Types' BY DEF IInv, Types, Finish
<1> QED BY <1>1, <1>2, ErrReturns

\* up recovers what a dead owner left, or goes on to its transaction.
LEMMA StepUpRecovers == ASSUME IInv, UpRecovers PROVE IInv'
<1>1. At("up_cleaned") /\ UNCHANGED <<kern, v6, mg, phase, arg, why, after, crashes>> BY DEF UpRecovers, callVars
<1>2. Types /\ rt \in Routers BY DEF IInv, Types
<1>3. CASE ShowFails /\ Finish("err") /\ UNCHANGED <<rt, owner>>
  <2>1. faults' \in 0..MaxFail BY <1>2, <1>3, FaultsAre DEF ShowFails
  <2> QED BY <1>1, <1>3, <2>1, UpErrs
<1>4. CASE UpFails BY <1>1, <1>4, StepUpFails
<1>5. CASE rt.recover /\ RunRecovery(Then(<<"up_recovered">>)) /\ UNCHANGED <<rt, owner>>
  <2>1. rt' = [rt EXCEPT !.recover = rt.recover] /\ rt.recover \in BOOLEAN BY <1>2, <1>5, SameRecover
  <2>2. Run("rtx", StaleBlock, Then(<<"up_recovered">>)) /\ faults' \in 0..MaxFail BY <1>2, <1>5 DEF RunRecovery, Types
  <2> QED BY <1>1, <1>5, <2>1, <2>2, StaleBlockIs, UpRuns
<1>6. CASE ~rt.recover /\ Run("tx", UpTransaction, Then(<<"up_done">>)) /\ UNCHANGED <<rt, owner, faults>>
  <2>1. rt' = [rt EXCEPT !.recover = rt.recover] /\ rt.recover \in BOOLEAN BY <1>2, <1>6, SameRecover
  <2>2. faults' \in 0..MaxFail BY <1>2, <1>6 DEF Types
  <2> QED BY <1>1, <1>6, <2>1, <2>2, FixedAre, UpRuns
<1> QED BY <1>3, <1>4, <1>5, <1>6 DEF UpRecovers

\* up goes on when the second look finds no block rule.
LEMMA StepUpRecovered == ASSUME IInv, UpRecovered PROVE IInv'
<1>1. At("up_recovered") /\ UNCHANGED <<kern, v6, mg, phase, arg, why, after, crashes>> BY DEF UpRecovered, callVars
<1>2. faults' \in 0..MaxFail BY FaultsAre DEF UpRecovered, ShowFails, IInv
<1>3. CASE Finish("err") /\ UNCHANGED <<rt, owner>> BY <1>1, <1>2, <1>3, UpErrs
<1>4. CASE rt' = [rt EXCEPT !.recover = FALSE] /\ Run("tx", UpTransaction, Then(<<"up_done">>)) /\ UNCHANGED <<owner, faults>>
  <2>1. FALSE \in BOOLEAN OBVIOUS
  <2> QED BY <1>1, <1>2, <1>4, <2>1, FixedAre, UpRuns
<1> QED BY <1>3, <1>4 DEF UpRecovered

\* up is through: rules and link are in the kernel.
LEMMA StepUpDone == ASSUME IInv, UpDone PROVE IInv'
<1> DEFINE l == "up_done"
<1>1. At(l) /\ UNCHANGED <<kern, v6, mg, phase, arg, why, after, crashes>> BY DEF UpDone, callVars
<1>2. l \in UpLabels /\ l \in TxLabels BY DEF UpLabels, TxLabels
<1>3. UpAt(l) /\ Types /\ rt \in Routers /\ TxTop(l) BY <1>1, <1>2, UpIs DEF IInv, Types, UpAt, Here, AtTop
<1>4. CASE ret = "err" /\ UpFails
  <2>1. mode # "tx" BY <1>3, <1>4 DEF TxTop
  <2> QED BY <1>1, <1>4, <2>1, StepUpFails
<1>5. CASE ret = "ok" /\ rt' = [rt EXCEPT !.up = TRUE] /\ Finish("ok") /\ UNCHANGED <<owner, faults>>
  <2>1. stack' = Tail(stack) /\ ret' = "ok" /\ UNCHANGED <<mode, cmds, undo>> BY <1>5 DEF Finish
  <2>2. mode = "tx" /\ rt.pending = <<>> /\ cmds' = <<>> BY <1>3, <1>5, <2>1 DEF TxTop, UpAt, Here
  <2>3. Frames' /\ Range(stack') = Range(Tail(stack)) /\ Top' \in Awaits(l) \cup {"idle"} BY <1>1, <2>1, FinishIs
  <2>4. ~rt.recover /\ ~rt.blocked /\ ~rt.up /\ arg \in Configs /\ phase = "starting" /\ rt.config = None
    <3>1. ~rt.recover BY <1>3 DEF UpAt, Here, Note, Upped
    <3> QED BY <1>3, <3>1 DEF UpAt, IInv, Recovering
  <2>5. /\ rt' \in Routers /\ rt'.config = rt.config /\ rt'.pending = <<>> /\ rt'.up
        /\ ~rt'.recover /\ rt'.blocked = rt.blocked /\ rt'.owned = rt.owned
    BY <1>3, <1>5, <2>2, <2>4 DEF Routers
  <2>6. Types' BY <1>1, <1>3, <1>5, <2>1, <2>5 DEF Types
  <2>7. Settled' BY <2>2, <2>3, Returned, <1>2, Procs
  <2>8. Owed' = {} /\ OneDel'
    <3>1. Once(rt'.pending) BY <2>5 DEF Once
    <3> QED BY <2>5, <2>7, <3>1, SettledOwes, RangeEmpty
  <2>9. Owed = Range(undo) BY <1>1, <1>2, <2>2, OwedHere, RangeEmpty
  <2>10. Steps(l) = Adds(Rules \cup {Link}) BY DEF Steps
  <2>11. \A c \in Range(undo) : Inverse1(c) \in Steps(l) BY <1>3, <2>2 DEF TxTop
  <2>12. Image' = {} /\ Image = {}
    <3>1. Image = {} BY <2>4 DEF Image, ImageOf, Cfg, EmptyConfig
    <3>2. Image' = {} BY <2>4, <2>5 DEF Image, ImageOf, Cfg, EmptyConfig
    <3> QED BY <3>1, <3>2
  <2>13. Upper'
    <3>1. SUFFICES ASSUME crashes = 0, NEW i \in kern \ Blocks PROVE i \in Wanted' BY <1>1 DEF Upper
    <3>2. Wanted = {} BY <2>4, <2>12 DEF Wanted
    <3>3. <<"del", i>> \in Range(undo) BY <2>9, <3>1, <3>2 DEF IInv, Upper
    <3>4. <<"add", i>> \in Steps(l)
      <4>1. Inverse1(<<"del", i>>) \in Steps(l) BY <2>11, <3>3
      <4>2. Inverse1(<<"del", i>>) = <<"add", i>> BY DEF Inverse1
      <4> QED BY <4>1, <4>2
    <3>5. i \in Rules \cup {Link} BY <2>10, <3>4 DEF Adds
    <3>6. v6 \/ i[2] # 6 BY DEF IInv, NoV6
    <3>7. i \in Base' BY <1>1, <3>5, <3>6 DEF Base, Rules
    <3> QED BY <2>5, <3>7 DEF Wanted
  <2>14. Lower' BY <2>12 DEF Lower
  <2>15. OwedFits' /\ BlockUpper' /\ DelBlock' /\ NoV6'
    BY <1>1, <2>5, <2>8 DEF OwedFits, BlockUpper, DelBlock, NoV6, IInv
  <2>16. Latch' /\ ExitOwed' /\ ExitKnown' /\ Phases' /\ Recovering'
    BY <1>1, <2>4, <2>5 DEF Latch, ExitOwed, ExitKnown, Phases, Recovering
  <2>17. Ownership' BY <1>1, <1>3, <1>5, <2>5 DEF IInv, Ownership, UpAt, Here
  <2>18. Notes'
    <3>1. Range(stack') \subseteq {"start_up"} /\ "start_up" \notin UpLabels BY <1>3, <2>3 DEF UpAt, UpLabels
    <3> QED BY <1>1, <2>4, <3>1, UpNotes
  <2>19. TopFits'
    <3>1. Top' \in {"start_up", "idle"} BY <1>2, <2>3, AwaitsAre
    <3> QED BY <2>2, <2>5, <3>1 DEF TopFits, AtTop, TxLabels, RunLabels
  <2> QED BY <2>3, <2>6, <2>8, <2>13, <2>14, <2>15, <2>16, <2>17, <2>18, <2>19 DEF IInv
<1> QED BY <1>4, <1>5 DEF UpDone

-----------------------------------------------------------------------------
(* close *)

\* What close knows at each of its labels.
CloseAt(l) ==
  /\ At(l) /\ Here(l) /\ phase = "closing" /\ Range(Tail(stack)) \subseteq {"closed"} /\ Note("closed")
  /\ l \notin {"claim_write", "sync_applied"} /\ l \notin TxLabels /\ l \in AllLabels
\* An action of close has the facts of CloseAt.
LEMMA CloseIs == ASSUME IInv, NEW l \in CloseLabels, At(l) PROVE CloseAt(l)
<1>1. Here(l) BY HereIs
<1>2. phase = "closing"
  <2>1. phase \in PhasesOf("close") BY <1>1, Procs DEF Here
  <2> QED BY <2>1 DEF PhasesOf
<1>3. Range(Tail(stack)) \subseteq {"closed"} BY <1>1, UnderAre DEF Here
<1>4. Note("closed")
  BY DEF Note, Upped, Asked, SyncLabels, BlockLabels, UnblockLabels, ClearLabels, UpLabels, SetLabels
<1>5. l \notin {"claim_write", "sync_applied"} /\ l \notin TxLabels /\ l \in AllLabels BY <1>1 DEF Here, CloseLabels, TxLabels
<1> QED BY <1>1, <1>2, <1>3, <1>4, <1>5 DEF CloseAt

\* The notes of a label of close that is not past the teardown.
LEMMA CloseNote ==
  ASSUME NEW m \in CloseLabels \ {"close_unblocked"}, m \in {"close_cleaned", "close_recovered"} => rt.recover,
         m \in {"close_body", "close_blocked", "close_pending", "close_down"} => ~rt.recover,
         m \in {"close_pending", "close_down"} => rt.blocked
  PROVE  Note(m)
BY DEF Note, Upped, Asked, SyncLabels, BlockLabels, UnblockLabels, ClearLabels, UpLabels, SetLabels, CloseLabels

\* close goes on, with commands to run or none.
LEMMA CloseGoes ==
  ASSUME IInv, NEW l \in CloseLabels, At(l), NEW m \in CloseLabels, stack' = Then(<<m>>), undo' = <<>> \/ UNCHANGED undo,
         mode' \in {"all", "rtx"} \/ (UNCHANGED mode /\ cmds' = <<>>), cmds' \in Seq(Commands), ret' \in {"ok", "err"},
         UNCHANGED <<kern, v6, owner, rt, mg, phase, arg, why, after, crashes>>, faults' \in 0..MaxFail,
         Note(m), AtTop(m)'
  PROVE  IInv'
<1>1. CloseAt(l) /\ Types BY CloseIs DEF IInv
<1>2. Frames' /\ Range(stack') = {m} \cup Range(Tail(stack)) /\ Top' = m BY GoIs, Procs
<1>3. TopFits' BY <1>2 DEF TopFits
<1>4. m \notin TxLabels BY DEF CloseLabels, TxLabels
<1>5. Settled' BY <1>2, <1>4 DEF Settled
<1>6. Types'
  <2>1. <<>> \in Seq(Commands) OBVIOUS
  <2>2. undo' \in Seq(Commands) BY <1>1, <2>1 DEF Types
  <2>3. mode' \in {"tx", "undo", "pending", "all", "rtx", "rundo"} BY <1>1 DEF Types
  <2> QED BY <1>1, <2>2, <2>3 DEF Types
<1>7. \A k \in Range(stack') : Note(k) BY <1>1, <1>2 DEF CloseAt
<1> QED BY <1>1, <1>2, <1>3, <1>5, <1>6, <1>7, Moves DEF CloseAt

\* close fails.
LEMMA CloseFails ==
  ASSUME IInv, NEW l \in CloseLabels, At(l), Finish("err"),
         UNCHANGED <<kern, v6, owner, rt, mg, phase, arg, why, after, crashes>>, faults' \in 0..MaxFail
  PROVE  IInv'
<1>1. CloseAt(l) BY CloseIs
<1>2. Types' BY DEF Finish, IInv, Types
<1> QED BY <1>1, <1>2, ErrReturns DEF CloseAt

\* close recovers first what a dead owner left.
LEMMA StepClose == ASSUME IInv, Close PROVE IInv'
<1> DEFINE l == "close"
<1>1. At(l) /\ UNCHANGED <<kern, v6, owner, rt, mg, phase, arg, why, after, faults, crashes>>
  BY DEF Close, kernelVars, callVars
<1>2. l \in CloseLabels /\ "close_cleaned" \in CloseLabels /\ "close_body" \in CloseLabels BY DEF CloseLabels
<1>3. faults' \in 0..MaxFail /\ cmds = <<>> BY <1>1 DEF IInv, Types, At
<1>4. CASE rt.recover
  <2>1. mode' = "all" /\ cmds' = UpCleanup /\ undo' = <<>> /\ ret' = "ok" /\ stack' = Then(<<"close_cleaned">>)
    BY <1>4 DEF Close, Run
  <2>2. Note("close_cleaned") BY <1>2, <1>4, CloseNote
  <2>3. AtTop("close_cleaned")' BY <2>1, UpCleanupIs DEF AtTop, TxLabels, RunLabels
  <2>4. cmds' \in Seq(Commands) BY <2>1, UpCleanupIs
  <2> QED BY <1>1, <1>2, <1>3, <2>1, <2>2, <2>3, <2>4, CloseGoes
<1>5. CASE ~rt.recover
  <2>1. ret' = "ok" /\ stack' = Then(<<"close_body">>) /\ UNCHANGED <<mode, cmds, undo>> BY <1>5 DEF Close, Goto
  <2>2. Note("close_body") BY <1>2, <1>5, CloseNote
  <2>3. AtTop("close_body")' BY <1>3, <2>1 DEF AtTop, TxLabels, RunLabels
  <2>4. cmds' = <<>> /\ cmds' \in Seq(Commands) BY <1>3, <2>1
  <2> QED BY <1>1, <1>2, <1>3, <2>1, <2>2, <2>3, <2>4, CloseGoes
<1> QED BY <1>4, <1>5

\* close looks for stale block rules.
LEMMA StepCloseRecovers == ASSUME IInv, CloseRecovers PROVE IInv'
<1> DEFINE l == "close_cleaned"
<1>1. At(l) /\ UNCHANGED <<kern, v6, owner, rt, mg, phase, arg, why, after, crashes>>
  BY DEF CloseRecovers, kernelVars, callVars
<1>2. l \in CloseLabels /\ "close_recovered" \in CloseLabels BY DEF CloseLabels
<1>3. faults' \in 0..MaxFail BY FaultsAre DEF IInv, CloseRecovers, ShowFails, RunRecovery
<1>4. CASE Finish("err") BY <1>1, <1>2, <1>3, <1>4, CloseFails
<1>5. CASE RunRecovery(Then(<<"close_recovered">>))
  <2>1. mode' = "rtx" /\ cmds' = StaleBlock /\ undo' = <<>> /\ ret' = "ok" /\ stack' = Then(<<"close_recovered">>)
    BY <1>5 DEF RunRecovery, Run
  <2>2. rt.recover
    <3>1. Note(l) BY <1>1, HereIs DEF Here
    <3> QED BY <3>1 DEF Note
  <2>3. Note("close_recovered") BY <1>2, <2>2, CloseNote
  <2>4. Range(undo') = {} /\ Range(cmds') \subseteq BlockCommands BY <2>1, RangeEmpty, StaleBlockIs, BlockSplit
  <2>5. AtTop("close_recovered")' BY <2>1, <2>4 DEF AtTop, TxLabels, RunLabels
  <2>6. cmds' \in Seq(Commands) BY <2>1, StaleBlockIs
  <2> QED BY <1>1, <1>2, <1>3, <2>1, <2>3, <2>5, <2>6, CloseGoes
<1> QED BY <1>4, <1>5 DEF CloseRecovers

\* close goes on when the second look finds none.
LEMMA StepCloseRecovered == ASSUME IInv, CloseRecovered PROVE IInv'
<1> DEFINE l == "close_recovered"
           m == "close_body"
<1>1. At(l) /\ UNCHANGED <<kern, v6, owner, mg, phase, arg, why, after, crashes>>
  BY DEF CloseRecovered, kernelVars, callVars
<1>2. l \in CloseLabels /\ m \in CloseLabels BY DEF CloseLabels
<1>3. faults' \in 0..MaxFail BY FaultsAre DEF IInv, CloseRecovered, ShowFails
<1>4. CASE Finish("err") /\ UNCHANGED rt BY <1>1, <1>2, <1>3, <1>4, CloseFails
<1>5. CASE rt' = [rt EXCEPT !.recover = FALSE] /\ Goto(Then(<<m>>)) /\ UNCHANGED faults
  <2>1. CloseAt(l) /\ Types /\ rt \in Routers BY <1>1, <1>2, CloseIs DEF IInv, Types
  <2>2. ret' = "ok" /\ stack' = Then(<<m>>) /\ UNCHANGED <<mode, cmds, undo>> BY <1>5 DEF Goto
  <2>3. Frames' /\ Range(stack') = {m} \cup Range(Tail(stack)) /\ Top' = m BY <1>1, <1>2, <2>2, GoIs, Procs
  <2>4. cmds' = <<>> BY <2>1, <2>2 DEF CloseAt, Here
  <2>5. TopFits' /\ Settled' BY <2>3, <2>4, Entered DEF TxLabels, RunLabels, AwaitLabels
  <2>6. /\ rt' = [rt EXCEPT !.owned = rt.owned, !.recover = FALSE] /\ rt.owned \in BOOLEAN /\ rt' \in Routers
        /\ rt'.owned = rt.owned /\ ~rt'.recover BY <1>5, <2>1 DEF Routers
  <2>7. Types' BY <1>1, <1>3, <2>1, <2>2, <2>6 DEF Types
  <2>8. Notes'
    <3>1. Note("closed")' /\ Note(m)'
      BY <2>6 DEF Note, Upped, Asked, SyncLabels, BlockLabels, UnblockLabels, ClearLabels, UpLabels, SetLabels
    <3> QED BY <2>1, <2>3, <3>1 DEF Notes, CloseAt
  <2>9. Ownership' BY <1>1, <2>1, <2>6 DEF IInv, Ownership, CloseAt, Here
  <2>10. FALSE \in BOOLEAN OBVIOUS
  <2> HIDE DEF l, m
  <2> QED BY <1>1, <2>1, <2>3, <2>5, <2>6, <2>7, <2>8, <2>9, <2>10, OwnerMoves DEF CloseAt
<1> QED BY <1>4, <1>5 DEF CloseRecovered

\* The record is given up, and with it nothing is left.
LEMMA CloseReleases ==
  ASSUME IInv, NEW l \in CloseLabels, At(l), GiveUpRecord, Finish("ok"), ~rt.recover,
         crashes = 0 => kern = {}, UNCHANGED <<kern, v6, mg, phase, arg, why, after, crashes>>
  PROVE  IInv'
<1>1. CloseAt(l) /\ Types /\ rt \in Routers BY CloseIs DEF IInv, Types
<1>2. stack' = Tail(stack) /\ ret' = "ok" /\ UNCHANGED <<mode, cmds, undo>> BY DEF Finish
<1>3. Frames' /\ Range(stack') = Range(Tail(stack)) /\ Top' \in Awaits(l) \cup {"idle"} BY <1>2, FinishIs
<1>4. cmds' = <<>> BY <1>1, <1>2 DEF CloseAt, Here
<1>5. Settled' BY <1>1, <1>3, <1>4, Returned DEF CloseAt
<1>6. /\ rt' = [rt EXCEPT !.owned = FALSE, !.recover = FALSE] /\ rt' \in Routers /\ ~rt'.owned /\ faults' \in 0..MaxFail
      /\ owner' \in {"none", "torn", "left", "dead"} /\ (owner' = "dead" => owner = "dead")
  <2>1. rt' = [rt EXCEPT !.owned = FALSE] BY GivenUp
  <2>2. rt' = [rt EXCEPT !.owned = FALSE, !.recover = FALSE] BY <1>1, <2>1 DEF Routers
  <2> QED BY <2>2, GivenUp
<1>7. Types' BY <1>1, <1>2, <1>6 DEF Types
<1>8. TopFits'
  <2>1. Top' \in {"closed", "idle"} BY <1>3, AwaitsAre
  <2> QED BY <1>4, <1>6, <2>1 DEF TopFits, AtTop, TxLabels, RunLabels
<1>9. Notes'
  <2>1. Note("closed")'
    BY DEF Note, Upped, Asked, SyncLabels, BlockLabels, UnblockLabels, ClearLabels, UpLabels, SetLabels
  <2> QED BY <1>1, <1>3, <2>1 DEF Notes, CloseAt
<1>10. Ownership' BY <1>6 DEF IInv, Ownership
<1>11. FALSE \in BOOLEAN OBVIOUS
<1> QED BY <1>1, <1>3, <1>5, <1>6, <1>7, <1>8, <1>9, <1>10, <1>11, OwnerMoves DEF CloseAt

\* close blocks before it tears down, or finds nothing to close and gives up the record.
LEMMA StepCloseBody == ASSUME IInv, CloseBody PROVE IInv'
<1> DEFINE l == "close_body"
<1>1. At(l) /\ UNCHANGED <<kern, v6, mg, phase, arg, why, after, crashes>> BY DEF CloseBody, callVars
<1>2. l \in CloseLabels /\ "close_blocked" \in CloseLabels /\ "block" \in BlockLabels BY DEF CloseLabels, BlockLabels
<1>3. CloseAt(l) /\ Types /\ ~rt.recover
  <2>1. Note(l) BY <1>1, HereIs DEF Here
  <2> QED BY <1>1, <1>2, <2>1, CloseIs DEF IInv, Note, Upped
<1>4. CASE NothingToClose
  <2>1. crashes = 0 => kern = {}
    <3>1. SUFFICES ASSUME crashes = 0, NEW i \in kern PROVE FALSE OBVIOUS
    <3>2. Owed = {} BY <1>1, <1>3, <1>4, OwedHere, RangeEmpty DEF CloseAt, NothingToClose
    <3>3. Wanted = {} BY <1>4 DEF Wanted, Image, ImageOf, Cfg, EmptyConfig, NothingToClose
    <3>4. i \in Blocks BY <3>1, <3>2, <3>3 DEF IInv, Upper
    <3> QED BY <1>4, <3>1, <3>2, <3>4 DEF IInv, BlockUpper, NothingToClose
  <2>2. GiveUpRecord /\ Finish("ok") BY <1>4 DEF CloseBody
  <2> QED BY <1>1, <1>2, <1>3, <2>1, <2>2, CloseReleases
<1>5. CASE ~NothingToClose
  <2>1. stack' = Then(<<"block", "close_blocked">>) /\ ret' = "ok" /\ UNCHANGED <<mode, cmds, undo, rt, owner, faults>>
    BY <1>5 DEF CloseBody, Goto
  <2>2. phase \in PhasesOf(Proc("block"))
    <3>1. Proc("block") = "block" BY <1>2, Procs
    <3> QED BY <1>3, <3>1 DEF PhasesOf, CloseAt
  <2>3. "close_blocked" \in Awaits("block") BY <1>2, AwaitsAre
  <2>4. Frames' /\ Range(stack') = {"block", "close_blocked"} \cup Range(Tail(stack)) /\ Top' = "block"
    BY <1>1, <1>2, <2>1, <2>2, <2>3, CallIs, Procs
  <2>5. cmds' = <<>> BY <1>3, <2>1 DEF CloseAt, Here
  <2>6. TopFits' /\ Settled' BY <2>4, <2>5, Entered DEF TxLabels, RunLabels, AwaitLabels
  <2>7. Types' BY <1>1, <1>3, <2>1 DEF Types
  <2>8. \A m \in Range(stack') : Note(m)
    <3>1. Note("block") BY <1>2, <1>3, BlockNote
    <3>2. Note("close_blocked") BY <1>2, <1>3, CloseNote
    <3> QED BY <1>3, <2>4, <3>1, <3>2 DEF CloseAt
  <2> QED BY <1>1, <1>3, <2>1, <2>4, <2>6, <2>7, <2>8, Moves DEF CloseAt
<1> QED BY <1>4, <1>5

\* close retries what is owed behind the block.
LEMMA StepCloseBlocked == ASSUME IInv, CloseBlocked PROVE IInv'
<1>1. At("close_blocked") /\ UNCHANGED <<kern, v6, owner, mg, phase, arg, why, after, faults, crashes>>
  BY DEF CloseBlocked, kernelVars, callVars
<1>2. CASE Finish("err") /\ UNCHANGED rt
  <2>1. faults' \in 0..MaxFail /\ "close_blocked" \in CloseLabels BY <1>1 DEF IInv, Types, CloseLabels
  <2> QED BY <1>1, <1>2, <2>1, CloseFails
<1>3. CASE ret = "ok" /\ RetryPending(Then(<<"close_pending">>)) BY <1>1, <1>3, RetryMoves
<1> QED BY <1>2, <1>3 DEF CloseBlocked

\* close tears down the recorded configuration.
LEMMA StepCloseTeardown == ASSUME IInv, CloseTeardown PROVE IInv'
<1> DEFINE l == "close_pending"
           m == "close_down"
<1>1. /\ At(l) /\ UNCHANGED <<kern, v6, owner, rt, mg, phase, arg, why, after, faults, crashes, ret>>
      /\ mode' = "all" /\ cmds' = Teardown(Cfg(rt.config)) /\ undo' = <<>> /\ stack' = Then(<<m>>)
  BY DEF CloseTeardown, kernelVars, callVars
<1>2. l \in CloseLabels /\ m \in CloseLabels BY DEF CloseLabels
<1>3. CloseAt(l) /\ Types /\ rt \in Routers BY <1>1, <1>2, CloseIs DEF IInv, Types
<1>4. ~rt.recover /\ rt.blocked BY <1>3 DEF CloseAt, Here, Note, Upped
<1>5. Note(m) BY <1>2, <1>4, CloseNote
<1>6. cmds' \in Seq(Commands) /\ Range(cmds') = TeardownSteps
  <2>1. IsConfig(Cfg(rt.config)) BY <1>3, ConfigIs, CfgIs DEF Routers
  <2> QED BY <1>1, <2>1, TeardownIs DEF TeardownSteps
<1>7. TeardownSteps' = TeardownSteps BY <1>1 DEF TeardownSteps, Cfg
<1>8. AtTop(m)'
  <2>1. (ret = "ok" => rt.pending = <<>>) /\ Range(rt.pending) \cap BlockCommands = {} BY <1>3 DEF CloseAt, Here, AtTop
  <2> QED BY <1>1, <1>6, <1>7, <2>1 DEF AtTop, TxLabels, RunLabels
<1>9. faults' \in 0..MaxFail /\ ret' \in {"ok", "err"} BY <1>1, <1>3 DEF Types
<1> QED BY <1>1, <1>2, <1>5, <1>6, <1>8, <1>9, CloseGoes

\* The teardown is through: only block rules are left.
LEMMA StepCloseDown == ASSUME IInv, CloseDown PROVE IInv'
<1> DEFINE l == "close_down"
           m == "close_unblocked"
           k == "unblock"
<1>1. At(l) /\ UNCHANGED <<kern, v6, owner, mg, phase, arg, why, after, faults, crashes>>
  BY DEF CloseDown, kernelVars, callVars
<1>2. l \in CloseLabels /\ m \in CloseLabels /\ k \in UnblockLabels BY DEF CloseLabels, UnblockLabels
<1>3. CloseAt(l) /\ Types /\ rt \in Routers /\ faults' \in 0..MaxFail BY <1>1, <1>2, CloseIs DEF IInv, Types
<1>4. CASE Finish("err") /\ UNCHANGED rt BY <1>1, <1>2, <1>3, <1>4, CloseFails
<1>5. CASE ret = "ok" /\ rt' = [rt EXCEPT !.config = None, !.up = FALSE] /\ Goto(Then(<<k, m>>))
  <2>1. stack' = Then(<<k, m>>) /\ ret' = "ok" /\ UNCHANGED <<mode, cmds, undo>> BY <1>5 DEF Goto
  <2>2. phase \in PhasesOf(Proc(k))
    <3>1. Proc(k) = "unblock" BY <1>2, Procs
    <3> QED BY <1>3, <3>1 DEF PhasesOf, CloseAt
  <2>3. m \in Awaits(k) BY <1>2, AwaitsAre
  <2>4. Frames' /\ Range(stack') = {k, m} \cup Range(Tail(stack)) /\ Top' = k /\ stack'[2] = m
    BY <1>1, <1>2, <2>1, <2>2, <2>3, CallIs, Procs
  <2>5. cmds = <<>> /\ cmds' = <<>> /\ Range(cmds) = {} BY <1>3, <2>1 DEF CloseAt, Here
  <2>6. AtTop(l) /\ Note(l) BY <1>3 DEF CloseAt, Here
  <2>7. rt.pending = <<>> /\ ~rt.recover /\ rt.blocked /\ \A c \in TeardownSteps : c[2] \notin kern
    BY <1>5, <2>5, <2>6 DEF AtTop, Note, Upped
  <2>8. /\ rt' \in Routers /\ rt'.config = None /\ ~rt'.up /\ rt'.pending = <<>> /\ rt'.blocked /\ ~rt'.recover
        /\ rt'.owned = rt.owned BY <1>3, <1>5, <2>7 DEF Routers
  <2>9. Types' BY <1>1, <1>3, <2>1, <2>8 DEF Types
  <2>10. Settled' BY <2>4, <2>5 DEF Settled, TxLabels
  <2>11. Owed' = {} /\ OneDel'
    <3>1. Once(rt'.pending) BY <2>8 DEF Once
    <3> QED BY <2>8, <2>10, <3>1, SettledOwes, RangeEmpty
  <2>12. Owed = {} BY <1>1, <1>3, <2>7, OwedHere, RangeEmpty DEF CloseAt
  <2>13. crashes = 0 => kern \subseteq Blocks
    <3>1. SUFFICES ASSUME crashes = 0, NEW i \in kern \ Blocks PROVE FALSE OBVIOUS
    <3>2. i \in Wanted BY <2>12, <3>1 DEF IInv, Upper
    <3>3. i \in Parts(Cfg(rt.config)) \cup Rules \cup {Link}
      <4>1. IsConfig(Cfg(rt.config)) BY <1>3, ConfigIs, CfgIs DEF Routers
      <4>2. i \in Image => i \in Parts(Cfg(rt.config)) BY <4>1, ImageParts DEF Image
      <4> QED BY <3>2, <4>2 DEF Wanted, Base, Rules
    <3>4. <<"del", i>> \in TeardownSteps BY <3>3 DEF TeardownSteps, Dels
    <3>5. <<"del", i>>[2] \notin kern BY <2>7, <3>4
    <3> QED BY <3>5
  <2>14. OwedFits' /\ Upper' /\ BlockUpper' /\ DelBlock' /\ NoV6'
    BY <1>1, <2>8, <2>11, <2>13 DEF OwedFits, Upper, BlockUpper, DelBlock, NoV6, IInv
  <2>15. Lower' /\ Latch' /\ ExitOwed' /\ ExitKnown' /\ Phases' /\ Recovering'
    BY <1>1, <1>3, <2>8 DEF Lower, Latch, ExitOwed, ExitKnown, Phases, Recovering, CloseAt
  <2>16. Ownership' BY <1>1, <1>3, <2>8 DEF IInv, Ownership, CloseAt, Here
  <2>17. Notes'
    <3>1. Pure' /\ (crashes' = 0 => kern' \subseteq Blocks) BY <1>1, <2>8, <2>13, RangeEmpty DEF Pure
    <3>2. Note("closed")' /\ Note(m)' /\ Note(k)'
      BY <2>8, <3>1 DEF Note, Upped, Asked, SyncLabels, BlockLabels, UnblockLabels, ClearLabels, UpLabels, SetLabels
    <3> QED BY <1>3, <2>4, <3>2 DEF Notes, CloseAt
  <2>18. TopFits' BY <2>4, <2>5, <2>8 DEF TopFits, AtTop, TxLabels, RunLabels
  <2> QED BY <2>4, <2>9, <2>11, <2>14, <2>15, <2>16, <2>17, <2>18 DEF IInv
<1> QED BY <1>4, <1>5 DEF CloseDown

\* close is through: nothing is left, and the record is given up.
LEMMA StepCloseDone == ASSUME IInv, CloseDone PROVE IInv'
<1> DEFINE l == "close_unblocked"
<1>1. At(l) /\ UNCHANGED <<kern, v6, mg, phase, arg, why, after, crashes>> BY DEF CloseDone, callVars
<1>2. l \in CloseLabels BY DEF CloseLabels
<1>3. CloseAt(l) /\ faults \in 0..MaxFail BY <1>1, <1>2, CloseIs DEF IInv, Types
<1>4. CASE Finish("err") /\ UNCHANGED <<rt, owner, faults>> BY <1>1, <1>2, <1>3, <1>4, CloseFails
<1>5. CASE ret = "ok" /\ GiveUpRecord /\ Finish("ok")
  <2>1. ~rt.recover /\ (crashes = 0 => kern \subseteq Blocks) /\ kern \cap Blocks = {}
    BY <1>3, <1>5 DEF CloseAt, Here, Note, Upped, AtTop
  <2> QED BY <1>1, <1>2, <1>5, <2>1, CloseReleases
<1> QED BY <1>4, <1>5 DEF CloseDone

-----------------------------------------------------------------------------
(* The managed router *)

\* The bypass is a count of its own.
LEMMA BypassIs ==
  ASSUME NEW g \in Latches
  PROVE  /\ Acquire(g) \in Latches /\ ReleaseBypass(g) \in Latches
         /\ \A h \in {Acquire(g), ReleaseBypass(g)} :
              h.exit = g.exit /\ h.attempted = g.attempted /\ h.verified = g.verified /\ h.reasons = g.reasons
<1>1. g.bypass \in 0..MaxBypass /\ MaxBypass \in Nat BY RouterAssumption DEF Latches
<1>2. (IF g.bypass < MaxBypass THEN g.bypass + 1 ELSE g.bypass) \in 0..MaxBypass BY <1>1
<1>3. (IF g.bypass = 0 THEN 0 ELSE g.bypass - 1) \in 0..MaxBypass BY <1>1
<1>4. /\ Acquire(g) \in Latches /\ Acquire(g).exit = g.exit /\ Acquire(g).attempted = g.attempted
      /\ Acquire(g).verified = g.verified /\ Acquire(g).reasons = g.reasons BY <1>2 DEF Acquire, Latches
<1>5. /\ ReleaseBypass(g) \in Latches /\ ReleaseBypass(g).exit = g.exit /\ ReleaseBypass(g).attempted = g.attempted
      /\ ReleaseBypass(g).verified = g.verified /\ ReleaseBypass(g).reasons = g.reasons
  BY <1>3 DEF ReleaseBypass, Latches
<1> QED BY <1>4, <1>5

\* What a managed call knows at each of its labels.
RunsAt(l) ==
  /\ At(l) /\ Here(l) /\ phase = "running" /\ rt.up /\ ~rt.recover
  /\ l \notin TxLabels /\ l # "claim_write" /\ l \in AllLabels
  /\ Range(Tail(stack)) \subseteq {"sync", "sync_set", "sync_cleared", "sync_after"}
\* An action of the running node has the facts of RunsAt.
LEMMA RunsIs == ASSUME IInv, NEW l \in EnsureLabels \cup ClearLabels \cup SyncLabels, At(l) PROVE RunsAt(l)
<1>1. Here(l) BY HereIs
<1>2. phase = "running"
  <2>1. Proc(l) \in {"ensure", "clear", "sync"} BY Procs
  <2>2. phase \in PhasesOf(Proc(l)) BY <1>1 DEF Here
  <2> QED BY <2>1, <2>2 DEF PhasesOf
<1>3. rt.up /\ ~rt.recover BY <1>2 DEF IInv, Phases
<1>4. l \notin TxLabels /\ l # "claim_write" BY DEF EnsureLabels, ClearLabels, SyncLabels, TxLabels
<1>5. Range(Tail(stack)) \subseteq {"sync", "sync_set", "sync_cleared", "sync_after"} BY <1>1, UnderAre DEF Here
<1> QED BY <1>1, <1>2, <1>3, <1>4, <1>5 DEF RunsAt, Here

\* A step of a managed call that changes no more than the latch.
LEMMA RunningMoves ==
  ASSUME IInv, NEW l \in EnsureLabels \cup ClearLabels \cup SyncLabels, At(l),
         UNCHANGED <<kern, v6, owner, rt, phase, arg, crashes, mode, cmds, undo>>, faults' \in 0..MaxFail,
         mg' \in Latches, ret' \in {"ok", "err"}, why' \in Reasons, after' \subseteq Reasons,
         Top' \notin TxLabels, Frames', TopFits',
         mg'.verified => mg.verified \/ (Blocked /\ rt.blocked),
         mg.verified => mg'.verified \/ Range(rt.pending) \cap ExitAdds = {},
         Cfg(rt.config).exit => mg'.exit,
         \A m \in Range(stack') : m \in Range(Tail(stack)) \/ Note(m)'
  PROVE  IInv'
<1>1. RunsAt(l) /\ Types BY RunsIs DEF IInv
<1>2. Settled' BY <1>1 DEF RunsAt, Here, Settled
<1>3. Kernel' /\ OneDel' /\ Ownership' /\ Recovering' /\ Owed' = Range(rt.pending)
  <2>1. UNCHANGED <<kern, v6, owner, rt, crashes>> OBVIOUS
  <2> QED BY <1>1, <1>2, <2>1, Undisturbed DEF RunsAt
<1>4. Types' BY <1>1 DEF Types
<1>5. Latch' BY DEF IInv, Latch, Blocked, BlockActive
<1>6. ExitOwed'
  <2>1. Range(rt.pending) = Owed BY <1>1, OwedHere DEF RunsAt
  <2> QED BY <1>3, <2>1 DEF IInv, ExitOwed
<1>7. ExitKnown' BY DEF ExitKnown, Cfg
<1>8. Phases' BY DEF IInv, Phases
<1>9. Notes'
  <2>1. ASSUME NEW m \in Range(Tail(stack)) PROVE Note(m)'
    <3>1. Note(m) BY <1>1 DEF RunsAt, Here, IInv, Notes
    <3>2. m \in {"sync", "sync_set", "sync_cleared", "sync_after"} BY <1>1 DEF RunsAt
    <3>3. /\ m \notin SetLabels \cup UpLabels \cup {"start_blocked", "start_set", "start_applied", "start_open"}
          /\ m \notin {"ensured", "sync_verified", "clear_done", "clear_restored"} BY <3>2 DEF SetLabels, UpLabels
    <3> QED BY <3>1, <3>3 DEF Note, Pure
  <2> QED BY <2>1 DEF Notes
<1> QED BY <1>3, <1>4, <1>5, <1>6, <1>7, <1>8, <1>9 DEF IInv, Kernel

\* An exit node in force is known to the latch once it has been applied.
LEMMA ExitIs ==
  ASSUME IInv, NEW l \in EnsureLabels \cup ClearLabels \cup SyncLabels, At(l), l # "sync_applied" PROVE Cfg(rt.config).exit => mg.exit
<1>1. RunsAt(l) BY RunsIs
<1> QED BY <1>1 DEF RunsAt, Here, IInv, ExitKnown

\* A managed call returns, goes on, or calls.
LEMMA RunsReturn ==
  ASSUME IInv, NEW l \in EnsureLabels \cup ClearLabels \cup SyncLabels, At(l), NEW r, Finish(r), phase' = phase
  PROVE  /\ UNCHANGED <<mode, cmds, undo>> /\ ret' = r /\ cmds' = <<>> /\ Frames' /\ Top' \notin TxLabels
         /\ \A m \in Range(stack') : m \in Range(Tail(stack))
         /\ l \in EnsureLabels => Top' \in {"sync", "sync_set", "idle"}
         /\ l \in ClearLabels => Top' \in {"sync_cleared", "sync_after", "idle"}
         /\ l \in SyncLabels => Top' = "idle"
         /\ r = "err" \/ l \notin EnsureLabels => TopFits'
<1>1. RunsAt(l) BY RunsIs
<1>2. stack' = Tail(stack) /\ ret' = r /\ UNCHANGED <<mode, cmds, undo>> BY DEF Finish
<1>3. Frames' /\ Range(stack') = Range(Tail(stack)) /\ Top' \in Awaits(l) \cup {"idle"} BY <1>2, FinishIs
<1>4. cmds' = <<>> BY <1>1, <1>2 DEF RunsAt, Here
<1>5. /\ l \in EnsureLabels => Top' \in {"sync", "sync_set", "idle"}
      /\ l \in ClearLabels => Top' \in {"sync_cleared", "sync_after", "idle"}
      /\ l \in SyncLabels => Top' = "idle"
  BY <1>3, AwaitsAre
<1>6. Top' \notin TxLabels BY <1>5 DEF TxLabels
<1>7. ASSUME r = "err" \/ l \notin EnsureLabels PROVE TopFits'
  <2>1. CASE r = "err" BY <1>1, <1>2, <1>3, <1>4, <2>1, Returned DEF RunsAt
  <2>2. CASE l \notin EnsureLabels BY <1>4, <1>5, <2>2 DEF TopFits, AtTop, TxLabels, RunLabels
  <2> QED BY <1>7, <2>1, <2>2
<1> QED BY <1>2, <1>3, <1>4, <1>5, <1>6, <1>7

\* A step within a procedure of the running node.
LEMMA RunsGo ==
  ASSUME IInv, NEW l \in EnsureLabels \cup ClearLabels \cup SyncLabels, At(l), NEW m \in AllLabels, Proc(m) = Proc(l),
         Goto(Then(<<m>>)), phase' = phase
  PROVE  /\ UNCHANGED <<mode, cmds, undo>> /\ ret' = "ok" /\ cmds' = <<>> /\ Frames' /\ Top' = m
         /\ Range(stack') = {m} \cup Range(Tail(stack))
<1>1. RunsAt(l) BY RunsIs
<1>2. stack' = Then(<<m>>) /\ ret' = "ok" /\ UNCHANGED <<mode, cmds, undo>> BY DEF Goto
<1>3. Frames' /\ Range(stack') = {m} \cup Range(Tail(stack)) /\ Top' = m BY <1>2, GoIs
<1> QED BY <1>1, <1>2, <1>3 DEF RunsAt, Here

\* A call of the running node.
LEMMA RunsCall ==
  ASSUME IInv, NEW l \in EnsureLabels \cup ClearLabels \cup SyncLabels, At(l), NEW m \in AllLabels, Proc(m) = Proc(l),
         NEW k \in {"block", "unblock", "set", "ensure", "clear"}, m \in Awaits(k), Goto(Then(<<k, m>>)), phase' = phase
  PROVE  /\ UNCHANGED <<mode, cmds, undo>> /\ ret' = "ok" /\ cmds' = <<>> /\ Frames' /\ Top' = k /\ Top' \notin TxLabels
         /\ Range(stack') = {k, m} \cup Range(Tail(stack)) /\ stack'[2] = m
         /\ k = "unblock" => m # "close_unblocked"
         /\ TopFits'
<1>1. RunsAt(l) BY RunsIs
<1>2. stack' = Then(<<k, m>>) /\ ret' = "ok" /\ UNCHANGED <<mode, cmds, undo>> BY DEF Goto
<1>3. k \in AllLabels /\ Proc(k) = k BY Procs DEF BlockLabels, UnblockLabels, SetLabels, EnsureLabels, ClearLabels
<1>4. phase \in PhasesOf(Proc(k)) BY <1>1, <1>3 DEF PhasesOf, RunsAt
<1>5. Frames' /\ Range(stack') = {k, m} \cup Range(Tail(stack)) /\ Top' = k /\ stack'[2] = m
  BY <1>2, <1>3, <1>4, CallIs
<1>6. m # "close_unblocked"
  <2>1. SUFFICES ASSUME m = "close_unblocked" PROVE FALSE OBVIOUS
  <2>2. Proc(m) = "close" /\ Proc(l) \in {"ensure", "clear", "sync"} BY <2>1, Procs DEF CloseLabels
  <2> QED BY <2>2
<1>7. cmds' = <<>> BY <1>1, <1>2 DEF RunsAt, Here
<1>8. TopFits' BY <1>5, <1>6, <1>7 DEF TopFits, AtTop, TxLabels, RunLabels
<1> QED BY <1>2, <1>5, <1>6, <1>7, <1>8 DEF TxLabels

\* The notes of the labels of a managed call.
LEMMA RunningNote ==
  ASSUME NEW m, ~rt'.recover,
         m \in SyncLabels \cup SetLabels => arg' \in Configs,
         m \in {"ensured", "sync_verified", "clear_done", "clear_restored"} => ~mg'.verified,
         m \in ClearLabels \cup {"sync_cleared", "sync_after"} => rt'.config = arg' /\ Range(rt'.pending) \cap ExitAdds = {},
         m \in SetLabels => rt'.up /\ (Cfg(rt.config)'.exit /\ ~arg'.exit => mg'.verified),
         m \in EnsureLabels \cup ClearLabels \cup SyncLabels \cup SetLabels \cup {"block", "unblock"}
  PROVE  Note(m)'
BY DEF Note, Upped, Asked, SyncLabels, BlockLabels, UnblockLabels, ClearLabels, UpLabels, SetLabels, EnsureLabels

\* A reason is latched; the block is installed if it is not verified.
LEMMA StepEnsure == ASSUME IInv, Ensure PROVE IInv'
<1> DEFINE l == "ensure"
<1>1. /\ At(l) /\ UNCHANGED <<kern, v6, owner, rt, phase, arg, why, after, faults, crashes>>
      /\ mg' = [mg EXCEPT !.reasons = @ \cup {why}, !.attempted = @ \/ ~mg.verified]
  BY DEF Ensure, kernelVars, callVars
<1>2. l \in EnsureLabels /\ "ensured" \in EnsureLabels /\ l # "sync_applied" BY DEF EnsureLabels
<1>3. RunsAt(l) /\ Types /\ mg \in Latches /\ phase = "running" BY <1>1, <1>2, RunsIs DEF IInv, Types, RunsAt
<1>4. /\ mg' \in Latches /\ mg'.verified = mg.verified /\ mg'.exit = mg.exit
      /\ faults' \in 0..MaxFail /\ why' \in Reasons /\ after' \subseteq Reasons
  <2>1. mg.reasons \cup {why} \in SUBSET Reasons BY <1>3 DEF Types, Latches
  <2>2. (mg.attempted \/ ~mg.verified) \in BOOLEAN OBVIOUS
  <2> QED BY <1>1, <1>3, <2>1, <2>2 DEF Types, Latches
<1>5. Cfg(rt.config).exit => mg'.exit BY <1>1, <1>2, <1>4, ExitIs
<1>6. CASE mg.verified
  <2>1. Finish("ok") BY <1>6 DEF Ensure
  <2>2. /\ UNCHANGED <<mode, cmds, undo>> /\ ret' = "ok" /\ cmds' = <<>> /\ Frames' /\ Top' \notin TxLabels
        /\ \A m \in Range(stack') : m \in Range(Tail(stack))
        /\ Top' \in {"sync", "sync_set", "idle"}
    BY <1>1, <1>2, <2>1, RunsReturn
  <2>3. TopFits' BY <1>4, <1>6, <2>2 DEF TopFits, AtTop, TxLabels, RunLabels
  <2> QED BY <1>1, <1>2, <1>4, <1>5, <1>6, <2>2, <2>3, RunningMoves
<1>7. CASE ~mg.verified
  <2>1. Goto(Then(<<"block", "ensured">>)) BY <1>7 DEF Ensure
  <2>2. "ensured" \in Awaits("block") BY AwaitsAre DEF BlockLabels
  <2>3. /\ UNCHANGED <<mode, cmds, undo>> /\ ret' = "ok" /\ Frames' /\ Top' \notin TxLabels
        /\ Range(stack') = {"block", "ensured"} \cup Range(Tail(stack)) /\ TopFits'
    BY <1>1, <1>2, <2>1, <2>2, RunsCall, Procs
  <2>4. Note("block")' /\ Note("ensured")'
    <3>1. ~rt'.recover /\ ~mg'.verified BY <1>1, <1>3, <1>4, <1>7 DEF RunsAt
    <3> QED BY <3>1, RunningNote DEF EnsureLabels, ClearLabels, SyncLabels, SetLabels
  <2>5. \A m \in Range(stack') : m \in Range(Tail(stack)) \/ Note(m)' BY <2>3, <2>4
  <2> QED BY <1>1, <1>2, <1>4, <1>5, <1>7, <2>3, <2>5, RunningMoves
<1> QED BY <1>6, <1>7

\* The latch believes what block_direct has verified.
LEMMA StepEnsured == ASSUME IInv, Ensured PROVE IInv'
<1> DEFINE l == "ensured"
<1>1. /\ At(l) /\ UNCHANGED <<kern, v6, owner, rt, phase, arg, why, after, faults, crashes>>
      /\ mg' = [mg EXCEPT !.verified = (ret = "ok")] /\ Finish(ret)
  BY DEF Ensured, kernelVars, callVars
<1>2. l \in EnsureLabels /\ l # "sync_applied" BY DEF EnsureLabels
<1>3. RunsAt(l) /\ Types /\ mg \in Latches /\ AtTop(l) /\ Note(l) BY <1>1, <1>2, RunsIs DEF IInv, Types, RunsAt, Here
<1>4. /\ mg' \in Latches /\ mg'.verified = (ret = "ok") /\ mg'.exit = mg.exit
      /\ faults' \in 0..MaxFail /\ why' \in Reasons /\ after' \subseteq Reasons /\ ret \in {"ok", "err"}
  <2>1. (ret = "ok") \in BOOLEAN OBVIOUS
  <2> QED BY <1>1, <1>3, <2>1 DEF Types, Latches
<1>5. Cfg(rt.config).exit => mg'.exit BY <1>1, <1>2, <1>4, ExitIs
<1>6. mg'.verified => Blocked /\ rt.blocked BY <1>3, <1>4 DEF AtTop
<1>7. ~mg.verified BY <1>3 DEF Note
<1>8. /\ UNCHANGED <<mode, cmds, undo>> /\ ret' = ret /\ cmds' = <<>> /\ Frames' /\ Top' \notin TxLabels
      /\ \A m \in Range(stack') : m \in Range(Tail(stack))
      /\ Top' \in {"sync", "sync_set", "idle"} /\ (ret = "err" => TopFits')
  BY <1>1, <1>2, RunsReturn
<1>9. TopFits'
  <2>1. CASE ret = "err" BY <1>8, <2>1
  <2>2. CASE ret = "ok"
    <3>1. mg'.verified BY <1>4, <2>2
    <3> QED BY <1>8, <3>1 DEF TopFits, AtTop, TxLabels, RunLabels
  <2> QED BY <1>4, <2>1, <2>2
<1> QED BY <1>1, <1>2, <1>4, <1>5, <1>6, <1>7, <1>8, <1>9, RunningMoves

\* A reason is dropped; the last one begins the removal of the block.
LEMMA StepClear == ASSUME IInv, Clear PROVE IInv'
<1> DEFINE l == "clear"
           others == mg.reasons \ {why}
<1>1. At(l) /\ UNCHANGED <<kern, v6, owner, rt, phase, arg, why, after, faults, crashes>>
  BY DEF Clear, kernelVars, callVars
<1>2. l \in ClearLabels /\ "clear_unblock" \in ClearLabels /\ l # "sync_applied" /\ l \notin EnsureLabels BY DEF ClearLabels, EnsureLabels
<1>3. RunsAt(l) /\ Types /\ mg \in Latches /\ Note(l) BY <1>1, <1>2, RunsIs DEF IInv, Types, RunsAt, Here
<1>4. PICK rs : mg' = [mg EXCEPT !.reasons = rs] /\ rs \in {others, {why}} BY DEF Clear
<1>5. /\ mg' \in Latches /\ mg'.verified = mg.verified /\ mg'.exit = mg.exit
      /\ faults' \in 0..MaxFail /\ why' \in Reasons /\ after' \subseteq Reasons
  <2>1. rs \in SUBSET Reasons BY <1>3, <1>4 DEF Types, Latches
  <2> QED BY <1>1, <1>3, <1>4, <2>1 DEF Types, Latches
<1>6. Cfg(rt.config).exit => mg'.exit BY <1>1, <1>2, <1>5, ExitIs
<1>7. CASE Finish("ok")
  <2>1. /\ UNCHANGED <<mode, cmds, undo>> /\ ret' = "ok" /\ Frames' /\ Top' \notin TxLabels
        /\ (\A m \in Range(stack') : m \in Range(Tail(stack))) /\ TopFits'
    BY <1>1, <1>2, <1>7, RunsReturn
  <2> QED BY <1>1, <1>2, <1>5, <1>6, <2>1, RunningMoves
<1>8. CASE Goto(Then(<<"clear_unblock">>))
  <2>1. /\ UNCHANGED <<mode, cmds, undo>> /\ ret' = "ok" /\ cmds' = <<>> /\ Frames' /\ Top' = "clear_unblock"
        /\ Range(stack') = {"clear_unblock"} \cup Range(Tail(stack))
    BY <1>1, <1>2, <1>8, RunsGo, Procs
  <2>2. TopFits' /\ Top' \notin TxLabels BY <2>1, Entered DEF TxLabels, RunLabels, AwaitLabels
  <2>3. Note("clear_unblock")'
    <3>1. rt'.config = arg' /\ Range(rt'.pending) \cap ExitAdds = {} /\ ~rt'.recover
      BY <1>1, <1>2, <1>3 DEF Note, RunsAt
    <3> QED BY <1>2, <3>1, RunningNote DEF SyncLabels, SetLabels
  <2>4. \A m \in Range(stack') : m \in Range(Tail(stack)) \/ Note(m)' BY <2>1, <2>3
  <2> QED BY <1>1, <1>2, <1>5, <1>6, <2>1, <2>2, <2>4, RunningMoves
<1> QED BY <1>7, <1>8 DEF Clear

\* Verification ends before the removal of the block begins, when no catch-all is owed.
LEMMA StepClearUnblock == ASSUME IInv, ClearUnblock PROVE IInv'
<1> DEFINE l == "clear_unblock"
<1>1. /\ At(l) /\ UNCHANGED <<kern, v6, owner, rt, phase, arg, why, after, faults, crashes>>
      /\ mg' = [mg EXCEPT !.verified = FALSE] /\ Goto(Then(<<"unblock", "clear_done">>))
  BY DEF ClearUnblock, kernelVars, callVars
<1>2. l \in ClearLabels /\ "clear_done" \in ClearLabels /\ l # "sync_applied" BY DEF ClearLabels
<1>3. RunsAt(l) /\ Types /\ mg \in Latches /\ Note(l) BY <1>1, <1>2, RunsIs DEF IInv, Types, RunsAt, Here
<1>4. /\ mg' \in Latches /\ ~mg'.verified /\ mg'.exit = mg.exit
      /\ faults' \in 0..MaxFail /\ why' \in Reasons /\ after' \subseteq Reasons
  BY <1>1, <1>3 DEF Types, Latches
<1>5. Cfg(rt.config).exit => mg'.exit BY <1>1, <1>2, <1>4, ExitIs
<1>6. rt.config = arg /\ Range(rt.pending) \cap ExitAdds = {} BY <1>2, <1>3 DEF Note
<1>7. "clear_done" \in Awaits("unblock") BY AwaitsAre DEF UnblockLabels
<1>8. /\ UNCHANGED <<mode, cmds, undo>> /\ ret' = "ok" /\ Frames' /\ Top' \notin TxLabels
      /\ Range(stack') = {"unblock", "clear_done"} \cup Range(Tail(stack)) /\ TopFits'
  BY <1>1, <1>2, <1>7, RunsCall, Procs
<1>9. Note("unblock")' /\ Note("clear_done")'
  <2>1. ~rt'.recover /\ rt'.config = arg' /\ Range(rt'.pending) \cap ExitAdds = {} BY <1>1, <1>3, <1>6 DEF RunsAt
  <2> QED BY <1>2, <1>4, <2>1, RunningNote DEF SyncLabels, SetLabels
<1>10. \A m \in Range(stack') : m \in Range(Tail(stack)) \/ Note(m)' BY <1>8, <1>9
<1> QED BY <1>1, <1>2, <1>4, <1>5, <1>6, <1>8, <1>10, RunningMoves

\* The block is gone, or is put back at once.
LEMMA StepClearDone == ASSUME IInv, ClearDone PROVE IInv'
<1> DEFINE l == "clear_done"
<1>1. At(l) /\ UNCHANGED <<kern, v6, owner, rt, phase, arg, why, after, faults, crashes>>
  BY DEF ClearDone, kernelVars, callVars
<1>2. l \in ClearLabels /\ "clear_restored" \in ClearLabels /\ l # "sync_applied" /\ l \notin EnsureLabels BY DEF ClearLabels, EnsureLabels
<1>3. RunsAt(l) /\ Types /\ mg \in Latches /\ Note(l) BY <1>1, <1>2, RunsIs DEF IInv, Types, RunsAt, Here
<1>4. mg' = [mg EXCEPT !.attempted = FALSE, !.reasons = {}] \/ mg' = mg BY DEF ClearDone
<1>5. /\ mg' \in Latches /\ mg'.verified = mg.verified /\ mg'.exit = mg.exit
      /\ faults' \in 0..MaxFail /\ why' \in Reasons /\ after' \subseteq Reasons
  BY <1>1, <1>3, <1>4 DEF Types, Latches
<1>6. Cfg(rt.config).exit => mg'.exit BY <1>1, <1>2, <1>5, ExitIs
<1>7. CASE Finish("ok")
  <2>1. /\ UNCHANGED <<mode, cmds, undo>> /\ ret' = "ok" /\ Frames' /\ Top' \notin TxLabels
        /\ (\A m \in Range(stack') : m \in Range(Tail(stack))) /\ TopFits'
    BY <1>1, <1>2, <1>7, RunsReturn
  <2> QED BY <1>1, <1>2, <1>5, <1>6, <2>1, RunningMoves
<1>8. CASE Goto(Then(<<"block", "clear_restored">>))
  <2>1. "clear_restored" \in Awaits("block") BY AwaitsAre DEF BlockLabels
  <2>2. /\ UNCHANGED <<mode, cmds, undo>> /\ ret' = "ok" /\ Frames' /\ Top' \notin TxLabels
        /\ Range(stack') = {"block", "clear_restored"} \cup Range(Tail(stack)) /\ TopFits'
    BY <1>1, <1>2, <1>8, <2>1, RunsCall, Procs
  <2>3. Note("block")' /\ Note("clear_restored")'
    <3>1. ~rt'.recover /\ rt'.config = arg' /\ Range(rt'.pending) \cap ExitAdds = {} /\ ~mg'.verified
      BY <1>1, <1>2, <1>3, <1>5 DEF RunsAt, Note
    <3> QED BY <1>2, <3>1, RunningNote DEF SyncLabels, SetLabels, EnsureLabels, ClearLabels
  <2>4. \A m \in Range(stack') : m \in Range(Tail(stack)) \/ Note(m)' BY <2>2, <2>3
  <2> QED BY <1>1, <1>2, <1>5, <1>6, <2>2, <2>4, RunningMoves
<1> QED BY <1>7, <1>8 DEF ClearDone

\* The latch believes what block_direct has verified after a failed removal.
LEMMA StepClearRestored == ASSUME IInv, ClearRestored PROVE IInv'
<1> DEFINE l == "clear_restored"
<1>1. /\ At(l) /\ UNCHANGED <<kern, v6, owner, rt, phase, arg, why, after, faults, crashes>>
      /\ mg' = [mg EXCEPT !.verified = (ret = "ok")] /\ Finish("err")
  BY DEF ClearRestored, kernelVars, callVars
<1>2. l \in ClearLabels /\ l # "sync_applied" BY DEF ClearLabels
<1>3. RunsAt(l) /\ Types /\ mg \in Latches /\ AtTop(l) /\ Note(l) BY <1>1, <1>2, RunsIs DEF IInv, Types, RunsAt, Here
<1>4. /\ mg' \in Latches /\ mg'.verified = (ret = "ok") /\ mg'.exit = mg.exit
      /\ faults' \in 0..MaxFail /\ why' \in Reasons /\ after' \subseteq Reasons
  <2>1. (ret = "ok") \in BOOLEAN OBVIOUS
  <2> QED BY <1>1, <1>3, <2>1 DEF Types, Latches
<1>5. Cfg(rt.config).exit => mg'.exit BY <1>1, <1>2, <1>4, ExitIs
<1>6. mg'.verified => Blocked /\ rt.blocked BY <1>3, <1>4 DEF AtTop
<1>7. ~mg.verified BY <1>3 DEF Note
<1>8. /\ UNCHANGED <<mode, cmds, undo>> /\ ret' = "err" /\ Frames' /\ Top' \notin TxLabels
      /\ (\A m \in Range(stack') : m \in Range(Tail(stack))) /\ TopFits'
  BY <1>1, <1>2, RunsReturn
<1> QED BY <1>1, <1>2, <1>4, <1>5, <1>6, <1>7, <1>8, RunningMoves

\* What a sync knows at each of its labels.
LEMMA SyncIs ==
  ASSUME IInv, NEW l \in SyncLabels, At(l)
  PROVE  /\ RunsAt(l) /\ Types /\ mg \in Latches /\ AtTop(l) /\ Note(l) /\ arg \in Configs /\ l \notin EnsureLabels
         /\ Range(Tail(stack)) = {} /\ ret \in {"ok", "err"}
<1>1. RunsAt(l) /\ Types /\ mg \in Latches /\ AtTop(l) /\ Note(l) /\ ret \in {"ok", "err"}
  BY RunsIs DEF IInv, Types, RunsAt, Here
<1>2. arg \in Configs BY <1>1 DEF Note, Asked
<1>3. Range(Tail(stack)) = {} BY <1>1, UnderAre DEF RunsAt, Here
<1>4. l \notin EnsureLabels BY DEF SyncLabels, EnsureLabels
<1> QED BY <1>1, <1>2, <1>3, <1>4

\* A sync returns.
LEMMA SyncReturns ==
  ASSUME IInv, NEW l \in SyncLabels, At(l), NEW r \in {"ok", "err"}, Finish(r),
         UNCHANGED <<kern, v6, owner, rt, phase, arg, why, after, crashes>>, faults' \in 0..MaxFail,
         mg' \in Latches, Cfg(rt.config).exit => mg'.exit,
         mg'.verified => mg.verified \/ (Blocked /\ rt.blocked), mg.verified => mg'.verified
  PROVE  IInv'
<1>1. why' \in Reasons /\ after' \subseteq Reasons /\ l \notin EnsureLabels BY SyncIs DEF Types
<1>2. /\ UNCHANGED <<mode, cmds, undo>> /\ ret' = r /\ Frames' /\ Top' \notin TxLabels
      /\ (\A m \in Range(stack') : m \in Range(Tail(stack))) /\ TopFits'
  BY <1>1, RunsReturn
<1> QED BY <1>1, <1>2, RunningMoves

\* sync_router takes the bypass and verifies a block that was attempted.
LEMMA StepSyncStart == ASSUME IInv, SyncStart PROVE IInv'
<1> DEFINE l == "sync"
<1>1. At(l) /\ UNCHANGED <<kern, v6, owner, rt, phase, arg, why, after, crashes>> BY DEF SyncStart, kernelVars, callVars
<1>2. /\ l \in SyncLabels /\ "sync_verified" \in SyncLabels /\ "sync_cover" \in SyncLabels /\ l # "sync_applied"
      /\ l \in EnsureLabels \cup ClearLabels \cup SyncLabels
  BY DEF SyncLabels
<1>3. RunsAt(l) /\ Types /\ mg \in Latches /\ arg \in Configs BY <1>1, <1>2, SyncIs
<1>4. faults' \in 0..MaxFail BY <1>3, FaultsAre DEF SyncStart
<1>5. Cfg(rt.config).exit => mg.exit BY <1>1, <1>2, ExitIs
<1>6. CASE Finish("err") /\ UNCHANGED mg BY <1>1, <1>2, <1>3, <1>4, <1>5, <1>6, SyncReturns
<1>7. CASE /\ mg' = IF Entering THEN Acquire(mg) ELSE mg
           /\ Goto(Then(IF mg.attempted /\ ~mg.verified THEN <<"block", "sync_verified">> ELSE <<"sync_cover">>))
  <2>1. /\ mg' \in Latches /\ mg'.verified = mg.verified /\ mg'.exit = mg.exit
        /\ why' \in Reasons /\ after' \subseteq Reasons
    BY <1>1, <1>3, <1>7, BypassIs DEF Types
  <2>2. ~rt'.recover /\ arg' \in Configs BY <1>1, <1>3 DEF RunsAt
  <2>3. CASE mg.attempted /\ ~mg.verified
    <3>1. Goto(Then(<<"block", "sync_verified">>)) BY <1>7, <2>3
    <3>2. "sync_verified" \in Awaits("block") BY AwaitsAre DEF BlockLabels
    <3>3. /\ UNCHANGED <<mode, cmds, undo>> /\ ret' = "ok" /\ Frames' /\ Top' \notin TxLabels
          /\ Range(stack') = {"block", "sync_verified"} \cup Range(Tail(stack)) /\ TopFits'
      BY <1>1, <1>2, <3>1, <3>2, RunsCall, Procs
    <3>4. Note("block")' /\ Note("sync_verified")'
      BY <1>2, <2>1, <2>2, <2>3, RunningNote DEF SetLabels, EnsureLabels, ClearLabels
    <3>5. \A m \in Range(stack') : m \in Range(Tail(stack)) \/ Note(m)' BY <3>3, <3>4
    <3> QED BY <1>1, <1>2, <1>4, <1>5, <2>1, <3>3, <3>5, RunningMoves
  <2>4. CASE ~(mg.attempted /\ ~mg.verified)
    <3>1. Goto(Then(<<"sync_cover">>)) BY <1>7, <2>4
    <3>2. /\ UNCHANGED <<mode, cmds, undo>> /\ ret' = "ok" /\ cmds' = <<>> /\ Frames' /\ Top' = "sync_cover"
          /\ Range(stack') = {"sync_cover"} \cup Range(Tail(stack))
      BY <1>1, <1>2, <3>1, RunsGo, Procs
    <3>3. TopFits' /\ Top' \notin TxLabels BY <3>2, Entered DEF TxLabels, RunLabels, AwaitLabels
    <3>4. Note("sync_cover")' BY <1>2, <2>2, RunningNote DEF SetLabels, EnsureLabels, ClearLabels
    <3>5. \A m \in Range(stack') : m \in Range(Tail(stack)) \/ Note(m)' BY <3>2, <3>4
    <3> QED BY <1>1, <1>2, <1>4, <1>5, <2>1, <3>2, <3>3, <3>5, RunningMoves
  <2> QED BY <2>3, <2>4
<1> QED BY <1>6, <1>7 DEF SyncStart

\* The attempted block is verified, or the sync fails.
LEMMA StepSyncVerified == ASSUME IInv, SyncVerified PROVE IInv'
<1> DEFINE l == "sync_verified"
<1>1. /\ At(l) /\ UNCHANGED <<kern, v6, owner, rt, phase, arg, why, after, faults, crashes>>
      /\ mg' = [mg EXCEPT !.verified = (ret = "ok")]
  BY DEF SyncVerified, kernelVars, callVars
<1>2. l \in SyncLabels /\ "sync_cover" \in SyncLabels /\ l # "sync_applied" /\ l \in EnsureLabels \cup ClearLabels \cup SyncLabels
  BY DEF SyncLabels
<1>3. RunsAt(l) /\ Types /\ mg \in Latches /\ arg \in Configs /\ Note(l) /\ AtTop(l) BY <1>1, <1>2, SyncIs
<1>4. /\ mg' \in Latches /\ mg'.verified = (ret = "ok") /\ mg'.exit = mg.exit
      /\ faults' \in 0..MaxFail /\ why' \in Reasons /\ after' \subseteq Reasons
  <2>1. (ret = "ok") \in BOOLEAN OBVIOUS
  <2> QED BY <1>1, <1>3, <2>1 DEF Types, Latches
<1>5. Cfg(rt.config).exit => mg'.exit BY <1>1, <1>2, <1>4, ExitIs
<1>6. mg'.verified => Blocked /\ rt.blocked BY <1>3, <1>4 DEF AtTop
<1>7. ~mg.verified BY <1>3 DEF Note
<1>8. CASE Finish("err") BY <1>1, <1>2, <1>4, <1>5, <1>6, <1>7, <1>8, SyncReturns
<1>9. CASE Goto(Then(<<"sync_cover">>))
  <2>1. /\ UNCHANGED <<mode, cmds, undo>> /\ ret' = "ok" /\ cmds' = <<>> /\ Frames' /\ Top' = "sync_cover"
        /\ Range(stack') = {"sync_cover"} \cup Range(Tail(stack))
    BY <1>1, <1>2, <1>9, RunsGo, Procs
  <2>2. TopFits' /\ Top' \notin TxLabels BY <2>1, Entered DEF TxLabels, RunLabels, AwaitLabels
  <2>3. ~rt'.recover /\ arg' \in Configs BY <1>1, <1>3 DEF RunsAt
  <2>4. Note("sync_cover")' BY <1>2, <2>3, RunningNote DEF SetLabels, EnsureLabels, ClearLabels
  <2>5. \A m \in Range(stack') : m \in Range(Tail(stack)) \/ Note(m)' BY <2>1, <2>4
  <2> QED BY <1>1, <1>2, <1>4, <1>5, <1>6, <1>7, <2>1, <2>2, <2>5, RunningMoves
<1> QED BY <1>8, <1>9 DEF SyncVerified

\* The block covers an apply that needs it.
LEMMA StepSyncCover == ASSUME IInv, SyncCover PROVE IInv'
<1> DEFINE l == "sync_cover"
           m == "sync_set"
<1>1. At(l) /\ UNCHANGED <<kern, v6, owner, rt, mg, phase, arg, after, faults, crashes>> /\ why' = "transition"
  BY DEF SyncCover, kernelVars
<1>2. l \in SyncLabels /\ m \in SyncLabels /\ l # "sync_applied" /\ l \in EnsureLabels \cup ClearLabels \cup SyncLabels
  BY DEF SyncLabels
<1>3. RunsAt(l) /\ Types /\ mg \in Latches /\ arg \in Configs BY <1>1, <1>2, SyncIs
<1>4. mg' \in Latches /\ faults' \in 0..MaxFail /\ why' \in Reasons /\ after' \subseteq Reasons
  BY <1>1, <1>3 DEF Types, Reasons
<1>5. Cfg(rt.config).exit => mg'.exit BY <1>1, <1>2, ExitIs
<1>6. ~rt'.recover /\ arg' \in Configs BY <1>1, <1>3 DEF RunsAt
<1>7. Note(m)' /\ Note("ensure")' BY <1>2, <1>6, RunningNote DEF SetLabels, EnsureLabels, ClearLabels, SyncLabels
<1>8. CASE NeedsCover
  <2>1. Goto(Then(<<"ensure", m>>)) BY <1>8 DEF SyncCover
  <2>2. m \in Awaits("ensure") BY AwaitsAre DEF EnsureLabels
  <2>3. /\ UNCHANGED <<mode, cmds, undo>> /\ ret' = "ok" /\ Frames' /\ Top' \notin TxLabels
        /\ Range(stack') = {"ensure", m} \cup Range(Tail(stack)) /\ TopFits'
    BY <1>1, <1>2, <2>1, <2>2, RunsCall, Procs
  <2>4. \A k \in Range(stack') : k \in Range(Tail(stack)) \/ Note(k)' BY <1>7, <2>3
  <2> QED BY <1>1, <1>2, <1>4, <1>5, <2>3, <2>4, RunningMoves
<1>9. CASE ~NeedsCover
  <2>1. Goto(Then(<<m>>)) BY <1>9 DEF SyncCover
  <2>2. /\ UNCHANGED <<mode, cmds, undo>> /\ ret' = "ok" /\ cmds' = <<>> /\ Frames' /\ Top' = m
        /\ Range(stack') = {m} \cup Range(Tail(stack))
    BY <1>1, <1>2, <2>1, RunsGo, Procs
  <2>3. ~NeedsCover' BY <1>1, <1>9 DEF NeedsCover, Leaving
  <2>4. TopFits' /\ Top' \notin TxLabels BY <2>2, <2>3 DEF TopFits, AtTop, TxLabels, RunLabels
  <2>5. \A k \in Range(stack') : k \in Range(Tail(stack)) \/ Note(k)' BY <1>7, <2>2
  <2> QED BY <1>1, <1>2, <1>4, <1>5, <2>2, <2>4, <2>5, RunningMoves
<1> QED BY <1>8, <1>9

\* The configuration is applied behind the cover.
LEMMA StepSyncSet == ASSUME IInv, SyncSet PROVE IInv'
<1> DEFINE l == "sync_set"
           m == "sync_applied"
<1>1. At(l) /\ UNCHANGED <<kern, v6, owner, rt, mg, phase, arg, why, after, faults, crashes>>
  BY DEF SyncSet, kernelVars, callVars
<1>2. l \in SyncLabels /\ m \in SyncLabels /\ l # "sync_applied" /\ l \in EnsureLabels \cup ClearLabels \cup SyncLabels
  BY DEF SyncLabels
<1>3. RunsAt(l) /\ Types /\ mg \in Latches /\ arg \in Configs /\ AtTop(l) /\ ret \in {"ok", "err"} BY <1>1, <1>2, SyncIs
<1>4. mg' \in Latches /\ faults' \in 0..MaxFail /\ why' \in Reasons /\ after' \subseteq Reasons BY <1>1, <1>3 DEF Types
<1>5. (Cfg(rt.config).exit => mg'.exit) /\ (Cfg(rt.config).exit => mg.exit) BY <1>1, <1>2, ExitIs
<1>6. CASE ret = "err"
  <2>1. Finish("err") BY <1>6 DEF SyncSet
  <2> QED BY <1>1, <1>2, <1>4, <1>5, <2>1, SyncReturns
<1>7. CASE ret = "ok"
  <2>1. Goto(Then(<<"set", m>>)) BY <1>7 DEF SyncSet
  <2>2. m \in Awaits("set") BY AwaitsAre DEF SetLabels
  <2>3. /\ UNCHANGED <<mode, cmds, undo>> /\ ret' = "ok" /\ Frames' /\ Top' \notin TxLabels
        /\ Range(stack') = {"set", m} \cup Range(Tail(stack)) /\ TopFits'
    BY <1>1, <1>2, <2>1, <2>2, RunsCall, Procs
  <2>4. Cfg(rt.config)'.exit /\ ~arg'.exit => mg'.verified
    <3>1. NeedsCover => mg.verified BY <1>3, <1>7 DEF AtTop
    <3>2. Cfg(rt.config)' = Cfg(rt.config) BY <1>1 DEF Cfg
    <3> QED BY <1>1, <1>5, <3>1, <3>2 DEF NeedsCover, Leaving
  <2>5. ~rt'.recover /\ rt'.up /\ arg' \in Configs BY <1>1, <1>3 DEF RunsAt
  <2>6. Note("set")' /\ Note(m)' BY <1>2, <2>4, <2>5, RunningNote DEF SetLabels, EnsureLabels, ClearLabels
  <2>7. \A k \in Range(stack') : k \in Range(Tail(stack)) \/ Note(k)' BY <2>3, <2>6
  <2> QED BY <1>1, <1>2, <1>4, <1>5, <2>3, <2>7, RunningMoves
<1> QED BY <1>3, <1>6, <1>7

\* The latch knows of the exit node as soon as it may be in force.
LEMMA StepSyncApplied == ASSUME IInv, SyncApplied PROVE IInv'
<1> DEFINE l == "sync_applied"
           m == "sync_cleared"
<1>1. /\ At(l) /\ UNCHANGED <<kern, v6, owner, rt, phase, arg, why, after, faults, crashes>>
      /\ mg' = [mg EXCEPT !.exit = @ \/ arg.exit]
  BY DEF SyncApplied, kernelVars, callVars
<1>2. l \in SyncLabels /\ m \in SyncLabels /\ l \in EnsureLabels \cup ClearLabels \cup SyncLabels BY DEF SyncLabels
<1>3. RunsAt(l) /\ Types /\ mg \in Latches /\ arg \in Configs /\ AtTop(l) /\ ret \in {"ok", "err"} BY <1>1, <1>2, SyncIs
<1>4. /\ mg' \in Latches /\ mg'.verified = mg.verified /\ mg'.exit = (mg.exit \/ arg.exit)
      /\ faults' \in 0..MaxFail /\ why' \in Reasons /\ after' \subseteq Reasons
  <2>1. (mg.exit \/ arg.exit) \in BOOLEAN OBVIOUS
  <2> QED BY <1>1, <1>3, <2>1 DEF Types, Latches
<1>5. Cfg(rt.config).exit => mg'.exit
  <2>1. Cfg(rt.config).exit => mg.exit \/ arg.exit BY <1>3 DEF IInv, ExitKnown, RunsAt
  <2> QED BY <1>4, <2>1
<1>6. CASE ret = "err"
  <2>1. Finish("err") BY <1>6 DEF SyncApplied
  <2> QED BY <1>1, <1>2, <1>4, <1>5, <2>1, SyncReturns
<1>7. CASE ret = "ok"
  <2>1. Goto(Then(<<"clear", m>>)) BY <1>7 DEF SyncApplied
  <2>2. m \in Awaits("clear") BY AwaitsAre DEF ClearLabels
  <2>3. /\ UNCHANGED <<mode, cmds, undo>> /\ ret' = "ok" /\ Frames' /\ Top' \notin TxLabels
        /\ Range(stack') = {"clear", m} \cup Range(Tail(stack)) /\ TopFits'
    BY <1>1, <1>2, <2>1, <2>2, RunsCall, Procs
  <2>4. rt'.config = arg' /\ Range(rt'.pending) \cap ExitAdds = {} BY <1>1, <1>3, <1>7, RangeEmpty DEF AtTop
  <2>5. ~rt'.recover /\ arg' \in Configs BY <1>1, <1>3 DEF RunsAt
  <2>6. Note("clear")' /\ Note(m)' BY <1>2, <2>4, <2>5, RunningNote DEF SetLabels, EnsureLabels, ClearLabels
  <2>7. \A k \in Range(stack') : k \in Range(Tail(stack)) \/ Note(k)' BY <2>3, <2>6
  <2> QED BY <1>1, <1>2, <1>4, <1>5, <2>3, <2>7, RunningMoves
<1> QED BY <1>3, <1>6, <1>7

\* The cover is dropped, and the exit node is the new one.
LEMMA StepSyncCleared == ASSUME IInv, SyncCleared PROVE IInv'
<1> DEFINE l == "sync_cleared"
           m == "sync_after"
<1>1. At(l) /\ UNCHANGED <<kern, v6, owner, rt, phase, arg, why, after, faults, crashes>>
  BY DEF SyncCleared, kernelVars, callVars
<1>2. l \in SyncLabels /\ m \in SyncLabels /\ l # "sync_applied" /\ l \in EnsureLabels \cup ClearLabels \cup SyncLabels
  BY DEF SyncLabels
<1>3. RunsAt(l) /\ Types /\ mg \in Latches /\ arg \in Configs /\ Note(l) /\ ret \in {"ok", "err"} BY <1>1, <1>2, SyncIs
<1>4. faults' \in 0..MaxFail /\ why' \in Reasons /\ after' \subseteq Reasons BY <1>1, <1>3 DEF Types
<1>5. CASE ret = "err"
  <2>1. Finish("err") /\ UNCHANGED mg BY <1>5 DEF SyncCleared
  <2>2. Cfg(rt.config).exit => mg'.exit BY <1>1, <1>2, <2>1, ExitIs
  <2> QED BY <1>1, <1>2, <1>3, <1>4, <2>1, <2>2, SyncReturns
<1>6. CASE ret = "ok"
  <2> DEFINE g == IF Leaving THEN ReleaseBypass(mg) ELSE mg
  <2>1. mg' = [g EXCEPT !.exit = arg.exit] /\ Goto(Then(<<m>>)) BY <1>6 DEF SyncCleared
  <2>2. g \in Latches /\ g.verified = mg.verified BY <1>3, BypassIs
  <2>3. arg.exit \in BOOLEAN BY <1>3, RouterAssumption
  <2> HIDE DEF g
  <2>4. mg' \in Latches /\ mg'.verified = mg.verified /\ mg'.exit = arg.exit BY <2>1, <2>2, <2>3 DEF Latches
  <2>5. rt.config = arg /\ Range(rt.pending) \cap ExitAdds = {} BY <1>3 DEF Note
  <2>6. Cfg(rt.config).exit => mg'.exit BY <1>3, <2>4, <2>5, RouterAssumption DEF Cfg
  <2>7. /\ UNCHANGED <<mode, cmds, undo>> /\ ret' = "ok" /\ cmds' = <<>> /\ Frames' /\ Top' = m
        /\ Range(stack') = {m} \cup Range(Tail(stack))
    BY <1>1, <1>2, <2>1, RunsGo, Procs
  <2>8. TopFits' /\ Top' \notin TxLabels BY <2>7 DEF TopFits, AtTop, TxLabels, RunLabels
  <2>9. ~rt'.recover /\ arg' \in Configs /\ rt'.config = arg' /\ Range(rt'.pending) \cap ExitAdds = {}
    BY <1>1, <1>3, <2>5 DEF RunsAt
  <2>10. Note(m)' BY <1>2, <2>9, RunningNote DEF SetLabels, EnsureLabels, ClearLabels
  <2>11. \A k \in Range(stack') : k \in Range(Tail(stack)) \/ Note(k)' BY <2>7, <2>10
  <2> QED BY <1>1, <1>2, <1>4, <2>4, <2>6, <2>7, <2>8, <2>11, RunningMoves
<1> QED BY <1>3, <1>5, <1>6

\* The reasons of the caller are dropped one by one.
LEMMA StepSyncAfter == ASSUME IInv, SyncAfter PROVE IInv'
<1> DEFINE l == "sync_after"
<1>1. At(l) /\ UNCHANGED <<kern, v6, owner, rt, mg, phase, arg, faults, crashes>> BY DEF SyncAfter, kernelVars
<1>2. l \in SyncLabels /\ l # "sync_applied" /\ l \in EnsureLabels \cup ClearLabels \cup SyncLabels BY DEF SyncLabels
<1>3. RunsAt(l) /\ Types /\ mg \in Latches /\ arg \in Configs /\ Note(l) /\ ret \in {"ok", "err"} BY <1>1, <1>2, SyncIs
<1>4. faults' \in 0..MaxFail /\ mg' \in Latches BY <1>1, <1>3 DEF Types
<1>5. Cfg(rt.config).exit => mg'.exit BY <1>1, <1>2, ExitIs
<1>6. CASE after = {}
  <2>1. Finish(ret) /\ UNCHANGED <<why, after>> BY <1>6 DEF SyncAfter
  <2> QED BY <1>1, <1>2, <1>3, <1>4, <1>5, <2>1, SyncReturns
<1>7. CASE after # {}
  <2>1. PICK r \in after : why' = r /\ after' = after \ {r} /\ Goto(Then(<<"clear", l>>)) BY <1>7 DEF SyncAfter
  <2>2. why' \in Reasons /\ after' \subseteq Reasons BY <1>3, <2>1 DEF Types
  <2>3. l \in Awaits("clear") BY AwaitsAre DEF ClearLabels
  <2>4. /\ UNCHANGED <<mode, cmds, undo>> /\ ret' = "ok" /\ Frames' /\ Top' \notin TxLabels
        /\ Range(stack') = {"clear", l} \cup Range(Tail(stack)) /\ TopFits'
    BY <1>1, <1>2, <2>1, <2>3, RunsCall, Procs
  <2>5. ~rt'.recover /\ arg' \in Configs /\ rt'.config = arg' /\ Range(rt'.pending) \cap ExitAdds = {}
    BY <1>1, <1>3 DEF RunsAt, Note
  <2>6. Note("clear")' /\ Note(l)' BY <1>2, <2>5, RunningNote DEF SetLabels, EnsureLabels, ClearLabels
  <2>7. \A k \in Range(stack') : k \in Range(Tail(stack)) \/ Note(k)' BY <2>4, <2>6
  <2> QED BY <1>1, <1>2, <1>4, <1>5, <2>2, <2>4, <2>7, RunningMoves
<1> QED BY <1>6, <1>7

-----------------------------------------------------------------------------
(* The owner *)

\* One label, and two.
LEMMA OneFrame ==
  ASSUME NEW p, NEW l \in LabelsOf(p), l \in Outermost
  PROVE  FramesOf(<<l>>, p) /\ Range(<<l>>) = {l} /\ <<l>> # <<>> /\ Head(<<l>>) = l
<1>1. <<l>> \in Seq(LabelsOf(p)) /\ Len(<<l>>) = 1 /\ <<l>>[1] = l OBVIOUS
<1> QED BY <1>1, RangeOne DEF FramesOf

\* A stack of two.
LEMMA TwoFrames ==
  ASSUME NEW p, NEW k \in LabelsOf(p), NEW m \in LabelsOf(p), m \in Outermost, m \in Awaits(k)
  PROVE  /\ FramesOf(<<k, m>>, p) /\ Range(<<k, m>>) = {k, m} /\ <<k, m>> # <<>> /\ Head(<<k, m>>) = k /\ <<k, m>>[2] = m
<1>1. <<k, m>> \in Seq(LabelsOf(p)) /\ Len(<<k, m>>) = 2 /\ <<k, m>>[1] = k /\ <<k, m>>[2] = m OBVIOUS
<1>2. ASSUME NEW i \in 1..2, i < 2 PROVE <<k, m>>[i + 1] \in Awaits(<<k, m>>[i])
  <2>1. i = 1 /\ i + 1 = 2 BY <1>2
  <2> QED BY <1>1, <2>1
<1>3. <<k, m>>[Len(<<k, m>>)] \in Outermost BY <1>1
<1>4. FramesOf(<<k, m>>, p) BY <1>1, <1>2, <1>3 DEF FramesOf
<1> QED BY <1>1, <1>4, RangeTwo

\* The empty stack.
LEMMA NoFrame == ASSUME NEW p PROVE FramesOf(<<>>, p) /\ Range(<<>>) = {}
BY RangeEmpty DEF FramesOf

\* The cleanup begins.
LEMMA CleansUp ==
  ASSUME CleanUp, cmds = <<>>
  PROVE  /\ Frames' /\ Notes' /\ TopFits' /\ Top' = "close" /\ phase' = "closing" /\ ret' = "ok"
         /\ UNCHANGED <<mode, cmds, undo>> /\ Phases'
<1>1. stack' = <<"close", "closed">> /\ phase' = "closing" /\ ret' = "ok" /\ UNCHANGED <<mode, cmds, undo>>
  BY DEF CleanUp, Goto
<1>2. "close" \in LabelsOf("closing") /\ "closed" \in LabelsOf("closing") BY LabelsAre DEF CloseLabels
<1>3. "closed" \in Awaits("close") /\ "closed" \in Outermost BY AwaitsAre DEF CloseLabels, Outermost
<1>4. FramesOf(stack', phase') /\ Range(stack') = {"close", "closed"} /\ stack' # <<>> /\ Head(stack') = "close"
  BY <1>1, <1>2, <1>3, TwoFrames
<1>5. Frames' BY <1>4 DEF Frames
<1>6. Top' = "close" BY <1>4 DEF Top
<1>7. TopFits' BY <1>1, <1>6, Entered DEF TxLabels, RunLabels, AwaitLabels
<1>8. Notes'
  <2>1. Note("close")' /\ Note("closed")'
    BY DEF Note, Upped, Asked, SyncLabels, BlockLabels, UnblockLabels, ClearLabels, UpLabels, SetLabels
  <2> QED BY <1>4, <2>1 DEF Notes
<1>9. Phases' BY <1>1 DEF Phases
<1> QED BY <1>1, <1>5, <1>6, <1>7, <1>8, <1>9

\* The phase changes, or the latch before the node runs.
LEMMA PhaseMoves ==
  ASSUME IInv, NEW l \in StartLabels \cup {"closed"}, At(l),
         UNCHANGED <<kern, v6, owner, rt, arg, why, after, crashes, mode, cmds, undo>>, faults' \in 0..MaxFail,
         mg' \in Latches, ret' \in {"ok", "err"}, phase' \in {"off", "starting", "running", "closing", "retained"},
         phase' \in {"starting", "running"} => phase = "starting", Top' \notin TxLabels,
         Frames', TopFits', Notes', Phases',
         phase' = "running" => ~mg'.verified /\ Range(rt.pending) \cap ExitAdds = {} /\ (Cfg(rt.config).exit => mg'.exit)
  PROVE  IInv'
<1>1. Here(l) /\ Types BY HereIs DEF IInv
<1>2. l \notin TxLabels /\ l # "claim_write" BY DEF StartLabels, TxLabels
<1>3. Settled' BY <1>1 DEF Here, Settled
<1>4. Kernel' /\ OneDel' /\ Ownership' /\ Recovering' /\ Owed' = Range(rt.pending)
  <2>1. UNCHANGED <<kern, v6, owner, rt, crashes>> OBVIOUS
  <2> QED BY <1>2, <1>3, <2>1, Undisturbed
<1>5. Types' BY <1>1 DEF Types
<1>6. Latch' BY DEF Latch
<1>7. ExitOwed' BY <1>4 DEF ExitOwed
<1>8. ExitKnown' BY DEF ExitKnown, Cfg
<1> QED BY <1>4, <1>5, <1>6, <1>7, <1>8 DEF IInv, Kernel

\* What a start knows at each of its labels.
StartAt(l) ==
  /\ At(l) /\ Here(l) /\ Types /\ mg \in Latches /\ phase = "starting" /\ Range(Tail(stack)) = {} /\ arg \in Configs
  /\ Note(l) /\ AtTop(l) /\ ret \in {"ok", "err"} /\ cmds = <<>>
\* An action of the start has the facts of StartAt.
LEMMA StartIs == ASSUME IInv, NEW l \in StartLabels, At(l) PROVE StartAt(l)
<1>1. Here(l) /\ Types /\ mg \in Latches /\ ret \in {"ok", "err"} BY HereIs DEF IInv, Types
<1>2. phase = "starting"
  <2>1. phase \in PhasesOf("start") BY <1>1, Procs DEF Here
  <2> QED BY <2>1 DEF PhasesOf
<1>3. Range(Tail(stack)) = {} BY <1>1, UnderAre DEF Here
<1>4. arg \in Configs BY <1>1 DEF Here, Note, Asked, StartLabels
<1> QED BY <1>1, <1>2, <1>3, <1>4 DEF StartAt, Here

\* A start that fails.
LEMMA StartCleans ==
  ASSUME IInv, NEW l \in StartLabels, At(l), CleanUp,
         UNCHANGED <<kern, v6, owner, rt, arg, why, after, crashes>>, faults' \in 0..MaxFail, mg' \in Latches
  PROVE  IInv'
<1>1. StartAt(l) BY StartIs
<1>2. /\ Frames' /\ Notes' /\ TopFits' /\ Top' = "close" /\ phase' = "closing" /\ ret' = "ok"
      /\ UNCHANGED <<mode, cmds, undo>> /\ Phases' BY <1>1, CleansUp DEF StartAt
<1>3. Top' \notin TxLabels BY <1>2 DEF TxLabels
<1> QED BY <1>2, <1>3, PhaseMoves

\* A start goes on.
LEMMA StartGoes ==
  ASSUME IInv, NEW l \in StartLabels, At(l), NEW k, NEW m,
         \/ k = m /\ m \in {"start_set", "start_open"} /\ Goto(<<m>>)
         \/ <<k, m>> \in {<<"block", "start_blocked">>, <<"set", "start_applied">>, <<"unblock", "start_open">>} /\ Goto(<<k, m>>),
         UNCHANGED <<kern, v6, owner, rt, arg, why, after, crashes, phase>>, faults' \in 0..MaxFail, mg' \in Latches,
         rt.up, ~rt.recover,
         m = "start_open" => ~mg'.verified /\ mg'.exit = arg.exit /\ rt.config = arg /\ Range(rt.pending) \cap ExitAdds = {}
  PROVE  IInv'
<1>1. StartAt(l) /\ phase = "starting" BY StartIs DEF StartAt
<1>2. ret' = "ok" /\ UNCHANGED <<mode, cmds, undo>> /\ cmds' = <<>> /\ phase' = phase BY <1>1 DEF Goto, StartAt
<1>3. m \in LabelsOf("starting") /\ m \in Outermost /\ k \in LabelsOf("starting")
  BY LabelsAre DEF StartLabels, Outermost, BlockLabels, SetLabels, UnblockLabels
<1>4. k # m => m \in Awaits(k) BY AwaitsAre DEF BlockLabels, SetLabels, UnblockLabels
<1>5. /\ FramesOf(stack', "starting") /\ Range(stack') = {k, m} /\ stack' # <<>> /\ Head(stack') = k
      /\ k = "unblock" => stack'[2] = "start_open"
  <2>1. CASE k = m /\ m \in {"start_set", "start_open"} /\ Goto(<<m>>)
    <3>1. stack' = <<m>> BY <2>1 DEF Goto
    <3> QED BY <1>3, <2>1, <3>1, OneFrame
  <2>2. CASE /\ <<k, m>> \in {<<"block", "start_blocked">>, <<"set", "start_applied">>, <<"unblock", "start_open">>}
             /\ Goto(<<k, m>>)
    <3>1. stack' = <<k, m>> /\ k # m /\ (k = "unblock" => m = "start_open") BY <2>2 DEF Goto
    <3> QED BY <1>3, <1>4, <3>1, TwoFrames
  <2> QED BY <2>1, <2>2
<1>6. Frames' BY <1>1, <1>2, <1>5 DEF Frames
<1>7. Top' = k BY <1>5 DEF Top
<1>8. k \in {"start_set", "start_open", "block", "set", "unblock"} OBVIOUS
<1>9. TopFits' /\ Top' \notin TxLabels BY <1>2, <1>5, <1>7, <1>8 DEF TopFits, AtTop, TxLabels, RunLabels
<1>10. ~rt'.recover /\ rt'.up /\ arg' \in Configs /\ phase' # "running" BY <1>1, <1>2 DEF StartAt
<1>11. m = "start_open" => /\ ~mg'.verified /\ mg'.exit = arg'.exit
                           /\ rt'.config = arg' /\ Range(rt'.pending) \cap ExitAdds = {} OBVIOUS
<1>12. Note(m)'
  <2>1. m \in {"start_set", "start_open", "start_blocked", "start_applied"} OBVIOUS
  <2> QED BY <1>10, <1>11, <2>1 DEF Note, Upped, BlockLabels, UnblockLabels, ClearLabels, UpLabels, SetLabels
<1>13. Note(k)'
  <2>1. CASE k = m BY <1>12, <2>1
  <2>2. CASE k # m
    <3>1. k \in {"block", "set", "unblock"} BY <2>2
    <3> QED BY <1>10, <3>1 DEF Note, Upped, BlockLabels, UnblockLabels, ClearLabels, UpLabels, SetLabels, Asked, SyncLabels
  <2> QED BY <2>1, <2>2
<1>14. Notes' BY <1>5, <1>12, <1>13 DEF Notes
<1>15. Phases' BY <1>1, <1>2 DEF Phases
<1> QED BY <1>1, <1>2, <1>6, <1>9, <1>14, <1>15, PhaseMoves

\* The start goes on when the router is up.
LEMMA StepStartUp == ASSUME IInv, StartUp PROVE IInv'
<1> DEFINE l == "start_up"
<1>1. At(l) /\ UNCHANGED <<kern, v6, owner, rt, mg, arg, why, after, faults, crashes>> /\ l \in StartLabels
  BY DEF StartUp, kernelVars, callVars, StartLabels
<1>2. StartAt(l) BY <1>1, StartIs
<1>3. mg' \in Latches /\ faults' \in 0..MaxFail BY <1>1, <1>2 DEF StartAt, Types
<1>4. CASE CleanUp BY <1>1, <1>3, <1>4, StartCleans
<1>5. CASE /\ ret = "ok" /\ UNCHANGED phase
           /\ Goto(IF arg.exit /\ arg.lan THEN <<"block", "start_blocked">> ELSE <<"start_set">>)
  <2>1. rt.up /\ ~rt.recover BY <1>2, <1>5 DEF StartAt, AtTop
  <2>2. CASE arg.exit /\ arg.lan
    <3>1. Goto(<<"block", "start_blocked">>) BY <1>5, <2>2
    <3> QED BY <1>1, <1>3, <1>5, <2>1, <3>1, StartGoes
  <2>3. CASE ~(arg.exit /\ arg.lan)
    <3>1. Goto(<<"start_set">>) BY <1>5, <2>3
    <3> QED BY <1>1, <1>3, <1>5, <2>1, <3>1, StartGoes
  <2> QED BY <2>2, <2>3
<1> QED BY <1>4, <1>5 DEF StartUp

\* The start blocks before it applies a configuration that denies LAN access.
LEMMA StepStartBlocked == ASSUME IInv, StartBlocked PROVE IInv'
<1> DEFINE l == "start_blocked"
<1>1. /\ At(l) /\ UNCHANGED <<kern, v6, owner, rt, arg, why, after, faults, crashes>> /\ l \in StartLabels
      /\ mg' = [mg EXCEPT !.attempted = TRUE, !.verified = (ret = "ok"), !.reasons = {"transition"}]
  BY DEF StartBlocked, kernelVars, callVars, StartLabels
<1>2. StartAt(l) BY <1>1, StartIs
<1>3. mg' \in Latches /\ faults' \in 0..MaxFail
  <2>1. (ret = "ok") \in BOOLEAN /\ {"transition"} \in SUBSET Reasons BY DEF Reasons
  <2> QED BY <1>1, <1>2, <2>1 DEF StartAt, Types, Latches
<1>4. rt.up /\ ~rt.recover BY <1>2 DEF StartAt, Note
<1>5. CASE CleanUp BY <1>1, <1>3, <1>5, StartCleans
<1>6. CASE Goto(<<"start_set">>) /\ UNCHANGED phase BY <1>1, <1>3, <1>4, <1>6, StartGoes
<1> QED BY <1>5, <1>6 DEF StartBlocked

\* The start takes the bypass and applies the configuration.
LEMMA StepStartSet == ASSUME IInv, StartSet PROVE IInv'
<1> DEFINE l == "start_set"
<1>1. At(l) /\ UNCHANGED <<kern, v6, owner, rt, arg, why, after, crashes>> /\ l \in StartLabels
  BY DEF StartSet, kernelVars, callVars, StartLabels
<1>2. StartAt(l) /\ mg \in Latches /\ Types BY <1>1, StartIs DEF StartAt
<1>3. faults' \in 0..MaxFail BY <1>2, FaultsAre DEF StartSet
<1>4. rt.up /\ ~rt.recover BY <1>2 DEF StartAt, Note
<1>5. CASE mg' = (IF arg.exit THEN Acquire(mg) ELSE mg) /\ Goto(<<"set", "start_applied">>) /\ UNCHANGED <<phase, faults>>
  <2>1. mg' \in Latches BY <1>2, <1>5, BypassIs
  <2>2. Goto(<<"set", "start_applied">>) /\ UNCHANGED phase BY <1>5
  <2>3. UNCHANGED <<kern, v6, owner, rt, arg, why, after, crashes, phase>> BY <1>1, <2>2
  <2>4. <<"set", "start_applied">> \in {<<"block", "start_blocked">>, <<"set", "start_applied">>, <<"unblock", "start_open">>} OBVIOUS
  <2>5. "start_applied" # "start_open" OBVIOUS
  <2> QED BY <1>1, <1>3, <1>4, <2>1, <2>2, <2>3, <2>4, <2>5, StartGoes, Zenon
<1>6. CASE CleanUp /\ UNCHANGED mg BY <1>1, <1>2, <1>3, <1>6, StartCleans
<1> QED BY <1>5, <1>6 DEF StartSet

\* The start removes the block when the configuration is applied.
LEMMA StepStartApplied == ASSUME IInv, StartApplied PROVE IInv'
<1> DEFINE l == "start_applied"
<1>1. /\ At(l) /\ UNCHANGED <<kern, v6, owner, rt, arg, why, after, faults, crashes>> /\ l \in StartLabels
      /\ mg' = [mg EXCEPT !.exit = arg.exit, !.verified = @ /\ ret = "err"]
  BY DEF StartApplied, kernelVars, callVars, StartLabels
<1>2. StartAt(l) BY <1>1, StartIs
<1>3. mg' \in Latches /\ faults' \in 0..MaxFail /\ mg'.exit = arg.exit /\ mg'.verified = (mg.verified /\ ret = "err")
  <2>1. arg.exit \in BOOLEAN /\ (mg.verified /\ ret = "err") \in BOOLEAN BY <1>2, RouterAssumption DEF StartAt
  <2> QED BY <1>1, <1>2, <2>1 DEF StartAt, Types, Latches
<1>4. CASE ret = "err"
  <2>1. CleanUp BY <1>4 DEF StartApplied
  <2> QED BY <1>1, <1>3, <2>1, StartCleans
<1>5. CASE ret = "ok"
  <2>1. rt.config = arg /\ rt.pending = <<>> /\ rt.up /\ ~rt.recover BY <1>2, <1>5 DEF StartAt, AtTop
  <2>2. ~mg'.verified /\ mg'.exit = arg.exit /\ Range(rt.pending) \cap ExitAdds = {} BY <1>3, <1>5, <2>1, RangeEmpty
  <2>3. UNCHANGED phase BY <1>5 DEF StartApplied
  <2>4. CASE mg.verified
    <3>1. Goto(<<"unblock", "start_open">>) BY <1>5, <2>4 DEF StartApplied
    <3> QED BY <1>1, <1>3, <2>1, <2>2, <2>3, <3>1, StartGoes
  <2>5. CASE ~mg.verified
    <3>1. Goto(<<"start_open">>) BY <1>5, <2>5 DEF StartApplied
    <3> QED BY <1>1, <1>3, <2>1, <2>2, <2>3, <3>1, StartGoes
  <2> QED BY <2>4, <2>5
<1> QED BY <1>2, <1>4, <1>5 DEF StartAt

\* The node runs: no block, and an exit node the latch knows of.
LEMMA StepStartOpen == ASSUME IInv, StartOpen PROVE IInv'
<1> DEFINE l == "start_open"
<1>1. At(l) /\ UNCHANGED <<kern, v6, owner, rt, arg, why, after, faults, crashes>> /\ l \in StartLabels
  BY DEF StartOpen, kernelVars, callVars, StartLabels
<1>2. StartAt(l) BY <1>1, StartIs
<1>3. faults' \in 0..MaxFail BY <1>1, <1>2 DEF StartAt, Types
<1>4. CASE mg' = [mg EXCEPT !.verified = TRUE] /\ CleanUp
  <2>1. mg' \in Latches BY <1>2, <1>4 DEF StartAt, Latches
  <2> QED BY <1>1, <1>3, <1>4, <2>1, StartCleans
<1>5. CASE mg' = [mg EXCEPT !.attempted = FALSE, !.reasons = {}] /\ phase' = "running" /\ Goto(<<>>)
  <2>1. mg' \in Latches /\ mg'.verified = mg.verified /\ mg'.exit = mg.exit BY <1>2, <1>5 DEF StartAt, Latches
  <2>2. stack' = <<>> /\ ret' = "ok" /\ UNCHANGED <<mode, cmds, undo>> /\ cmds' = <<>> BY <1>2, <1>5 DEF Goto, StartAt
  <2>3. Frames' /\ Notes' BY <2>2, NoFrame DEF Frames, Notes
  <2>4. Top' = "idle" BY <2>2 DEF Top
  <2>5. TopFits' /\ Top' \notin TxLabels BY <2>2, <2>4, Entered DEF TxLabels, RunLabels, AwaitLabels
  <2>6. /\ rt.up /\ ~rt.recover /\ rt.config = arg /\ Range(rt.pending) \cap ExitAdds = {} /\ ~mg.verified
        /\ mg.exit = arg.exit BY <1>2 DEF StartAt, Note
  <2>7. Phases' BY <1>1, <1>5, <2>6 DEF Phases
  <2>8. Cfg(rt.config).exit => mg'.exit BY <1>2, <2>1, <2>6, RouterAssumption DEF Cfg, StartAt
  <2> QED BY <1>1, <1>2, <1>3, <1>5, <2>1, <2>2, <2>3, <2>5, <2>6, <2>7, <2>8, PhaseMoves DEF StartAt
<1> QED BY <1>4, <1>5 DEF StartOpen

\* The owner is off, or retains a router whose close has failed.
LEMMA StepClosed == ASSUME IInv, Closed PROVE IInv'
<1> DEFINE l == "closed"
<1>1. /\ At(l) /\ UNCHANGED <<kern, v6, owner, rt, arg, why, after, faults, crashes>>
      /\ stack' = <<>> /\ ret' = ret /\ UNCHANGED <<mode, cmds, undo>>
  BY DEF Closed, kernelVars, callVars
<1>2. Here(l) /\ Types /\ mg \in Latches BY <1>1, HereIs DEF IInv, Types
<1>3. faults' \in 0..MaxFail /\ ret' \in {"ok", "err"} /\ cmds' = <<>> BY <1>1, <1>2 DEF Types, Here
<1>4. Frames' /\ Notes' BY <1>1, NoFrame DEF Frames, Notes
<1>5. Top' = "idle" BY <1>1 DEF Top
<1>6. TopFits' /\ Top' \notin TxLabels BY <1>3, <1>5, Entered DEF TxLabels, RunLabels, AwaitLabels
<1>7. mg' \in Latches /\ phase' \in {"off", "retained"}
  <2>1. CASE ret = "err" BY <1>2, <2>1 DEF Closed
  <2>2. CASE ret # "err"
    <3> DEFINE b == (IF mg.exit THEN ReleaseBypass(mg) ELSE mg).bypass
    <3>1. b \in 0..MaxBypass
      <4>1. (IF mg.exit THEN ReleaseBypass(mg) ELSE mg) \in Latches BY <1>2, BypassIs
      <4> QED BY <4>1 DEF Latches
    <3>2. mg' = [FreshManaged EXCEPT !.bypass = b] /\ phase' = "off" BY <2>2 DEF Closed
    <3> HIDE DEF b
    <3> QED BY <3>1, <3>2 DEF FreshManaged, Latches
  <2> QED BY <2>1, <2>2
<1>8. Phases'
  <2>1. phase' = "off" => ret = "ok" BY <1>2 DEF Closed, Types
  <2>2. ret = "ok" => ~rt.owned /\ (crashes = 0 => kern = {}) BY <1>2 DEF Here, AtTop
  <2> QED BY <1>1, <1>7, <2>1, <2>2 DEF Phases
<1> QED BY <1>1, <1>3, <1>4, <1>6, <1>7, <1>8, PhaseMoves

-----------------------------------------------------------------------------
(* Between calls *)

\* Between calls nothing runs, and what is owed is what is kept for a retry.
LEMMA IdleIs ==
  ASSUME IInv, Idle
  PROVE  Top = "idle" /\ cmds = <<>> /\ Owed = Range(rt.pending) /\ Once(rt.pending) /\ Types
<1>1. Top = "idle" BY DEF Idle, Top
<1>2. cmds = <<>> BY <1>1 DEF IInv, TopFits, AtTop, TxLabels, RunLabels
<1>3. Owed = Range(rt.pending) BY <1>1, <1>2, RangeEmpty DEF Owed, TxLabels
<1> QED BY <1>1, <1>2, <1>3 DEF IInv, OneDel

\* A call begins: kernel and router stay.
LEMMA IdleKeeps ==
  ASSUME IInv, Idle, UNCHANGED <<kern, v6, owner, rt, crashes, mode, cmds, undo>>, Top' \notin TxLabels,
         phase' \in {"starting", "running"} => phase \in {"starting", "running"}
  PROVE  Kernel' /\ OneDel' /\ Ownership' /\ Recovering' /\ Owed' = Range(rt.pending)
<1>1. Top = "idle" /\ cmds = <<>> /\ Owed = Range(rt.pending) /\ Once(rt.pending) /\ Types BY IdleIs
<1>2. Settled' BY <1>1 DEF Settled
<1>3. Once(rt'.pending) BY <1>1
<1>4. Owed' = Range(rt.pending) /\ OneDel' BY <1>2, <1>3, SettledOwes
<1>5. Kernel' BY <1>1, <1>4, KernelKeeps DEF IInv, Kernel
<1>6. Ownership' /\ Recovering' BY <1>1 DEF IInv, Ownership, Recovering
<1> QED BY <1>4, <1>5, <1>6

\* A call of the running node begins.
LEMMA IdleCalls ==
  ASSUME IInv, Idle, phase = "running", UNCHANGED <<kern, v6, owner, rt, mg, phase, faults, crashes, mode, cmds, undo>>,
         ret' = "ok", arg' \in Configs \cup {EmptyConfig}, why' \in Reasons, after' \subseteq Reasons,
         \/ stack' = <<"sync">> /\ arg' \in Configs
         \/ stack' = <<"ensure", "sync">> /\ arg' \in Configs
         \/ stack' = <<"ensure">>
  PROVE  IInv'
<1>1. Top = "idle" /\ cmds = <<>> /\ Types BY IdleIs
<1>2. /\ "sync" \in LabelsOf("running") /\ "ensure" \in LabelsOf("running")
      /\ "sync" \in Outermost /\ "ensure" \in Outermost /\ "sync" \in Awaits("ensure")
  BY LabelsAre, AwaitsAre DEF SyncLabels, EnsureLabels, Outermost
<1>3. /\ FramesOf(stack', "running") /\ stack' # <<>> /\ Head(stack') \in {"sync", "ensure"} /\ Range(stack') \subseteq {"sync", "ensure"}
      /\ "sync" \in Range(stack') => arg' \in Configs
  <2>1. CASE stack' = <<"sync">> /\ arg' \in Configs BY <1>2, <2>1, OneFrame
  <2>2. CASE stack' = <<"ensure", "sync">> /\ arg' \in Configs BY <1>2, <2>2, TwoFrames
  <2>3. CASE stack' = <<"ensure">> BY <1>2, <2>3, OneFrame
  <2> QED BY <2>1, <2>2, <2>3
<1>4. Frames' BY <1>3 DEF Frames
<1>5. Top' \in {"sync", "ensure"} BY <1>3 DEF Top
<1>6. TopFits' BY <1>1, <1>5 DEF TopFits, AtTop, TxLabels, RunLabels
<1>7. Notes'
  <2>1. Note("ensure")'
    BY DEF Note, Upped, Asked, SyncLabels, BlockLabels, UnblockLabels, ClearLabels, UpLabels, SetLabels
  <2>2. arg' \in Configs => Note("sync")'
    BY DEF Note, Upped, Asked, SyncLabels, BlockLabels, UnblockLabels, ClearLabels, UpLabels, SetLabels
  <2> QED BY <1>3, <2>1, <2>2 DEF Notes
<1>8. Kernel' /\ OneDel' /\ Ownership' /\ Recovering' /\ Owed' = Range(rt.pending) BY <1>5, IdleKeeps DEF TxLabels
<1>9. Owed = Range(rt.pending) BY IdleIs
<1>10. Types' BY <1>1 DEF Types
<1>11. Latch' BY DEF IInv, Latch, Blocked, BlockActive
<1>12. ExitOwed' BY <1>8, <1>9 DEF IInv, ExitOwed
<1>13. ExitKnown' BY <1>1 DEF IInv, ExitKnown, Cfg
<1>14. Phases' BY DEF IInv, Phases
<1> QED BY <1>4, <1>6, <1>7, <1>8, <1>10, <1>11, <1>12, <1>13, <1>14 DEF IInv, Kernel

\* A sync begins.
LEMMA StepSync == ASSUME IInv, NEW c \in Configs, NEW rs \in {{}, {"map"}, {"link"}}, Sync(c, rs) PROVE IInv'
<1> DEFINE refresh == "link" \in rs /\ c.exit /\ c.lan
<1>1. /\ Idle /\ phase = "running" /\ arg' = c /\ after' = rs /\ why' = (IF refresh THEN "link" ELSE "transition")
      /\ Goto(IF refresh THEN <<"ensure", "sync">> ELSE <<"sync">>)
      /\ UNCHANGED <<kern, v6, owner, rt, mg, phase, faults, crashes>>
  BY DEF Sync, kernelVars
<1> HIDE DEF refresh
<1>2. arg' \in Configs /\ why' \in Reasons /\ after' \subseteq Reasons BY <1>1 DEF Reasons
<1>3. ret' = "ok" /\ UNCHANGED <<mode, cmds, undo>> BY <1>1 DEF Goto
<1>4. stack' = <<"sync">> \/ stack' = <<"ensure", "sync">> BY <1>1 DEF Goto
<1>5. UNCHANGED <<kern, v6, owner, rt, mg, phase, faults, crashes, mode, cmds, undo>> BY <1>1, <1>3
<1>6. Idle /\ phase = "running" BY <1>1
<1> HIDE DEF refresh
<1> QED BY <1>2, <1>3, <1>4, <1>5, <1>6, IdleCalls

\* A reason to block arises.
LEMMA StepEngage == ASSUME IInv, NEW r \in Reasons, Engage(r) PROVE IInv'
<1>1. Idle /\ phase = "running" /\ UNCHANGED <<kern, v6, owner, rt, mg, phase, faults, crashes, mode, cmds, undo>>
  BY DEF Engage, kernelVars, Goto
<1>2. stack' = <<"ensure">> /\ ret' = "ok" BY DEF Engage, Goto
<1>3. arg' \in Configs \cup {EmptyConfig} /\ why' \in Reasons /\ after' \subseteq Reasons BY DEF Engage, IInv, Types
<1> QED BY <1>1, <1>2, <1>3, IdleCalls

\* The close begins.
LEMMA StepCloseOwner == ASSUME IInv, CloseOwner PROVE IInv'
<1>1. Idle /\ CleanUp /\ UNCHANGED <<kern, v6, owner, rt, mg, arg, why, after, faults, crashes>>
  BY DEF CloseOwner, kernelVars, callVars
<1>2. Top = "idle" /\ cmds = <<>> /\ Types BY <1>1, IdleIs
<1>3. /\ Frames' /\ Notes' /\ TopFits' /\ Top' = "close" /\ phase' = "closing" /\ ret' = "ok"
      /\ UNCHANGED <<mode, cmds, undo>> /\ Phases'
  BY <1>1, <1>2, CleansUp
<1>4. Kernel' /\ OneDel' /\ Ownership' /\ Recovering' BY <1>1, <1>3, IdleKeeps DEF TxLabels
<1>5. Types' BY <1>1, <1>2, <1>3 DEF Types
<1>6. Latch' /\ ExitOwed' /\ ExitKnown' BY <1>3 DEF Latch, ExitOwed, ExitKnown
<1> QED BY <1>3, <1>4, <1>5, <1>6 DEF IInv, Kernel

\* A fresh router owes nothing and wants nothing.
LEMMA FreshIs ==
  /\ FreshRouter \in Routers /\ FreshManaged \in Latches /\ Range(FreshRouter.pending) = {} /\ Once(FreshRouter.pending)
  /\ ~FreshRouter.up /\ ~FreshRouter.owned /\ ~FreshRouter.recover /\ ~FreshRouter.blocked
  /\ FreshRouter.pending = <<>> /\ FreshRouter.config = None /\ ~FreshManaged.verified
<1>1. <<>> \in Seq(Commands) OBVIOUS
<1>2. 0 \in 0..MaxBypass BY RouterAssumption
<1>3. FreshRouter \in Routers BY <1>1 DEF FreshRouter, Routers
<1>4. FreshManaged \in Latches BY <1>2 DEF FreshManaged, Latches
<1>5. FreshRouter.pending = <<>> BY DEF FreshRouter
<1>6. Range(<<>>) = {} /\ Once(<<>>) BY RangeEmpty DEF Once
<1> QED BY <1>3, <1>4, <1>5, <1>6 DEF FreshRouter, FreshManaged

\* The kernel is as a fresh router wants it: empty, or left by a dead process.
LEMMA FreshKernel ==
  ASSUME rt' = FreshRouter, cmds' = <<>>, Top' \notin TxLabels, crashes' = 0 => kern' = {}, NoV6'
  PROVE  Kernel' /\ OneDel' /\ Recovering'
<1>1. Settled' BY DEF Settled
<1>2. Owed' = {} /\ OneDel'
  <2>1. Once(rt'.pending) /\ Range(rt'.pending) = {} BY FreshIs
  <2> QED BY <1>1, <2>1, SettledOwes
<1>3. Image' = {} BY FreshIs DEF Image, ImageOf, Cfg, EmptyConfig
<1>4. OwedFits' /\ DelBlock' BY <1>2 DEF OwedFits, DelBlock
<1>5. Upper' /\ BlockUpper' BY DEF Upper, BlockUpper
<1>6. Lower' BY <1>3 DEF Lower
<1>7. Recovering' BY FreshIs DEF Recovering
<1> QED BY <1>2, <1>4, <1>5, <1>6, <1>7 DEF Kernel

\* A start begins with a fresh router.
LEMMA StepStart == ASSUME IInv, NEW c \in Configs, Start(c) PROVE IInv'
<1>1. /\ Idle /\ phase = "off" /\ phase' = "starting" /\ rt' = FreshRouter /\ mg' = FreshManaged /\ arg' = c
      /\ stack' = <<"up", "start_up">> /\ ret' = "ok"
      /\ UNCHANGED <<kern, v6, owner, why, after, faults, crashes, mode, cmds, undo>>
  BY DEF Start, kernelVars, Goto
<1>2. Top = "idle" /\ cmds = <<>> /\ Types BY <1>1, IdleIs
<1>3. /\ "up" \in LabelsOf("starting") /\ "start_up" \in LabelsOf("starting") /\ "start_up" \in Outermost /\ "start_up" \in Awaits("up")
  BY LabelsAre, AwaitsAre DEF UpLabels, StartLabels, Outermost
<1>4. FramesOf(stack', phase') /\ Range(stack') = {"up", "start_up"} /\ stack' # <<>> /\ Head(stack') = "up"
  BY <1>1, <1>3, TwoFrames
<1>5. Frames' BY <1>4 DEF Frames
<1>6. Top' = "up" BY <1>4 DEF Top
<1>7. TopFits' BY <1>1, <1>2, <1>6, Entered DEF TxLabels, RunLabels, AwaitLabels
<1>8. NoV6' BY <1>1 DEF IInv, NoV6
<1>9. Kernel' /\ OneDel' /\ Recovering'
  <2>1. crashes' = 0 => kern' = {} BY <1>1 DEF IInv, Phases
  <2> QED BY <1>1, <1>2, <1>6, <1>8, <2>1, FreshKernel DEF TxLabels
<1>10. Ownership' BY <1>1, <1>2, FreshIs DEF IInv, Ownership, Phases
<1>11. Notes'
  <2>1. Note("up")' BY <1>1, FreshIs, UpNote DEF UpLabels
  <2>2. arg' \in Configs BY <1>1
  <2>3. Range(stack') \subseteq {"start_up"} \cup UpLabels /\ Range(stack') \cap UpLabels = {"up"} BY <1>4 DEF UpLabels
  <2> QED BY <2>1, <2>2, <2>3, UpNotes
<1>12. Types' BY <1>1, <1>2, FreshIs DEF Types
<1>13. Latch' /\ ExitOwed' /\ ExitKnown' /\ Phases' BY <1>1 DEF Latch, ExitOwed, ExitKnown, Phases
<1> QED BY <1>5, <1>7, <1>9, <1>10, <1>11, <1>12, <1>13 DEF IInv, Kernel

\* The process dies: what it recorded is gone, and so is the claim that nothing is left.
LEMMA StepCrash == ASSUME IInv, Crash PROVE IInv'
<1>1. /\ crashes < MaxCrash /\ crashes' = crashes + 1 /\ kern' = {i \in kern : i[1] \in {"rule", "block", "throw"}}
      /\ owner' = (IF owner \in {"live", "left"} THEN "dead" ELSE owner) /\ rt' = FreshRouter /\ mg' = FreshManaged /\ phase' = "off"
      /\ stack' = <<>> /\ cmds' = <<>> /\ undo' = <<>> /\ mode' = "all" /\ ret' = "ok" /\ after' = {}
      /\ UNCHANGED <<v6, arg, why, faults>>
  BY DEF Crash
<1>2. Types /\ Ownership /\ NoV6 BY DEF IInv
<1>3. crashes' \in 0..MaxCrash /\ crashes' # 0 /\ crashes' > 0 BY <1>1, <1>2, RouterAssumption DEF Types
<1>4. Frames' /\ Notes' BY <1>1, NoFrame DEF Frames, Notes
<1>5. Top' = "idle" BY <1>1 DEF Top
<1>6. TopFits' BY <1>1, <1>5, Entered DEF TxLabels, RunLabels, AwaitLabels
<1>7. NoV6' BY <1>1, <1>2 DEF NoV6
<1>8. Kernel' /\ OneDel' /\ Recovering' BY <1>1, <1>3, <1>5, <1>7, FreshKernel DEF TxLabels
<1>9. Ownership' BY <1>1, <1>2, <1>3, FreshIs DEF Types, Ownership
<1>10. <<>> \in Seq(Commands) OBVIOUS
<1>11. Types' BY <1>1, <1>2, <1>3, <1>10, FreshIs DEF Types
<1>12. Latch' /\ ExitOwed' /\ ExitKnown' BY <1>1 DEF Latch, ExitOwed, ExitKnown
<1>13. Phases' BY <1>1, <1>3, FreshIs DEF Phases
<1> QED BY <1>4, <1>6, <1>8, <1>9, <1>11, <1>12, <1>13 DEF IInv, Kernel

\* The initial states.
LEMMA Initially == ASSUME Init PROVE IInv
<1>1. /\ kern = {} /\ owner = "none" /\ v6 \in BOOLEAN /\ rt = FreshRouter /\ mg = FreshManaged /\ phase = "off"
      /\ stack = <<>> /\ mode = "all" /\ cmds = <<>> /\ undo = <<>> /\ ret = "ok"
      /\ arg = EmptyConfig /\ why = "transition" /\ after = {} /\ faults = 0 /\ crashes = 0
  BY RouterAssumption DEF Init
<1>2. Top = "idle" BY <1>1 DEF Top
<1>3. Frames /\ Notes BY <1>1, NoFrame DEF Frames, Notes
<1>4. TopFits BY <1>1, <1>2 DEF TopFits, AtTop, TxLabels, RunLabels
<1>5. Owed = {} BY <1>1, <1>2, FreshIs DEF Owed
<1>6. OneDel BY <1>1, FreshIs DEF OneDel
<1>7. OwedFits /\ DelBlock /\ Upper /\ BlockUpper /\ Lower /\ NoV6 BY <1>1, <1>5 DEF OwedFits, DelBlock, Upper, BlockUpper, Lower, NoV6
<1>8. Ownership /\ Recovering /\ Phases BY <1>1, FreshIs DEF Ownership, Recovering, Phases
<1>9. Latch /\ ExitOwed /\ ExitKnown BY <1>1 DEF Latch, ExitOwed, ExitKnown
<1>10. <<>> \in Seq(Commands) /\ 0 \in 0..MaxFail /\ 0 \in 0..MaxCrash BY RouterAssumption
<1>11. Types BY <1>1, <1>10, FreshIs DEF Types, Reasons
<1> QED BY <1>3, <1>4, <1>6, <1>7, <1>8, <1>9, <1>11 DEF IInv

-----------------------------------------------------------------------------
(* Running a command *)

\* Each deletion of a block rule occurs once, also in what is left,
LEMMA OnceTail ==
  ASSUME NEW s \in Seq(Commands), s # <<>>, Once(s)
  PROVE  /\ Once(Tail(s)) /\ \A i \in Blocks : Head(s) = <<"del", i>> => <<"del", i>> \notin Range(Tail(s))
<1>1. /\ Len(s) \in Nat /\ Len(s) >= 1 /\ DOMAIN s = 1..Len(s) /\ DOMAIN Tail(s) = 1..(Len(s) - 1)
      /\ \A i \in 1..(Len(s) - 1) : Tail(s)[i] = s[i + 1]
      /\ Head(s) = s[1] OBVIOUS
<1>2. \A i \in 1..(Len(s) - 1) : i + 1 \in DOMAIN s /\ i + 1 # 1 BY <1>1
<1>3. 1 \in DOMAIN s BY <1>1
<1>4. Once(Tail(s))
  <2>1. SUFFICES ASSUME NEW i \in DOMAIN Tail(s), NEW j \in DOMAIN Tail(s),
                        Tail(s)[i] = Tail(s)[j], Tail(s)[i][1] = "del", Tail(s)[i][2] \in Blocks PROVE i = j
    BY DEF Once
  <2>2. i + 1 \in DOMAIN s /\ j + 1 \in DOMAIN s /\ Tail(s)[i] = s[i + 1] /\ Tail(s)[j] = s[j + 1] BY <1>1, <1>2
  <2>3. i + 1 = j + 1 BY <2>1, <2>2 DEF Once
  <2>4. i \in Nat /\ j \in Nat BY <1>1
  <2> QED BY <2>3, <2>4
<1>5. ASSUME NEW b \in Blocks, Head(s) = <<"del", b>>, <<"del", b>> \in Range(Tail(s)) PROVE FALSE
  <2>1. PICK i \in DOMAIN Tail(s) : Tail(s)[i] = <<"del", b>> BY <1>5 DEF Range
  <2>2. i + 1 \in DOMAIN s /\ i + 1 # 1 /\ s[i + 1] = s[1] /\ s[1][1] = "del" /\ s[1][2] \in Blocks BY <1>1, <1>2, <1>5, <2>1
  <2> QED BY <1>3, <2>2 DEF Once
<1> QED BY <1>4, <1>5

\* with a new first element,
LEMMA OnceCons ==
  ASSUME NEW s \in Seq(Commands), Once(s), NEW x \in Commands, x[1] = "del" /\ x[2] \in Blocks => x \notin Range(s)
  PROVE  Once(<<x>> \o s)
<1> DEFINE t == <<x>> \o s
<1>1. /\ Len(s) \in Nat /\ DOMAIN s = 1..Len(s) /\ DOMAIN t = 1..(Len(s) + 1) /\ t[1] = x
      /\ \A i \in 1..(Len(s) + 1) : i # 1 => t[i] = s[i - 1] OBVIOUS
<1>2. \A i \in DOMAIN t : i # 1 => i - 1 \in DOMAIN s BY <1>1
<1> HIDE DEF t
<1>3. ASSUME NEW i \in DOMAIN t, NEW j \in DOMAIN t, t[i] = t[j], t[i][1] = "del", t[i][2] \in Blocks PROVE i = j
  <2>1. CASE i = 1 /\ j # 1
    <3>1. x = s[j - 1] /\ j - 1 \in DOMAIN s BY <1>1, <1>2, <1>3, <2>1
    <3>2. x \in Range(s) BY <3>1 DEF Range
    <3> QED BY <1>1, <1>3, <2>1, <3>2
  <2>2. CASE i # 1 /\ j = 1
    <3>1. x = s[i - 1] /\ i - 1 \in DOMAIN s BY <1>1, <1>2, <1>3, <2>2
    <3>2. x \in Range(s) BY <3>1 DEF Range
    <3> QED BY <1>1, <1>3, <2>2, <3>2
  <2>3. CASE i # 1 /\ j # 1
    <3>1. i - 1 \in DOMAIN s /\ j - 1 \in DOMAIN s /\ t[i] = s[i - 1] /\ t[j] = s[j - 1] BY <1>1, <1>2, <2>3
    <3>2. i - 1 = j - 1 BY <1>3, <3>1 DEF Once
    <3>3. i \in Nat /\ j \in Nat BY <1>1
    <3> QED BY <3>2, <3>3
  <2> QED BY <2>1, <2>2, <2>3
<1>4. Once(t) BY <1>3 DEF Once
<1> QED BY <1>4 DEF t

\* and with a new last one.
LEMMA OnceAppend ==
  ASSUME NEW s \in Seq(Commands), Once(s), NEW x \in Commands, x[1] = "del" /\ x[2] \in Blocks => x \notin Range(s)
  PROVE  Once(Append(s, x))
<1> DEFINE t == Append(s, x)
           n == Len(s) + 1
<1>1. /\ Len(s) \in Nat /\ DOMAIN s = 1..Len(s) /\ DOMAIN t = 1..(Len(s) + 1) /\ t[n] = x
      /\ \A i \in 1..(Len(s) + 1) : i # n => t[i] = s[i] OBVIOUS
<1>2. \A i \in DOMAIN t : i # n => i \in DOMAIN s BY <1>1
<1> HIDE DEF t, n
<1>3. ASSUME NEW i \in DOMAIN t, NEW j \in DOMAIN t, t[i] = t[j], t[i][1] = "del", t[i][2] \in Blocks PROVE i = j
  <2>1. CASE i = n /\ j # n
    <3>1. x = s[j] /\ j \in DOMAIN s BY <1>1, <1>2, <1>3, <2>1
    <3>2. x \in Range(s) BY <3>1 DEF Range
    <3> QED BY <1>1, <1>3, <2>1, <3>2
  <2>2. CASE i # n /\ j = n
    <3>1. x = s[i] /\ i \in DOMAIN s BY <1>1, <1>2, <1>3, <2>2
    <3>2. x \in Range(s) BY <3>1 DEF Range
    <3> QED BY <1>1, <1>3, <2>2, <3>2
  <2>3. CASE i # n /\ j # n
    <3>1. i \in DOMAIN s /\ j \in DOMAIN s /\ t[i] = s[i] /\ t[j] = s[j] BY <1>1, <1>2, <2>3
    <3> QED BY <1>3, <3>1 DEF Once
  <2> QED BY <2>1, <2>2, <2>3
<1>4. Once(t) BY <1>3 DEF Once
<1> QED BY <1>4 DEF t

\* What is wanted is no block rule, and what is not up wants nothing.
LEMMA WantedIs ==
  ASSUME IInv PROVE Image \cap Blocks = {} /\ Wanted \cap Blocks = {} /\ (~rt.up => Image = {} /\ Wanted = {})
<1>1. Image \cap Blocks = {} BY DEF Image, ImageOf, Blocks
<1>2. Base \cap Blocks = {} BY DEF Base, Blocks, Link
<1>3. ~rt.up => rt.config = None BY DEF IInv, Recovering
<1>4. ~rt.up => Image = {} BY <1>3 DEF Image, ImageOf, Cfg, EmptyConfig
<1> QED BY <1>1, <1>2, <1>4 DEF Wanted

\* A command has added an item.
LEMMA KernelAdds ==
  ASSUME IInv, NEW i \in Items, kern' = kern \cup {i}, UNCHANGED <<v6, crashes, phase, rt>>, v6 \/ i[2] # 6,
         Owed' \subseteq Owed \cup {<<"del", i>>}, Owed \ {<<"add", i>>} \subseteq Owed',
         <<"del", i>> \in Owed' => i \notin Wanted /\ (i \in Blocks => ~rt.blocked),
         i \notin Blocks => i \in Wanted \/ <<"del", i>> \in Owed',
         i \in Blocks => crashes # 0 \/ rt.up \/ rt.blocked \/ <<"del", i>> \in Owed'
  PROVE  Kernel'
<1>1. Image' = Image /\ Wanted' = Wanted
  <2>1. Image' = Image BY DEF Image, ImageOf, Cfg
  <2> QED BY <2>1 DEF Wanted, Base
<1>2. OwedFits /\ Upper /\ Lower /\ BlockUpper /\ DelBlock /\ NoV6 BY DEF IInv
<1>3. OwedFits' 
  <2>1. SUFFICES ASSUME NEW c \in Owed', c[2] \notin Blocks PROVE c[1] = "add" <=> c[2] \in Wanted
    BY <1>1 DEF OwedFits
  <2>2. CASE c \in Owed BY <1>2, <2>1, <2>2 DEF OwedFits
  <2>3. CASE c = <<"del", i>> BY <2>1, <2>3
  <2> QED BY <2>1, <2>2, <2>3
<1>4. Upper'
  <2>1. SUFFICES ASSUME crashes = 0, NEW j \in kern' \ Blocks PROVE j \in Wanted \/ <<"del", j>> \in Owed'
    BY <1>1 DEF Upper
  <2>2. CASE j = i BY <2>1, <2>2
  <2>3. CASE j \in kern
    <3>1. j \in Wanted \/ <<"del", j>> \in Owed BY <1>2, <2>1, <2>3 DEF Upper
    <3>2. <<"del", j>> # <<"add", i>> OBVIOUS
    <3> QED BY <3>1, <3>2
  <2> QED BY <2>2, <2>3
<1>5. Lower'
  <2>1. SUFFICES ASSUME phase \in {"starting", "running"}, NEW j \in Image PROVE j \in kern' \/ <<"add", j>> \in Owed'
    BY <1>1 DEF Lower
  <2>2. j \in kern \/ <<"add", j>> \in Owed BY <1>2, <2>1 DEF Lower
  <2> QED BY <2>2
<1>6. BlockUpper'
  <2>1. SUFFICES ASSUME crashes = 0, ~rt.up, NEW j \in kern' \cap Blocks PROVE rt.blocked \/ <<"del", j>> \in Owed'
    BY DEF BlockUpper
  <2>2. CASE j = i BY <2>1, <2>2
  <2>3. CASE j \in kern
    <3>1. rt.blocked \/ <<"del", j>> \in Owed BY <1>2, <2>1, <2>3 DEF BlockUpper
    <3>2. <<"del", j>> # <<"add", i>> OBVIOUS
    <3> QED BY <3>1, <3>2
  <2> QED BY <2>2, <2>3
<1>7. DelBlock'
  <2>1. SUFFICES ASSUME NEW j \in Blocks, <<"del", j>> \in Owed' PROVE ~rt.blocked /\ j \in kern'
    BY DEF DelBlock
  <2>2. CASE <<"del", j>> \in Owed BY <1>2, <2>2 DEF DelBlock
  <2>3. CASE j = i BY <2>1, <2>3
  <2> QED BY <2>1, <2>2, <2>3
<1>8. NoV6' BY <1>2 DEF NoV6
<1> QED BY <1>3, <1>4, <1>5, <1>6, <1>7, <1>8 DEF Kernel

\* A command has deleted an item, and what hangs on the device with the link.
LEMMA KernelDels ==
  ASSUME IInv, NEW i \in Items, NEW X, kern' = (kern \ {i}) \ X, X \cap Blocks = {}, UNCHANGED <<v6, crashes, phase, rt>>,
         Owed' \subseteq Owed \cup {<<"add", i>>}, Owed \ {<<"del", i>>} \subseteq Owed',
         <<"add", i>> \in Owed' => <<"add", i>> \in Owed \/ i \in Wanted \cup Blocks,
         i \in Blocks => <<"del", i>> \notin Owed',
         phase \in {"starting", "running"} => Image = {} \/ (X = {} /\ (i \notin Image \/ <<"add", i>> \in Owed'))
  PROVE  Kernel'
<1>1. Image' = Image /\ Wanted' = Wanted
  <2>1. Image' = Image BY DEF Image, ImageOf, Cfg
  <2> QED BY <2>1 DEF Wanted, Base
<1>2. OwedFits /\ Upper /\ Lower /\ BlockUpper /\ DelBlock /\ NoV6 BY DEF IInv
<1>3. OwedFits' 
  <2>1. SUFFICES ASSUME NEW c \in Owed', c[2] \notin Blocks PROVE c[1] = "add" <=> c[2] \in Wanted
    BY <1>1 DEF OwedFits
  <2>2. CASE c \in Owed BY <1>2, <2>1, <2>2 DEF OwedFits
  <2>3. CASE c \notin Owed
    <3>1. c = <<"add", i>> BY <2>1, <2>3
    <3> QED BY <2>1, <2>3, <3>1
  <2> QED BY <2>2, <2>3
<1>4. Upper'
  <2>1. SUFFICES ASSUME crashes = 0, NEW j \in kern' \ Blocks PROVE j \in Wanted \/ <<"del", j>> \in Owed'
    BY <1>1 DEF Upper
  <2>2. j \in Wanted \/ <<"del", j>> \in Owed BY <1>2, <2>1 DEF Upper
  <2>3. <<"del", j>> # <<"del", i>> BY <2>1
  <2> QED BY <2>2, <2>3
<1>5. Lower'
  <2>1. SUFFICES ASSUME phase \in {"starting", "running"}, NEW j \in Image PROVE j \in kern' \/ <<"add", j>> \in Owed'
    BY <1>1 DEF Lower
  <2>2. j \in kern \/ <<"add", j>> \in Owed BY <1>2, <2>1 DEF Lower
  <2>3. X = {} /\ (i \notin Image \/ <<"add", i>> \in Owed') BY <2>1
  <2>4. <<"add", j>> # <<"del", i>> OBVIOUS
  <2>5. CASE j = i BY <2>1, <2>3, <2>5
  <2>6. CASE j # i BY <2>2, <2>3, <2>4, <2>6
  <2> QED BY <2>5, <2>6
<1>6. BlockUpper'
  <2>1. SUFFICES ASSUME crashes = 0, ~rt.up, NEW j \in kern' \cap Blocks PROVE rt.blocked \/ <<"del", j>> \in Owed'
    BY DEF BlockUpper
  <2>2. rt.blocked \/ <<"del", j>> \in Owed BY <1>2, <2>1 DEF BlockUpper
  <2>3. <<"del", j>> # <<"del", i>> BY <2>1
  <2> QED BY <2>2, <2>3
<1>7. DelBlock'
  <2>1. SUFFICES ASSUME NEW j \in Blocks, <<"del", j>> \in Owed' PROVE ~rt.blocked /\ j \in kern'
    BY DEF DelBlock
  <2>2. <<"del", j>> # <<"add", i>> OBVIOUS
  <2>3. <<"del", j>> \in Owed BY <2>1, <2>2
  <2>4. ~rt.blocked /\ j \in kern BY <1>2, <2>3 DEF DelBlock
  <2>5. j # i BY <2>1
  <2> QED BY <2>1, <2>4, <2>5
<1>8. NoV6' BY <1>2 DEF NoV6
<1> QED BY <1>3, <1>4, <1>5, <1>6, <1>7, <1>8 DEF Kernel

\* A command that had no effect, because there was nothing to do.
LEMMA KernelSkips ==
  ASSUME IInv, NEW c \in Commands, UNCHANGED <<kern, v6, crashes, phase, rt>>,
         Owed' \subseteq Owed, Owed \ {c} \subseteq Owed', Unsupported(c) \/ Missing(c)
  PROVE  Kernel'
<1>1. Image' = Image /\ Wanted' = Wanted
  <2>1. Image' = Image BY DEF Image, ImageOf, Cfg
  <2> QED BY <2>1 DEF Wanted, Base
<1>2. OwedFits /\ Upper /\ Lower /\ BlockUpper /\ DelBlock /\ NoV6 /\ Types BY DEF IInv
<1>3. ASSUME NEW j \in kern PROVE c # <<"del", j>>
  <2>1. CASE Unsupported(c) BY <1>2, <2>1 DEF Unsupported, NoV6
  <2>2. CASE Missing(c) BY <2>2 DEF Missing
  <2> QED BY <2>1, <2>2
<1>4. ASSUME NEW j \in Image PROVE c # <<"add", j>>
  <2>1. IsConfig(Cfg(rt.config))
    <3>1. rt.config \in Configs \cup {None} BY <1>2 DEF Types, Routers
    <3> QED BY <3>1, CfgIs, ConfigIs
  <2>2. v6 \/ j[2] # 6 BY <2>1, ImageParts DEF Image
  <2> QED BY <2>2 DEF Unsupported, Missing
<1>5. OwedFits' BY <1>1, <1>2 DEF OwedFits
<1>6. Upper' BY <1>1, <1>2, <1>3 DEF Upper
<1>7. Lower' BY <1>1, <1>2, <1>4 DEF Lower
<1>8. BlockUpper' BY <1>2, <1>3 DEF BlockUpper
<1>9. DelBlock' BY <1>2 DEF DelBlock
<1>10. NoV6' BY <1>2 DEF NoV6
<1> QED BY <1>5, <1>6, <1>7, <1>8, <1>9, <1>10 DEF Kernel

\* What is known while commands are left to run.
BlockTxs == {"block_off", "block_on", "unblock_off"}
CommandAt(l) ==
  /\ Top = l /\ stack # <<>> /\ Head(stack) = l /\ l \in AllLabels /\ l \in LabelsOf(phase) /\ phase \in PhasesOf(Proc(l))
  /\ Note(l) /\ AtTop(l) /\ Range(stack) = {l} \cup Range(Tail(stack)) /\ Range(Tail(stack)) \subseteq Under(l)
  /\ NextCommand \in Commands /\ Tail(cmds) \in Seq(Commands) /\ Range(cmds) = {NextCommand} \cup Range(Tail(cmds))
  /\ \/ l \in TxLabels /\ mode \in {"tx", "undo"}
     \/ l \in {"set_diff", "close_pending"} /\ mode = "pending"
     \/ l \in {"up_cleaned", "close_cleaned", "close_down"} /\ mode = "all"
     \/ l \in {"up_recovered", "close_recovered"} /\ mode \in {"rtx", "rundo"}
\* Commands are left to run only at a label that waits for them.
LEMMA CommandIs == ASSUME IInv, cmds # <<>> PROVE \E l : CommandAt(l)
<1>1. Types /\ TopFits /\ Notes /\ FramesOf(stack, phase) BY DEF IInv, Frames
<1>2. stack # <<>>
  <2>1. CASE stack = <<>>
    <3>1. Top = "idle" BY <2>1 DEF Top
    <3> QED BY <1>1, <3>1 DEF TopFits, AtTop, TxLabels, RunLabels
  <2> QED BY <2>1
<1>3. Top = Head(stack) BY <1>2 DEF Top
<1>4. Beneath(stack, phase) BY <1>1, <1>2, BeneathIs
<1> DEFINE l == Head(stack)
<1>5. l \in AllLabels /\ l \in LabelsOf(phase) /\ l \in Range(stack) /\ Range(Tail(stack)) \subseteq Under(l) BY <1>4 DEF Beneath
<1>6. phase \in PhasesOf(Proc(l)) BY <1>1, <1>5, PhasesAre DEF Types
<1>7. Note(l) /\ AtTop(l) BY <1>1, <1>3, <1>5 DEF Notes, TopFits
<1>8. Range(stack) = {l} \cup Range(Tail(stack))
  <2>1. stack \in Seq(LabelsOf(phase)) BY <1>1 DEF FramesOf
  <2> QED BY <1>2, <2>1, RangeTail
<1>9. NextCommand \in Commands /\ Tail(cmds) \in Seq(Commands) /\ Range(cmds) = {NextCommand} \cup Range(Tail(cmds))
  <2>1. cmds \in Seq(Commands) BY <1>1 DEF Types
  <2> QED BY <2>1, RangeTail DEF NextCommand
<1> HIDE DEF l
<1>10. \/ l \in TxLabels /\ mode \in {"tx", "undo"}
       \/ l \in {"set_diff", "close_pending"} /\ mode = "pending"
       \/ l \in {"up_cleaned", "close_cleaned", "close_down"} /\ mode = "all"
       \/ l \in {"up_recovered", "close_recovered"} /\ mode \in {"rtx", "rundo"}
  <2>1. l \in TxLabels \cup RunLabels /\ l # "up_retried" BY <1>7 DEF AtTop
  <2>2. CASE l \in TxLabels BY <1>7, <2>2 DEF AtTop, TxTop
  <2>3. CASE l \in RunLabels BY <1>7, <2>1, <2>3 DEF AtTop, RunLabels
  <2> QED BY <2>1, <2>2, <2>3
<1>11. CommandAt(l) BY <1>2, <1>3, <1>5, <1>6, <1>7, <1>8, <1>9, <1>10 DEF CommandAt, l
<1> QED BY <1>11

\* The commands of block and unblock are about block rules, those of the other
\* transactions are not.
LEMMA CommandKinds ==
  ASSUME NEW l, CommandAt(l), undo \in Seq(Commands)
  PROVE  /\ l \in BlockTxs => NextCommand \in BlockCommands
         /\ l \in {"set_done", "up_done", "up_cleaned", "close_cleaned", "close_down", "close_pending"} => NextCommand[2] \notin Blocks
         /\ l \in TxLabels /\ mode = "tx" => NextCommand \in Steps(l)
         /\ l \in TxLabels /\ mode = "undo" => Inverse1(NextCommand) \in Steps(l)
         /\ l \in BlockTxs => Steps(l) \subseteq BlockCommands
         /\ l \in {"set_done", "up_done"} => \A c \in Steps(l) : c[2] \notin Blocks
<1>1. NextCommand \in Commands /\ NextCommand \in Range(cmds) /\ AtTop(l) BY DEF CommandAt
<1>2. PICK v \in {"add", "del"}, i \in Items : NextCommand = <<v, i>> BY <1>1 DEF Commands
<1>3. l \in TxLabels /\ mode = "tx" => NextCommand \in Steps(l) BY <1>1 DEF AtTop, TxTop
<1>4. l \in TxLabels /\ mode = "undo" => Inverse1(NextCommand) \in Steps(l) BY <1>1 DEF AtTop, TxTop
<1>5. l \in TxLabels => mode \in {"tx", "undo"} BY <1>1 DEF AtTop, TxTop
<1>6. Inverse1(NextCommand)[2] = i /\ Inverse1(NextCommand)[1] \in {"add", "del"} BY <1>2 DEF Inverse1
<1>7. l \in BlockTxs => Steps(l) \subseteq BlockCommands BY DEF BlockTxs, Steps, Adds, Dels, BlockCommands
<1>8. l \in {"set_done", "up_done"} => \A c \in Steps(l) : c[2] \notin Blocks
  <2>1. CASE l = "set_done"
    <3>1. Steps(l) = Adds(Parts(arg) \ Parts(Cfg(rt.config))) \cup Dels(Parts(Cfg(rt.config)) \ Parts(arg)) BY <2>1 DEF Steps
    <3> QED BY <3>1, PartsKinds DEF Adds, Dels
  <2>2. CASE l = "up_done"
    <3>1. Steps(l) = Adds(Rules \cup {Link}) BY <2>2 DEF Steps
    <3> QED BY <3>1 DEF Adds, Rules, Link, Blocks
  <2> QED BY <2>1, <2>2
<1>9. l \in BlockTxs => NextCommand \in BlockCommands
  <2>1. ASSUME l \in BlockTxs PROVE i \in Blocks
    <3>1. l \in TxLabels BY <2>1 DEF BlockTxs, TxLabels
    <3>2. CASE mode = "tx" BY <1>2, <1>3, <1>7, <2>1, <3>1, <3>2 DEF BlockCommands
    <3>3. CASE mode = "undo" BY <1>4, <1>6, <1>7, <2>1, <3>1, <3>3 DEF BlockCommands
    <3> QED BY <1>5, <3>1, <3>2, <3>3
  <2> QED BY <1>2, <2>1 DEF BlockCommands
<1>10. l \in {"set_done", "up_done"} => i \notin Blocks
  <2>1. ASSUME l \in {"set_done", "up_done"} PROVE i \notin Blocks
    <3>1. l \in TxLabels BY <2>1 DEF TxLabels
    <3>2. CASE mode = "tx" BY <1>2, <1>3, <1>8, <2>1, <3>1, <3>2
    <3>3. CASE mode = "undo" BY <1>4, <1>6, <1>8, <2>1, <3>1, <3>3
    <3> QED BY <1>5, <3>1, <3>2, <3>3
  <2> QED BY <2>1
<1>11. l \in {"up_cleaned", "close_cleaned"} => i \notin Blocks
  BY <1>1, <1>2 DEF AtTop, Dels, Rules, Exits, Blocks
<1>12. l = "close_down" => i \notin Blocks
  <2>1. ASSUME l = "close_down" PROVE i \notin Blocks
    <3>1. <<v, i>> \in TeardownSteps BY <1>1, <1>2, <2>1 DEF AtTop
    <3>2. i \in Parts(Cfg(rt.config)) \cup Rules \cup {Link} BY <3>1 DEF TeardownSteps, Dels
    <3> QED BY <3>2, PartsKinds DEF Rules, Link, Blocks
  <2> QED BY <2>1
<1>13. l = "close_pending" => i \notin Blocks BY <1>1, <1>2 DEF AtTop, BlockCommands
<1> QED BY <1>2, <1>3, <1>4, <1>7, <1>8, <1>9, <1>10, <1>11, <1>12, <1>13

\* A note does not change with the list of inverses unless it is about it.
LEMMA NoteKeeps ==
  ASSUME NEW m, Note(m), UNCHANGED <<owner, mg, phase, arg, crashes>>, NEW q, rt' = [rt EXCEPT !.pending = q], rt \in Routers,
         m \in ClearLabels \cup {"sync_cleared", "sync_after", "start_open"} => Range(q) \cap ExitAdds = {},
         m \in UpLabels \ {"up_done"} => q = <<>>,
         m = "close_unblocked" => Range(q) \subseteq BlockCommands /\ (crashes = 0 => kern' \subseteq Blocks)
  PROVE  Note(m)'
<1>1. /\ rt'.config = rt.config /\ rt'.up = rt.up /\ rt'.recover = rt.recover /\ rt'.owned = rt.owned /\ rt'.blocked = rt.blocked
      /\ rt'.pending = q
  BY DEF Routers
<1>2. Cfg(rt.config)' = Cfg(rt.config) BY <1>1 DEF Cfg
<1> QED BY <1>1, <1>2 DEF Note, Pure

\* The notes on the stack hold while commands run.
LEMMA CommandNotes ==
  ASSUME IInv, NEW l, CommandAt(l), UNCHANGED <<owner, mg, phase, arg, crashes, stack>>, NEW q, rt' = [rt EXCEPT !.pending = q],
         Range(q) \subseteq Range(rt.pending) \cup {NextCommand},
         q = rt.pending \/ l \in TxLabels \cup {"set_diff", "close_pending"},
         l \in BlockTxs => kern' \subseteq kern \cup Blocks
  PROVE  Notes'
<1>1. rt \in Routers /\ undo \in Seq(Commands) BY DEF IInv, Types
<1>2. SUFFICES ASSUME NEW m \in Range(stack) PROVE Note(m)' BY DEF Notes
<1>3. Note(m) /\ (m = l \/ m \in Under(l)) BY DEF IInv, Notes, CommandAt
<1>4. CASE l \in BlockTxs
  <2>1. l \in BlockLabels \cup UnblockLabels BY <1>4 DEF BlockTxs, BlockLabels, UnblockLabels
  <2>2. m \notin UpLabels BY <1>3, <2>1, UnderAre DEF BlockLabels, UnblockLabels, UpLabels
  <2>3. NextCommand \in BlockCommands BY <1>1, <1>4, CommandKinds
  <2>4. BlockCommands \cap ExitAdds = {} BY DEF BlockCommands, ExitAdds, Blocks
  <2>5. m \in ClearLabels \cup {"sync_cleared", "sync_after", "start_open"} => Range(q) \cap ExitAdds = {}
    BY <1>3, <2>3, <2>4 DEF Note
  <2>6. m = "close_unblocked" => Range(q) \subseteq BlockCommands /\ (crashes = 0 => kern' \subseteq Blocks)
    BY <1>3, <1>4, <2>3 DEF Note, Pure
  <2> QED BY <1>1, <1>3, <2>2, <2>5, <2>6, NoteKeeps
<1>5. CASE l \in {"set_done", "set_diff"}
  <2>1. m \in {"set_done", "set_diff", "start_applied", "sync_applied"} BY <1>3, <1>5, UnderAre DEF SetLabels
  <2> QED BY <1>1, <1>3, <2>1, NoteKeeps DEF ClearLabels, UpLabels
<1>6. CASE l \in {"up_done", "up_cleaned", "up_recovered"}
  <2>1. m \in {l, "start_up"} BY <1>3, <1>6, UnderAre DEF UpLabels
  <2>2. m \in UpLabels \ {"up_done"} => q = <<>>
    <3>1. ASSUME m \in UpLabels \ {"up_done"} PROVE q = <<>>
      <4>1. m = l /\ l \in {"up_cleaned", "up_recovered"} BY <1>6, <2>1, <3>1 DEF UpLabels
      <4>2. q = rt.pending BY <4>1 DEF TxLabels
      <4>3. rt.pending = <<>> BY <1>3, <3>1 DEF Note
      <4> QED BY <4>2, <4>3
    <3> QED BY <3>1
  <2>3. m \notin ClearLabels \cup {"sync_cleared", "sync_after", "start_open", "close_unblocked"} BY <1>6, <2>1 DEF ClearLabels
  <2> QED BY <1>1, <1>3, <2>2, <2>3, NoteKeeps
<1>7. CASE l \in {"close_pending", "close_down", "close_cleaned", "close_recovered"}
  <2>1. m \in {l, "closed"} BY <1>3, <1>7, UnderAre DEF CloseLabels
  <2>2. m \notin ClearLabels \cup {"sync_cleared", "sync_after", "start_open", "close_unblocked"} \cup UpLabels
    BY <1>7, <2>1 DEF ClearLabels, UpLabels
  <2> QED BY <1>1, <1>3, <2>2, NoteKeeps
<1> QED BY <1>4, <1>5, <1>6, <1>7 DEF CommandAt, TxLabels, BlockTxs

\* A step of a command: what it leaves alone stays in order.
LEMMA CommandMoves ==
  ASSUME IInv, NEW l, CommandAt(l), UNCHANGED <<v6, owner, mg, phase, stack, arg, why, after, crashes>>,
         NEW q \in Seq(Commands), rt' = [rt EXCEPT !.pending = q], q = rt.pending \/ ~rt.recover, kern' \subseteq Items,
         mode' \in {"tx", "undo", "pending", "all", "rtx", "rundo"}, cmds' \in Seq(Commands), undo' \in Seq(Commands),
         ret' \in {"ok", "err"}, faults' \in 0..MaxFail, Kernel', OneDel', AtTop(l)', Notes',
         phase = "running" => Owed' \cap ExitAdds \subseteq Owed \/ mg.verified,
         phase = "running" /\ mg.verified => Blocked'
  PROVE  IInv'
<1>1. Types /\ Frames /\ Latch /\ ExitOwed /\ ExitKnown /\ Ownership /\ Recovering /\ Phases BY DEF IInv
<1>2. Top = l /\ Top' = l /\ phase # "off" /\ l # "sync_applied"
  <2>1. Top = l /\ l \in LabelsOf(phase) BY DEF CommandAt
  <2>2. Top' = Top BY DEF Top
  <2>3. l # "sync_applied" BY DEF CommandAt, TxLabels
  <2> QED BY <2>1, <2>2, <2>3, LabelsAre
<1>3. /\ rt'.config = rt.config /\ rt'.up = rt.up /\ rt'.recover = rt.recover /\ rt'.owned = rt.owned /\ rt'.blocked = rt.blocked
      /\ rt'.pending = q /\ rt' \in Routers
  BY <1>1 DEF Types, Routers
<1>4. Types' BY <1>1, <1>3 DEF Types
<1>5. Frames' BY <1>1 DEF Frames
<1>6. TopFits' BY <1>2 DEF TopFits
<1>7. Latch' BY <1>1, <1>3 DEF Latch
<1>8. ExitOwed' BY <1>1 DEF ExitOwed
<1>9. ExitKnown' BY <1>1, <1>2, <1>3 DEF ExitKnown, Cfg
<1>10. Ownership' BY <1>1, <1>2, <1>3 DEF Ownership
<1>11. Recovering' BY <1>1, <1>3 DEF Recovering
<1>12. Phases' BY <1>1, <1>2, <1>3 DEF Phases
<1> QED BY <1>4, <1>5, <1>6, <1>7, <1>8, <1>9, <1>10, <1>11, <1>12 DEF IInv, Kernel

\* The commands of a transaction are fixed by the configurations.
LEMMA StepsStay == ASSUME NEW l, UNCHANGED arg, rt'.config = rt.config PROVE Steps(l)' = Steps(l) /\ TeardownSteps' = TeardownSteps
BY DEF Steps, TeardownSteps, Cfg

\* The transactions of a router that recovers are not among the calls that run.
LEMMA NotRecovering ==
  ASSUME NEW l, CommandAt(l), l \in TxLabels \cup {"set_diff", "close_pending"} PROVE ~rt.recover
<1>1. Note(l) BY DEF CommandAt
<1>2. l \in Upped \cup SetLabels BY DEF TxLabels, Upped, BlockLabels, UnblockLabels, SetLabels
<1> QED BY <1>1, <1>2 DEF Note

\* The kernel stays, and what is owed.
LEMMA CommandKeeps ==
  ASSUME IInv, UNCHANGED <<kern, v6, crashes, phase>>, NEW q, rt' = [rt EXCEPT !.pending = q], Owed' = Owed
  PROVE  Kernel'
<1>1. Types /\ Kernel BY DEF IInv, Kernel
<1>2. rt'.config = rt.config /\ rt'.up = rt.up /\ rt'.blocked = rt.blocked BY <1>1 DEF Types, Routers
<1> QED BY <1>1, <1>2, KernelKeeps

\* A command fails: it is undone, kept for a retry or counted; what is owed stays the same.
LEMMA StepCommandFails == ASSUME IInv, CommandFails PROVE IInv'
<1>1. /\ cmds # <<>> /\ ret' = "err"
      /\ UNCHANGED <<kern, v6, owner, mg, phase, stack, arg, why, after, crashes>>
  BY DEF CommandFails, kernelVars, callVars
<1>2. PICK l : CommandAt(l) BY <1>1, CommandIs
<1>3. Types /\ OneDel /\ Latch BY DEF IInv
<1>4. faults' \in 0..MaxFail BY <1>3, FaultsAre DEF CommandFails
<1>5. rt \in Routers /\ rt.pending \in Seq(Commands) /\ cmds \in Seq(Commands) /\ undo \in Seq(Commands) BY <1>3 DEF Types, Routers
<1>6. Top = l /\ Top' = l BY <1>1, <1>2 DEF CommandAt, Top
<1>7. phase = "running" /\ mg.verified => Blocked' BY <1>1, <1>3 DEF Latch, Blocked, BlockActive
<1>8. <<>> \in Seq(Commands) /\ Once(<<>>) /\ Range(<<>>) = {} BY RangeEmpty DEF Once
<1>9. AtTop(l) /\ Range(cmds) = {NextCommand} \cup Range(Tail(cmds)) /\ NextCommand \in Commands /\ Tail(cmds) \in Seq(Commands)
  BY <1>2 DEF CommandAt
<1>10. CASE mode \in {"tx", "rtx"}
  <2>1. cmds' = undo /\ undo' = <<>> /\ mode' = (IF mode = "tx" THEN "undo" ELSE "rundo") /\ UNCHANGED rt
    BY <1>10 DEF CommandFails
  <2>2. rt' = [rt EXCEPT !.pending = rt.pending] BY <1>5, <2>1 DEF Routers
  <2>3. Notes'
    <3>1. kern' \subseteq kern \cup Blocks BY <1>1
    <3> QED BY <1>1, <1>2, <2>2, <3>1, CommandNotes
  <2>4. CASE mode = "tx"
    <3>1. l \in TxLabels /\ TxTop(l) BY <1>2, <1>9, <2>4 DEF CommandAt, AtTop
    <3>2. mode' = "undo" BY <2>1, <2>4
    <3>3. Owed' = Owed BY <1>6, <1>8, <2>1, <2>4, <3>1, <3>2 DEF Owed
    <3>4. OneDel' BY <1>3, <1>6, <2>1, <2>4, <3>1, <3>2 DEF OneDel
    <3>5. Kernel' BY <1>1, <2>2, <3>3, CommandKeeps
    <3>6. AtTop(l)'
      <4>1. Steps(l)' = Steps(l) BY <1>1, <2>1, StepsStay
      <4>2. TxTop(l)' BY <1>1, <2>1, <2>4, <3>1, <3>2, <4>1 DEF TxTop
      <4> QED BY <3>1, <4>2 DEF AtTop, TxLabels
    <3> QED BY <1>1, <1>2, <1>3, <1>4, <1>5, <1>7, <1>8, <2>1, <2>2, <2>3, <3>2, <3>3, <3>4, <3>5, <3>6, CommandMoves DEF Types
  <2>5. CASE mode = "rtx"
    <3>1. l \in {"up_recovered", "close_recovered"} /\ l \notin TxLabels BY <1>2, <2>5 DEF CommandAt, TxLabels
    <3>2. mode' = "rundo" BY <2>1, <2>5
    <3>3. Owed' = Owed BY <1>6, <2>1, <2>5, <3>1, <3>2 DEF Owed
    <3>4. OneDel' BY <1>3, <1>6, <2>1, <3>1, <3>2 DEF OneDel
    <3>5. Kernel' BY <1>1, <2>2, <3>3, CommandKeeps
    <3>6. AtTop(l)' BY <1>8, <1>9, <2>1, <3>1, <3>2 DEF AtTop, TxLabels, RunLabels
    <3> QED BY <1>1, <1>2, <1>3, <1>4, <1>5, <1>7, <1>8, <2>1, <2>2, <2>3, <3>2, <3>3, <3>4, <3>5, <3>6, CommandMoves DEF Types
  <2> QED BY <1>10, <2>4, <2>5
<1>11. CASE mode \in {"undo", "pending"}
  <2> DEFINE q == Append(rt.pending, NextCommand)
  <2>1. cmds' = Tail(cmds) /\ rt' = [rt EXCEPT !.pending = q] /\ UNCHANGED <<undo, mode>> BY <1>11 DEF CommandFails
  <2>2. q \in Seq(Commands) /\ Range(q) = Range(rt.pending) \cup {NextCommand} BY <1>5, <1>9, RangeAppend
  <2>3. Once(q) /\ Once(Tail(cmds)) /\ \A i \in Blocks : ~(<<"del", i>> \in Range(Tail(cmds)) /\ <<"del", i>> \in Range(q))
    <3>1. Once(rt.pending) /\ Once(cmds) /\ \A i \in Blocks : ~(<<"del", i>> \in Range(cmds) /\ <<"del", i>> \in Range(rt.pending))
      BY <1>3, <1>11 DEF OneDel
    <3>2. Once(Tail(cmds)) /\ \A i \in Blocks : NextCommand = <<"del", i>> => <<"del", i>> \notin Range(Tail(cmds))
      BY <1>1, <1>5, <3>1, OnceTail DEF NextCommand
    <3>3. NextCommand[1] = "del" /\ NextCommand[2] \in Blocks => NextCommand \notin Range(rt.pending)
      <4>1. NextCommand = <<NextCommand[1], NextCommand[2]>> BY <1>9 DEF Commands
      <4> QED BY <1>9, <3>1, <4>1
    <3>4. Once(q) BY <1>5, <1>9, <3>1, <3>3, OnceAppend
    <3> QED BY <1>9, <2>2, <3>1, <3>2, <3>4
  <2> HIDE DEF q
  <2>4. rt'.pending = q BY <1>5, <2>1 DEF Routers
  <2>5. l \in TxLabels \cup {"set_diff", "close_pending"} BY <1>2, <1>11 DEF CommandAt
  <2>6. ~rt.recover BY <1>2, <2>5, NotRecovering
  <2>7. Notes'
    <3>1. kern' \subseteq kern \cup Blocks BY <1>1
    <3> QED BY <1>1, <1>2, <2>1, <2>2, <2>5, <3>1, CommandNotes
  <2>8. Owed' = Owed BY <1>6, <1>9, <1>11, <2>1, <2>2, <2>4 DEF Owed
  <2>9. OneDel' BY <1>11, <2>1, <2>3, <2>4 DEF OneDel
  <2>10. Kernel' BY <1>1, <2>1, <2>8, CommandKeeps
  <2>11. AtTop(l)'
    <3>1. CASE l \in TxLabels
      <4>1. Steps(l)' = Steps(l)
        <5>1. rt'.config = rt.config BY <1>5, <2>1 DEF Routers
        <5> QED BY <1>1, <5>1, StepsStay
      <4>2. mode = "undo" /\ TxTop(l) BY <1>2, <1>9, <1>11, <3>1 DEF CommandAt, AtTop, TxLabels
      <4>3. rt'.blocked = rt.blocked BY <1>5, <2>1 DEF Routers
      <4>4. TxTop(l)' BY <1>1, <1>9, <2>1, <4>1, <4>2, <4>3 DEF TxTop
      <4> QED BY <3>1, <4>4 DEF AtTop, TxLabels
    <3>2. CASE l \in {"set_diff", "close_pending"}
      <4>1. mode = "pending" BY <1>2, <3>2 DEF CommandAt, TxLabels
      <4> QED BY <1>1, <1>9, <2>1, <2>2, <2>4, <3>2, <4>1 DEF AtTop, TxLabels, RunLabels
    <3> QED BY <2>5, <3>1, <3>2
  <2> QED BY <1>1, <1>2, <1>3, <1>4, <1>5, <1>7, <1>9, <2>1, <2>2, <2>6, <2>7, <2>8, <2>9, <2>10, <2>11, CommandMoves DEF Types
<1>12. CASE mode \in {"all", "rundo"}
  <2>1. cmds' = Tail(cmds) /\ UNCHANGED <<rt, undo, mode>> BY <1>12 DEF CommandFails
  <2>2. rt' = [rt EXCEPT !.pending = rt.pending] BY <1>5, <2>1 DEF Routers
  <2>3. Notes'
    <3>1. kern' \subseteq kern \cup Blocks BY <1>1
    <3> QED BY <1>1, <1>2, <2>2, <3>1, CommandNotes
  <2>4. Owed' = Owed /\ OneDel' BY <1>3, <1>12, <2>1 DEF Owed, OneDel
  <2>5. Kernel' BY <1>1, <2>2, <2>4, CommandKeeps
  <2>6. l \in {"up_cleaned", "close_cleaned", "close_down", "up_recovered", "close_recovered"} BY <1>2, <1>12 DEF CommandAt
  <2>7. AtTop(l)'
    <3>1. TeardownSteps' = TeardownSteps BY <1>1, <2>1, StepsStay
    <3> QED BY <1>1, <1>9, <2>1, <2>6, <3>1 DEF AtTop, TxLabels, RunLabels
  <2> QED BY <1>1, <1>2, <1>3, <1>4, <1>5, <1>7, <1>9, <2>1, <2>2, <2>3, <2>4, <2>5, <2>7, CommandMoves DEF Types
<1> QED BY <1>3, <1>10, <1>11, <1>12 DEF Types

\* A command of a transaction has been dealt with; the others are where they were.
LEMMA TxContinues ==
  ASSUME NEW l, CommandAt(l), l \in TxLabels, mode = "tx", UNCHANGED <<mode, ret, rt, arg>>, cmds' = Tail(cmds),
         \A d \in Range(undo') : Inverse1(d) \in Steps(l), NEW c, c = NextCommand, Did(c)', \A d \in Steps(l) : Did(d) => Did(d)',
         l = "block_on" => \A i \in Blocks : <<"del", i>> \in Range(rt.pending) => NextCommand # <<"add", i>>
  PROVE  AtTop(l)'
<1>1. AtTop(l) /\ Range(cmds) = {NextCommand} \cup Range(Tail(cmds)) BY DEF CommandAt
<1>2. TxTop(l) BY <1>1 DEF AtTop
<1>3. Steps(l)' = Steps(l) BY StepsStay
<1>4. Range(cmds') \subseteq Steps(l) BY <1>1, <1>2 DEF TxTop
<1>5. ASSUME NEW d \in Steps(l) PROVE d \in Range(cmds') \/ Did(d)'
  <2>1. d \in Range(cmds) \/ Did(d) BY <1>2 DEF TxTop
  <2> QED BY <1>1, <2>1
<1>6. l = "block_on" => \A i \in Blocks : <<"del", i>> \in Range(rt.pending) => <<"add", i>> \in Range(cmds')
  BY <1>1, <1>2 DEF TxTop
<1>7. TxTop(l)'
  <2> HIDE DEF TxTop
  <2>1. /\ mode' = "tx" /\ ret' = "ok" /\ (l \in {"set_done", "up_done"} => rt'.pending = <<>>)
        /\ (l \in {"block_off", "unblock_off"} => rt'.blocked) /\ (l = "block_on" => ~rt'.blocked)
    BY <1>2 DEF TxTop
  <2> QED BY <1>3, <1>4, <1>5, <1>6, <2>1 DEF TxTop
<1> QED BY <1>7 DEF AtTop, TxLabels

\* Any other command has been dealt with.
LEMMA RunContinues ==
  ASSUME NEW l, CommandAt(l), mode # "tx", UNCHANGED <<mode, ret, rt, arg>>, cmds' = Tail(cmds),
         l \in {"up_recovered", "close_recovered"} => Range(undo') \subseteq BlockCommands,
         l = "close_down" => kern' \subseteq kern /\ NextCommand[2] \notin kern'
  PROVE  AtTop(l)'
<1>1. AtTop(l) /\ Range(cmds) = {NextCommand} \cup Range(Tail(cmds)) BY DEF CommandAt
<1>2. Steps(l)' = Steps(l) /\ TeardownSteps' = TeardownSteps BY StepsStay
<1>3. CASE l \in TxLabels
  <2>1. TxTop(l) BY <1>1, <1>3 DEF AtTop
  <2>2. TxTop(l)' BY <1>1, <1>2, <2>1 DEF TxTop
  <2> QED BY <1>3, <2>2 DEF AtTop, TxLabels
<1>4. CASE l \in {"set_diff", "close_pending", "up_cleaned", "close_cleaned", "up_recovered", "close_recovered"}
  BY <1>1, <1>4 DEF AtTop, TxLabels, RunLabels
<1>5. CASE l = "close_down"
  <2>1. Range(cmds') \subseteq TeardownSteps BY <1>1, <1>5 DEF AtTop
  <2>2. ASSUME ret = "ok", NEW d \in TeardownSteps PROVE d \in Range(cmds') \/ d[2] \notin kern'
    <3>1. d \in Range(cmds) \/ d[2] \notin kern BY <1>1, <1>5, <2>2 DEF AtTop
    <3> QED BY <1>1, <1>5, <3>1
  <2> QED BY <1>1, <1>2, <1>5, <2>1, <2>2 DEF AtTop, TxLabels, RunLabels
<1> QED BY <1>3, <1>4, <1>5 DEF CommandAt

\* Each deletion of a block rule is still owed once.
LEMMA OneDelTail ==
  ASSUME IInv, cmds # <<>>, UNCHANGED <<mode, rt, stack>>, cmds' = Tail(cmds),
         mode = "tx" /\ Top \in TxLabels =>
           Once(undo') /\ \A i \in Blocks : ~(<<"del", i>> \in Range(undo') /\ <<"del", i>> \in Range(rt.pending))
  PROVE  OneDel'
<1>1. OneDel /\ cmds \in Seq(Commands) BY DEF IInv, Types
<1>2. Range(cmds) = {Head(cmds)} \cup Range(Tail(cmds)) BY <1>1, RangeTail
<1>3. Once(cmds) => Once(Tail(cmds)) BY <1>1, OnceTail
<1>4. Top' = Top BY DEF Top
<1> QED BY <1>1, <1>2, <1>3, <1>4 DEF OneDel

\* A command had nothing to do: what it was owed for holds already.
LEMMA StepCommandNonFatal == ASSUME IInv, CommandNonFatal PROVE IInv'
<1>1. /\ cmds # <<>> /\ (Unsupported(NextCommand) \/ Missing(NextCommand)) /\ cmds' = Tail(cmds)
      /\ UNCHANGED <<kern, v6, owner, rt, mg, phase, stack, mode, undo, ret, arg, why, after, faults, crashes>>
  BY DEF CommandNonFatal, kernelVars, callVars
<1>2. PICK l : CommandAt(l) BY <1>1, CommandIs
<1>3. Types /\ OneDel /\ Latch /\ NoV6 /\ DelBlock BY DEF IInv
<1>4. rt \in Routers /\ rt.pending \in Seq(Commands) /\ undo \in Seq(Commands) BY <1>3 DEF Types, Routers
<1>5. Top = l /\ Top' = l BY <1>1, <1>2 DEF CommandAt, Top
<1>6. phase = "running" /\ mg.verified => Blocked' BY <1>1, <1>3 DEF Latch, Blocked, BlockActive
<1>7. rt' = [rt EXCEPT !.pending = rt.pending] BY <1>1, <1>4 DEF Routers
<1>8. AtTop(l) /\ Range(cmds) = {NextCommand} \cup Range(Tail(cmds)) /\ NextCommand \in Commands /\ Tail(cmds) \in Seq(Commands)
  BY <1>2 DEF CommandAt
<1>9. Notes'
  <2>1. kern' \subseteq kern \cup Blocks BY <1>1
  <2> QED BY <1>1, <1>2, <1>7, <2>1, CommandNotes
<1>10. Owed' \subseteq Owed /\ Owed \ {NextCommand} \subseteq Owed' BY <1>1, <1>5, <1>8 DEF Owed
<1>11. Kernel' BY <1>1, <1>8, <1>10, KernelSkips
<1>12. OneDel'
  <2>1. mode = "tx" /\ Top \in TxLabels =>
           Once(undo') /\ \A i \in Blocks : ~(<<"del", i>> \in Range(undo') /\ <<"del", i>> \in Range(rt.pending))
    BY <1>1, <1>3 DEF OneDel
  <2> QED BY <1>1, <2>1, OneDelTail
<1>13. ASSUME NEW j \in kern PROVE NextCommand # <<"del", j>>
  <2>1. CASE Unsupported(NextCommand) BY <1>3, <2>1 DEF Unsupported, NoV6
  <2>2. CASE Missing(NextCommand) BY <2>2 DEF Missing
  <2> QED BY <1>1, <2>1, <2>2
<1>14. PICK v \in {"add", "del"}, i \in Items : NextCommand = <<v, i>> BY <1>8 DEF Commands
<1>15. v = "add" => ~v6 /\ i[2] = 6 BY <1>1, <1>14 DEF Unsupported, Missing
<1>16. AtTop(l)'
  <2>1. CASE mode = "tx"
    <3>1. l \in TxLabels /\ TxTop(l) BY <1>2, <1>8, <2>1 DEF CommandAt, AtTop
    <3>2. Did(<<v, i>>)' BY <1>1, <1>13, <1>14, <1>15 DEF Did
    <3>3. \A d \in Steps(l) : Did(d) => Did(d)' BY <1>1 DEF Did
    <3>4. \A d \in Range(undo') : Inverse1(d) \in Steps(l) BY <1>1, <2>1, <3>1 DEF TxTop
    <3>5. ASSUME NEW j \in Blocks, <<"del", j>> \in Range(rt.pending) PROVE NextCommand # <<"add", j>>
      <4>1. j \in kern BY <1>3, <3>5 DEF DelBlock, Owed
      <4>2. v6 \/ j[2] # 6 BY <1>3, <4>1 DEF NoV6
      <4> QED BY <1>14, <1>15, <4>2
    <3> QED BY <1>1, <1>2, <1>14, <2>1, <3>1, <3>2, <3>3, <3>4, <3>5, TxContinues
  <2>2. CASE mode # "tx"
    <3>1. l \in {"up_recovered", "close_recovered"} => Range(undo') \subseteq BlockCommands BY <1>1, <1>8 DEF AtTop
    <3>2. l = "close_down" => kern' \subseteq kern /\ NextCommand[2] \notin kern'
      <4>1. ASSUME l = "close_down" PROVE v = "del"
        <5>1. NextCommand \in TeardownSteps BY <1>8, <4>1 DEF AtTop
        <5> QED BY <1>14, <5>1 DEF TeardownSteps, Dels
      <4> QED BY <1>1, <1>13, <1>14, <4>1
    <3> QED BY <1>1, <1>2, <2>2, <3>1, <3>2, RunContinues
  <2> QED BY <2>1, <2>2
<1> QED BY <1>1, <1>2, <1>3, <1>4, <1>6, <1>7, <1>8, <1>9, <1>10, <1>11, <1>12, <1>16, CommandMoves DEF Types

\* What a command that succeeds does to the kernel.
Gone(i) == IF i = Link THEN OnDevice ELSE {}
\* It adds what was not there, or deletes what was, with the routes of the device.
LEMMA EffectIs ==
  ASSUME Types, NEW v \in {"add", "del"}, NEW i \in Items, NextCommand = <<v, i>>, CommandOk
  PROVE  /\ v6 \/ i[2] # 6
         /\ v = "add" => kern' = kern \cup {i} /\ (i # Link => i \notin kern)
         /\ v = "del" => kern' = (kern \ {i}) \ Gone(i) /\ (i # Link => i \in kern /\ Gone(i) = {})
         /\ Gone(i) \cap Blocks = {} /\ kern' \subseteq Items
         /\ Inverse1(NextCommand) = (IF v = "add" THEN <<"del", i>> ELSE <<"add", i>>)
<1>1. ~Unsupported(NextCommand) /\ ~Missing(NextCommand) /\ ~Exists(NextCommand) /\ kern' = Effect(NextCommand) BY DEF CommandOk
<1>2. NextCommand[1] = v /\ NextCommand[2] = i OBVIOUS
<1>3. i \in Table52(i)
  <2>1. i = <<i[1], i[2]>> BY DEF Items
  <2>2. CASE i[1] = "route" BY <2>1, <2>2 DEF Table52
  <2>3. CASE i[1] = "throw" BY <2>1, <2>3 DEF Table52
  <2>4. CASE i[1] \notin {"route", "throw"} BY <2>4 DEF Table52
  <2> QED BY <2>2, <2>3, <2>4
<1>4. v6 \/ i[2] # 6 BY <1>1, <1>2 DEF Unsupported
<1>5. ASSUME v = "add" PROVE kern' = kern \cup {i} /\ (i # Link => i \notin kern)
  <2>1. kern' = kern \cup {i} BY <1>1, <1>2, <1>5 DEF Effect
  <2>2. i # Link => Table52(i) \cap kern = {} BY <1>1, <1>2, <1>5 DEF Exists
  <2> QED BY <1>3, <2>1, <2>2
<1>6. ASSUME v = "del" PROVE kern' = (kern \ {i}) \ Gone(i) /\ (i # Link => i \in kern /\ Gone(i) = {})
  <2>1. kern' = (kern \ {i}) \ Gone(i) BY <1>1, <1>2, <1>6 DEF Effect, Gone
  <2>2. i # Link => i \in kern BY <1>1, <1>2, <1>6 DEF Missing
  <2> QED BY <2>1, <2>2 DEF Gone
<1>7. Gone(i) \cap Blocks = {} BY DEF Gone, OnDevice, Blocks
<1>8. kern' \subseteq Items
  <2>1. kern \subseteq Items BY DEF Types
  <2>2. CASE v = "add" BY <1>5, <2>1, <2>2
  <2>3. CASE v = "del" BY <1>6, <2>1, <2>3
  <2> QED BY <2>2, <2>3
<1>9. Inverse1(NextCommand) = (IF v = "add" THEN <<"del", i>> ELSE <<"add", i>>) BY <1>2 DEF Inverse1
<1> QED BY <1>4, <1>5, <1>6, <1>7, <1>8, <1>9

\* A transaction does not add and delete the same item.
LEMMA StepsDisjoint ==
  ASSUME NEW l, NEW i, NEW j, <<"add", i>> \in Steps(l), <<"del", j>> \in Steps(l) PROVE i # j
<1>1. CASE l = "set_done"
  <2>1. Steps(l) = Adds(Parts(arg) \ Parts(Cfg(rt.config))) \cup Dels(Parts(Cfg(rt.config)) \ Parts(arg)) BY <1>1 DEF Steps
  <2>2. i \in Parts(arg) BY <2>1 DEF Adds, Dels
  <2>3. j \notin Parts(arg) BY <2>1 DEF Adds, Dels
  <2> QED BY <2>2, <2>3
<1>2. CASE l # "set_done" BY <1>2 DEF Steps, Adds, Dels
<1> QED BY <1>1, <1>2

\* The rest of a step in which a command has succeeded.
LEMMA CommandSucceeds ==
  ASSUME IInv, CommandOk, NEW l, CommandAt(l), NEW v \in {"add", "del"}, NEW i \in Items, NextCommand = <<v, i>>,
         undo' \in Seq(Commands), Kernel', OneDel', AtTop(l)',
         phase = "running" => Owed' \cap ExitAdds \subseteq Owed \/ mg.verified,
         v = "del" /\ i \in Blocks => ~(phase = "running" /\ mg.verified)
  PROVE  IInv'
<1>1. /\ cmds # <<>> /\ cmds' = Tail(cmds)
      /\ UNCHANGED <<v6, owner, rt, mg, phase, stack, mode, ret, arg, why, after, faults, crashes>>
  BY DEF CommandOk, callVars
<1>2. Types /\ Latch BY DEF IInv
<1>3. /\ v = "add" => kern' = kern \cup {i}
      /\ v = "del" => kern' = (kern \ {i}) \ Gone(i)
      /\ Gone(i) \cap Blocks = {} /\ kern' \subseteq Items
  BY <1>2, EffectIs
<1>4. phase = "running" /\ mg.verified => Blocked'
  <2>1. SUFFICES ASSUME phase = "running", mg.verified PROVE Blocked' OBVIOUS
  <2>2. Blocked BY <1>2, <2>1 DEF Latch
  <2>3. \A b \in Blocks : b \in kern => b \in kern' BY <1>3, <2>1
  <2>4. <<"block", 4>> \in Blocks /\ <<"block", 6>> \in Blocks BY DEF Blocks
  <2> QED BY <1>1, <2>2, <2>3, <2>4 DEF Blocked, BlockActive
<1>5. rt \in Routers /\ rt.pending \in Seq(Commands) BY <1>2 DEF Types, Routers
<1>6. rt' = [rt EXCEPT !.pending = rt.pending] BY <1>1, <1>5 DEF Routers
<1>7. Notes'
  <2>1. l \in BlockTxs => kern' \subseteq kern \cup Blocks
    <3>1. ASSUME l \in BlockTxs PROVE i \in Blocks
      <4>1. NextCommand \in BlockCommands BY <1>2, <3>1, CommandKinds DEF Types
      <4> QED BY <4>1 DEF BlockCommands
    <3> QED BY <1>3, <3>1
  <2> QED BY <1>1, <1>6, <2>1, CommandNotes
<1>8. Tail(cmds) \in Seq(Commands) BY DEF CommandAt
<1> QED BY <1>1, <1>2, <1>3, <1>4, <1>5, <1>6, <1>7, <1>8, CommandMoves DEF Types

\* A command of a rollback or of a retry has succeeded: what was owed is done.
LEMMA PaysBack == ASSUME IInv, CommandOk, NEW l, CommandAt(l), mode \in {"undo", "pending"} PROVE IInv'
<1>1. /\ cmds # <<>> /\ cmds' = Tail(cmds) /\ undo' = undo
      /\ UNCHANGED <<v6, owner, rt, mg, phase, stack, mode, ret, arg, why, after, faults, crashes>>
  BY DEF CommandOk, callVars
<1>2. Types /\ Latch /\ OwedFits /\ DelBlock /\ OneDel /\ undo \in Seq(Commands) BY DEF IInv, Types
<1>3. NextCommand \in Commands /\ Range(cmds) = {NextCommand} \cup Range(Tail(cmds)) /\ Note(l) /\ AtTop(l)
  BY DEF CommandAt
<1>4. PICK v \in {"add", "del"}, i \in Items : NextCommand = <<v, i>> BY <1>3 DEF Commands
<1>5. /\ v6 \/ i[2] # 6
      /\ v = "add" => kern' = kern \cup {i}
      /\ v = "del" => kern' = (kern \ {i}) \ Gone(i) /\ (i # Link => Gone(i) = {})
      /\ Gone(i) \cap Blocks = {}
      /\ Inverse1(NextCommand) = (IF v = "add" THEN <<"del", i>> ELSE <<"add", i>>)
  BY <1>2, <1>4, EffectIs
<1>6. Owed' \subseteq Owed /\ Owed \ {NextCommand} \subseteq Owed' /\ NextCommand \in Owed
      /\ Owed' = Range(rt.pending) \cup Range(Tail(cmds))
  BY <1>1, <1>3 DEF Owed
<1>7. ASSUME v = "del", i \in Blocks PROVE <<"del", i>> \notin Owed'
  <2>1. Once(cmds) /\ ~(<<"del", i>> \in Range(cmds) /\ <<"del", i>> \in Range(rt.pending)) BY <1>2, <1>7 DEF OneDel
  <2>2. cmds \in Seq(Commands) BY <1>2 DEF Types
  <2>3. <<"del", i>> \notin Range(Tail(cmds)) BY <1>1, <1>4, <1>7, <2>1, <2>2, OnceTail DEF NextCommand
  <2> QED BY <1>3, <1>4, <1>6, <1>7, <2>1, <2>3
<1>8. i \in Blocks \/ (v = "add" <=> i \in Wanted)
  <2>1. NextCommand[1] = v /\ NextCommand[2] = i BY <1>4
  <2> QED BY <1>2, <1>6, <2>1 DEF OwedFits
<1>9. Image \cap Blocks = {} /\ Wanted \cap Blocks = {} /\ (~rt.up => Image = {}) BY WantedIs
<1>10. Kernel'
  <2>1. CASE v = "add"
    <3>1. <<"del", i>> \in Owed' => i \notin Wanted /\ (i \in Blocks => ~rt.blocked)
      <4>1. ASSUME <<"del", i>> \in Owed', i \notin Blocks PROVE i \notin Wanted
        <5>1. <<"del", i>> \in Owed /\ <<"del", i>>[1] = "del" /\ <<"del", i>>[2] = i BY <1>6, <4>1
        <5> QED BY <1>2, <4>1, <5>1 DEF OwedFits
      <4> QED BY <1>2, <1>6, <1>9, <4>1 DEF DelBlock
    <3>2. i \in Blocks => rt.up \/ rt.blocked
      <4>1. SUFFICES ASSUME i \in Blocks PROVE rt.up \/ rt.blocked OBVIOUS
      <4>2. l \in BlockTxs \cup {"set_diff"}
        <5>1. NextCommand[2] = i BY <1>4
        <5>2. l \notin {"set_done", "up_done", "close_pending"} BY <1>2, <4>1, <5>1, CommandKinds
        <5> QED BY <5>2 DEF CommandAt, TxLabels, BlockTxs
      <4>3. CASE l = "set_diff" BY <1>3, <4>3 DEF Note, SetLabels
      <4>4. CASE l \in BlockTxs
        <5>1. l \in TxLabels /\ mode = "undo" BY <4>4 DEF CommandAt, TxLabels, BlockTxs
        <5>2. <<"del", i>> \in Steps(l) BY <1>2, <1>5, <2>1, <5>1, CommandKinds
        <5>3. l # "block_on" BY <5>2 DEF Steps, Adds
        <5>4. TxTop(l) BY <1>3, <5>1 DEF AtTop
        <5> QED BY <4>4, <5>3, <5>4 DEF TxTop, BlockTxs
      <4> QED BY <4>2, <4>3, <4>4
    <3>3. kern' = kern \cup {i} BY <1>5, <2>1
    <3>4. i \notin Blocks => i \in Wanted BY <1>8, <2>1
    <3>5. UNCHANGED <<v6, crashes, phase, rt>> BY <1>1
    <3> QED BY <1>4, <1>5, <1>6, <2>1, <3>1, <3>2, <3>3, <3>4, <3>5, KernelAdds
  <2>2. CASE v = "del"
    <3>1. kern' = (kern \ {i}) \ Gone(i) BY <1>5, <2>2
    <3>2. i \notin Wanted BY <1>8, <1>9, <2>2
    <3>3. Image = {} \/ (Gone(i) = {} /\ i \notin Image)
      <4>1. CASE i = Link
        <5>1. ~rt.up BY <3>2, <4>1 DEF Wanted, Base
        <5> QED BY <1>9, <5>1
      <4>2. CASE i # Link
        <5>1. Gone(i) = {} BY <1>5, <2>2, <4>2
        <5>2. i \notin Image BY <3>2 DEF Wanted
        <5> QED BY <5>1, <5>2
      <4> QED BY <4>1, <4>2
    <3>4. UNCHANGED <<v6, crashes, phase, rt>> BY <1>1
    <3>5. i \in Blocks => <<"del", i>> \notin Owed' BY <1>7, <2>2
    <3> QED BY <1>4, <1>5, <1>6, <2>2, <3>1, <3>3, <3>4, <3>5, KernelDels
  <2> QED BY <2>1, <2>2
<1>11. OneDel'
  <2>1. mode # "tx" OBVIOUS
  <2> QED BY <1>1, <2>1, OneDelTail
<1>12. AtTop(l)'
  <2>1. mode # "tx" /\ l \notin {"up_recovered", "close_recovered", "close_down"} BY DEF CommandAt, TxLabels
  <2> QED BY <1>1, <2>1, RunContinues
<1>13. v = "del" /\ i \in Blocks => ~(phase = "running" /\ mg.verified)
  BY <1>2, <1>4, <1>6 DEF DelBlock, Latch
<1> QED BY <1>1, <1>2, <1>4, <1>6, <1>10, <1>11, <1>12, <1>13, CommandSucceeds

\* A command outside of transactions has succeeded: up and close remove what is
\* left of an earlier owner, or the whole configuration.
LEMMA Removes == ASSUME IInv, CommandOk, NEW l, CommandAt(l), mode = "all" PROVE IInv'
<1>1. /\ cmds # <<>> /\ cmds' = Tail(cmds) /\ undo' = undo
      /\ UNCHANGED <<v6, owner, rt, mg, phase, stack, mode, ret, arg, why, after, faults, crashes>>
  BY DEF CommandOk, callVars
<1>2. Types /\ undo \in Seq(Commands) BY DEF IInv, Types
<1>3. NextCommand \in Commands /\ NextCommand \in Range(cmds) /\ Note(l) /\ AtTop(l) BY DEF CommandAt
<1>4. PICK v \in {"add", "del"}, i \in Items : NextCommand = <<v, i>> BY <1>3 DEF Commands
<1>5. l \in {"up_cleaned", "close_cleaned", "close_down"} BY DEF CommandAt
<1>6. v = "del" /\ i \notin Blocks
  <2>1. NextCommand \in Dels(Rules \cup Exits) \/ NextCommand \in TeardownSteps BY <1>3, <1>5 DEF AtTop
  <2>2. NextCommand[2] = i BY <1>4
  <2>3. i \notin Blocks BY <1>2, <1>5, <2>2, CommandKinds
  <2> QED BY <1>4, <2>1, <2>3 DEF Dels, TeardownSteps
<1>7. kern' = (kern \ {i}) \ Gone(i) /\ Gone(i) \cap Blocks = {} BY <1>2, <1>4, <1>6, EffectIs
<1>8. Owed' = Owed BY <1>1 DEF Owed
<1>9. phase \in {"starting", "running"} => Image = {}
  <2>1. phase \in PhasesOf(Proc(l)) BY DEF CommandAt
  <2>2. CASE l = "up_cleaned"
    <3>1. ~rt.up BY <1>3, <2>2 DEF Note, UpLabels
    <3> QED BY <3>1, WantedIs
  <2>3. CASE l \in {"close_cleaned", "close_down"}
    <3>1. Proc(l) = "close" BY <2>3, Procs DEF CloseLabels
    <3> QED BY <2>1, <3>1 DEF PhasesOf
  <2> QED BY <1>5, <2>2, <2>3
<1>10. Kernel'
  <2>1. UNCHANGED <<v6, crashes, phase, rt>> BY <1>1
  <2> QED BY <1>6, <1>7, <1>8, <1>9, <2>1, KernelDels
<1>11. OneDel' BY <1>1, OneDelTail
<1>12. AtTop(l)'
  <2>1. kern' \subseteq kern /\ NextCommand[2] \notin kern' BY <1>4, <1>7
  <2>2. l \notin {"up_recovered", "close_recovered"} BY <1>5
  <2> QED BY <1>1, <2>1, <2>2, RunContinues
<1> QED BY <1>1, <1>2, <1>4, <1>6, <1>8, <1>10, <1>11, <1>12, CommandSucceeds

\* A command of the recovery has succeeded.
LEMMA Recovers == ASSUME IInv, CommandOk, NEW l, CommandAt(l), mode \in {"rtx", "rundo"} PROVE IInv'
<1>1. /\ cmds # <<>> /\ cmds' = Tail(cmds) /\ undo' = (IF mode = "rtx" THEN <<Inverse1(NextCommand)>> \o undo ELSE undo)
      /\ UNCHANGED <<v6, owner, rt, mg, phase, stack, mode, ret, arg, why, after, faults, crashes>>
  BY DEF CommandOk, callVars
<1>2. Types /\ undo \in Seq(Commands) /\ Recovering BY DEF IInv, Types
<1>3. NextCommand \in Commands /\ NextCommand \in Range(cmds) /\ Note(l) /\ AtTop(l) BY DEF CommandAt
<1>4. PICK v \in {"add", "del"}, i \in Items : NextCommand = <<v, i>> BY <1>3 DEF Commands
<1>5. l \in {"up_recovered", "close_recovered"} BY DEF CommandAt
<1>6. NextCommand \in BlockCommands /\ Range(undo) \subseteq BlockCommands /\ i \in Blocks
  <2>1. NextCommand \in BlockCommands /\ Range(undo) \subseteq BlockCommands BY <1>3, <1>5 DEF AtTop
  <2> QED BY <1>4, <2>1 DEF BlockCommands
<1>7. /\ v6 \/ i[2] # 6
      /\ v = "add" => kern' = kern \cup {i}
      /\ v = "del" => kern' = (kern \ {i}) \ Gone(i)
      /\ Gone(i) \cap Blocks = {}
      /\ Inverse1(NextCommand) = (IF v = "add" THEN <<"del", i>> ELSE <<"add", i>>)
  BY <1>2, <1>4, EffectIs
<1>8. rt.recover /\ crashes # 0 /\ ~rt.up /\ rt.pending = <<>>
  <2>1. rt.recover BY <1>3, <1>5 DEF Note
  <2> QED BY <1>2, <2>1 DEF Recovering, Types
<1>9. Owed = {} /\ Owed' = {} BY <1>1, <1>8, RangeEmpty DEF Owed
<1>10. Image = {} BY <1>8, WantedIs
<1>11. UNCHANGED <<v6, crashes, phase, rt>> BY <1>1
<1>12. Kernel'
  <2>1. CASE v = "add"
    <3>1. kern' = kern \cup {i} BY <1>7, <2>1
    <3> QED BY <1>6, <1>7, <1>8, <1>9, <1>11, <3>1, KernelAdds
  <2>2. CASE v = "del"
    <3>1. kern' = (kern \ {i}) \ Gone(i) BY <1>7, <2>2
    <3> QED BY <1>7, <1>9, <1>10, <1>11, <3>1, KernelDels
  <2> QED BY <2>1, <2>2
<1>13. OneDel'
  <2>1. mode # "tx" OBVIOUS
  <2> QED BY <1>1, <2>1, OneDelTail
<1>14. undo' \in Seq(Commands) /\ Range(undo') \subseteq BlockCommands
  <2> DEFINE b == Inverse1(NextCommand)
  <2>1. b \in Commands /\ b \in BlockCommands
    <3>1. CASE v = "add" BY <1>6, <1>7, <3>1 DEF Commands, BlockCommands
    <3>2. CASE v = "del" BY <1>6, <1>7, <3>2 DEF Commands, BlockCommands
    <3> QED BY <3>1, <3>2
  <2> HIDE DEF b
  <2>2. <<b>> \o undo \in Seq(Commands) /\ Range(<<b>> \o undo) = {b} \cup Range(undo)
    BY <1>2, <2>1, RangeCons
  <2> QED BY <1>1, <1>2, <1>6, <2>1, <2>2 DEF b
<1>15. AtTop(l)'
  <2>1. mode # "tx" /\ l # "close_down" BY <1>5
  <2> QED BY <1>1, <1>14, <2>1, RunContinues
<1>16. phase # "running"
  <2>1. phase \in PhasesOf(Proc(l)) BY DEF CommandAt
  <2>2. Proc(l) \in {"up", "close"} BY <1>5, Procs DEF UpLabels, CloseLabels
  <2> QED BY <2>1, <2>2 DEF PhasesOf
<1> QED BY <1>4, <1>12, <1>13, <1>14, <1>15, <1>16, CommandSucceeds

\* A command of a transaction has succeeded: its inverse joins what is owed.
LEMMA Applies == ASSUME IInv, CommandOk, NEW l, CommandAt(l), mode = "tx" PROVE IInv'
<1>1. /\ cmds # <<>> /\ cmds' = Tail(cmds) /\ undo' = <<Inverse1(NextCommand)>> \o undo
      /\ UNCHANGED <<v6, owner, rt, mg, phase, stack, mode, ret, arg, why, after, faults, crashes>>
  BY DEF CommandOk, callVars
<1>2. Types /\ Latch /\ DelBlock /\ OneDel /\ undo \in Seq(Commands) BY DEF IInv, Types
<1>3. NextCommand \in Commands /\ Note(l) /\ AtTop(l) /\ Top = l /\ stack # <<>> /\ Head(stack) = l BY DEF CommandAt
<1>4. PICK v \in {"add", "del"}, i \in Items : NextCommand = <<v, i>> BY <1>3 DEF Commands
<1>5. l \in TxLabels /\ TxTop(l)
  <2>1. l \in TxLabels BY DEF CommandAt
  <2> QED BY <1>3, <2>1 DEF AtTop
<1> DEFINE b == IF v = "add" THEN <<"del", i>> ELSE <<"add", i>>
<1>6. /\ v6 \/ i[2] # 6
      /\ v = "add" => kern' = kern \cup {i} /\ (i # Link => i \notin kern)
      /\ v = "del" => kern' = (kern \ {i}) \ Gone(i) /\ (i # Link => i \in kern /\ Gone(i) = {})
      /\ Gone(i) \cap Blocks = {}
      /\ Inverse1(NextCommand) = b
  BY <1>2, <1>4, EffectIs
<1>7. <<v, i>> \in Steps(l) BY <1>2, <1>4, <1>5, CommandKinds
<1>8. b \in Commands /\ (v = "add" => b = <<"del", i>>) /\ (v = "del" => b = <<"add", i>>) BY DEF Commands
<1> HIDE DEF b
<1>9. undo' \in Seq(Commands) /\ Range(undo') = {b} \cup Range(undo)
  <2>1. undo' = <<b>> \o undo BY <1>1, <1>6
  <2> QED BY <1>2, <1>8, <2>1, RangeCons
<1>10. Owed' = Owed \cup {b}
  <2>1. Top' = l BY <1>1, <1>3 DEF Top
  <2> QED BY <1>1, <1>3, <1>5, <1>9, <2>1 DEF Owed
<1>11. Link \notin Blocks BY DEF Link, Blocks
<1>12. UNCHANGED <<v6, crashes, phase, rt>> BY <1>1
<1>13. Range(undo) \subseteq Owed /\ Range(rt.pending) \subseteq Owed BY <1>3, <1>5 DEF Owed
<1>14. /\ l \in BlockTxs => i \in Blocks
       /\ l \in {"set_done", "up_done"} => i \notin Blocks
  <2>1. NextCommand[2] = i BY <1>4
  <2> QED BY <1>2, <1>4, <2>1, CommandKinds DEF BlockCommands
<1>15. l = "set_done" =>
         /\ v = "add" => i \in Parts(arg) /\ i \notin Parts(Cfg(rt.config))
         /\ v = "del" => i \in Parts(Cfg(rt.config)) /\ i \notin Parts(arg)
  BY <1>7 DEF Steps, Adds, Dels
<1>16. rt.config \in Configs \cup {None} /\ IsConfig(Cfg(rt.config))
  <2>1. rt.config \in Configs \cup {None} BY <1>2 DEF Types, Routers
  <2> QED BY <2>1, CfgIs, ConfigIs
<1>17. CASE v = "add"
  <2>1. l \in {"block_on", "set_done", "up_done"}
    <3>1. l \notin {"block_off", "unblock_off"} BY <1>7, <1>17 DEF Steps, Dels
    <3> QED BY <1>5, <3>1 DEF TxLabels
  <2>2. kern' = kern \cup {i} /\ b = <<"del", i>> BY <1>6, <1>8, <1>17
  <2>3. i \notin Wanted
    <3>1. CASE l = "block_on" BY <1>14, <3>1, WantedIs DEF BlockTxs
    <3>2. CASE l = "set_done"
      <4>1. i \in Parts(arg) /\ i \notin Parts(Cfg(rt.config)) BY <1>15, <1>17, <3>2
      <4>2. i \notin Image BY <1>16, <4>1, ImageParts DEF Image
      <4>3. i \notin Base BY <4>1, PartsKinds DEF Base, Rules
      <4> QED BY <4>2, <4>3 DEF Wanted
    <3>3. CASE l = "up_done"
      <4>1. ~rt.up BY <1>3, <3>3 DEF Note, UpLabels
      <4> QED BY <4>1, WantedIs
    <3> QED BY <2>1, <3>1, <3>2, <3>3
  <2>4. i \in Blocks => ~rt.blocked /\ i \notin kern
    <3>1. ASSUME i \in Blocks PROVE ~rt.blocked /\ i \notin kern
      <4>1. l = "block_on" BY <1>14, <2>1, <3>1
      <4> QED BY <1>5, <1>6, <1>11, <1>17, <3>1, <4>1 DEF TxTop
    <3> QED BY <3>1
  <2>5. Kernel'
    <3>1. <<"del", i>> \in Owed' BY <1>10, <2>2
    <3>2. Owed' \subseteq Owed \cup {<<"del", i>>} /\ Owed \ {<<"add", i>>} \subseteq Owed' BY <1>10, <2>2
    <3> QED BY <1>6, <1>12, <2>2, <2>3, <2>4, <3>1, <3>2, KernelAdds
  <2>6. i \in Blocks => <<"del", i>> \notin Owed BY <1>2, <2>4 DEF DelBlock
  <2>7. OneDel'
    <3>1. Once(undo) /\ \A j \in Blocks : ~(<<"del", j>> \in Range(undo) /\ <<"del", j>> \in Range(rt.pending))
      BY <1>2, <1>3, <1>5 DEF OneDel
    <3>2. b[1] = "del" /\ b[2] \in Blocks => b \notin Range(undo) BY <1>13, <2>2, <2>6
    <3>3. Once(undo') BY <1>1, <1>2, <1>6, <1>8, <3>1, <3>2, OnceCons
    <3>4. \A j \in Blocks : ~(<<"del", j>> \in Range(undo') /\ <<"del", j>> \in Range(rt.pending))
      BY <1>9, <1>13, <2>2, <2>6, <3>1
    <3> QED BY <1>1, <3>3, <3>4, OneDelTail
  <2>8. AtTop(l)'
    <3>1. Did(<<v, i>>)' BY <1>17, <2>2 DEF Did
    <3>2. ASSUME NEW d \in Steps(l), Did(d) PROVE Did(d)'
      <4>1. CASE d[1] = "add" BY <1>1, <2>2, <3>2, <4>1 DEF Did
      <4>2. CASE d[1] # "add"
        <5>1. PICK j : d = <<"del", j>>
          BY <1>5, <4>2 DEF Steps, TxLabels, Adds, Dels
        <5>2. i # j BY <1>7, <1>17, <3>2, <5>1, StepsDisjoint
        <5>3. j \notin kern BY <3>2, <5>1 DEF Did
        <5> QED BY <2>2, <5>1, <5>2, <5>3 DEF Did
      <4> QED BY <4>1, <4>2
    <3>3. \A d \in Range(undo') : Inverse1(d) \in Steps(l)
      <4>1. Inverse1(b) = <<v, i>> BY <1>17, <2>2 DEF Inverse1
      <4> QED BY <1>5, <1>7, <1>9, <4>1 DEF TxTop
    <3>4. l = "block_on" => \A j \in Blocks : <<"del", j>> \in Range(rt.pending) => NextCommand # <<"add", j>>
      BY <1>4, <1>13, <2>6
    <3> QED BY <1>1, <1>4, <1>5, <3>1, <3>2, <3>3, <3>4, TxContinues
  <2>9. Owed' \cap ExitAdds \subseteq Owed
    <3>1. b \notin ExitAdds BY <2>2 DEF ExitAdds
    <3> QED BY <1>10, <3>1
  <2> QED BY <1>4, <1>9, <1>17, <2>5, <2>7, <2>8, <2>9, CommandSucceeds
<1>18. CASE v = "del"
  <2>1. l \in {"block_off", "unblock_off", "set_done"}
    <3>1. l \notin {"block_on", "up_done"} BY <1>7, <1>18 DEF Steps, Adds
    <3> QED BY <1>5, <3>1 DEF TxLabels
  <2>2. i # Link
    <3>1. CASE l = "set_done" BY <1>15, <1>18, <3>1, PartsKinds
    <3>2. CASE l \in BlockTxs BY <1>11, <1>14, <3>2
    <3> QED BY <2>1, <3>1, <3>2 DEF BlockTxs
  <2>3. kern' = kern \ {i} /\ i \in kern /\ b = <<"add", i>> BY <1>6, <1>8, <1>18, <2>2
  <2>4. i \in Wanted \cup Blocks
    <3>1. CASE l = "set_done"
      <4>1. i \in Image BY <1>6, <1>15, <1>16, <1>18, <3>1, ImageParts DEF Image
      <4> QED BY <4>1 DEF Wanted
    <3>2. CASE l \in BlockTxs BY <1>14, <3>2
    <3> QED BY <2>1, <3>1, <3>2 DEF BlockTxs
  <2>5. i \in Blocks => rt.blocked
    <3>1. ASSUME i \in Blocks PROVE l \in {"block_off", "unblock_off"} BY <1>14, <2>1, <3>1
    <3> QED BY <1>5, <3>1 DEF TxTop
  <2>6. <<"add", i>> \in Owed' /\ Owed' \subseteq Owed \cup {<<"add", i>>} /\ Owed \ {<<"del", i>>} \subseteq Owed' BY <1>10, <2>3
  <2>7. i \in Blocks => <<"del", i>> \notin Owed'
    <3>1. i \in Blocks => <<"del", i>> \notin Owed BY <1>2, <2>5 DEF DelBlock
    <3>2. <<"del", i>> # b BY <2>3
    <3> QED BY <1>10, <3>1, <3>2
  <2>8. Kernel'
    <3>1. kern' = (kern \ {i}) \ {} /\ {} \cap Blocks = {} BY <2>3
    <3> QED BY <1>12, <2>4, <2>6, <2>7, <3>1, KernelDels
  <2>9. OneDel'
    <3>1. Once(undo) /\ \A j \in Blocks : ~(<<"del", j>> \in Range(undo) /\ <<"del", j>> \in Range(rt.pending))
      BY <1>2, <1>3, <1>5 DEF OneDel
    <3>2. b[1] # "del" /\ \A j : b # <<"del", j>> BY <2>3
    <3>3. Once(undo') BY <1>1, <1>2, <1>6, <1>8, <3>1, <3>2, OnceCons
    <3>4. \A j \in Blocks : ~(<<"del", j>> \in Range(undo') /\ <<"del", j>> \in Range(rt.pending))
      BY <1>9, <3>1, <3>2
    <3> QED BY <1>1, <3>3, <3>4, OneDelTail
  <2>10. AtTop(l)'
    <3>1. Did(<<v, i>>)' BY <1>18, <2>3 DEF Did
    <3>2. ASSUME NEW d \in Steps(l), Did(d) PROVE Did(d)'
      <4>1. CASE d[1] # "add" BY <1>1, <2>3, <3>2, <4>1 DEF Did
      <4>2. CASE d[1] = "add"
        <5>1. PICK j : d = <<"add", j>>
          BY <1>5, <4>2 DEF Steps, TxLabels, Adds, Dels
        <5>2. i # j BY <1>7, <1>18, <3>2, <5>1, StepsDisjoint
        <5>3. j \in kern \/ (~v6 /\ j[2] = 6) BY <3>2, <5>1 DEF Did
        <5> QED BY <1>1, <2>3, <5>1, <5>2, <5>3 DEF Did
      <4> QED BY <4>1, <4>2
    <3>3. \A d \in Range(undo') : Inverse1(d) \in Steps(l)
      <4>1. Inverse1(b) = <<v, i>> BY <1>18, <2>3 DEF Inverse1
      <4> QED BY <1>5, <1>7, <1>9, <4>1 DEF TxTop
    <3>4. \A j : NextCommand # <<"add", j>> BY <1>4, <1>18
    <3> QED BY <1>1, <1>4, <1>5, <3>1, <3>2, <3>3, <3>4, TxContinues
  <2>11. phase = "running" => Owed' \cap ExitAdds \subseteq Owed \/ mg.verified
    <3>1. SUFFICES ASSUME phase = "running", b \in ExitAdds PROVE mg.verified BY <1>10
    <3>2. i \in Exits BY <2>3, <3>1 DEF ExitAdds, Exits
    <3>3. l = "set_done"
      <4>1. i \notin Blocks BY <3>2 DEF Exits, Blocks
      <4> QED BY <1>14, <2>1, <4>1 DEF BlockTxs
    <3>4. Cfg(rt.config).exit /\ ~arg.exit
      <4>1. \A c : i \in Parts(c) <=> c.exit BY <3>2 DEF Parts, ExitsOf, Exits
      <4>2. i \in Parts(Cfg(rt.config)) /\ i \notin Parts(arg) BY <1>15, <1>18, <3>3
      <4> QED BY <4>1, <4>2
    <3> QED BY <1>3, <3>1, <3>3, <3>4 DEF Note, SetLabels
  <2>12. i \in Blocks => ~(phase = "running" /\ mg.verified)
    <3>1. ASSUME i \in Blocks, phase = "running" PROVE ~mg.verified
      <4>1. l \in BlockLabels \cup UnblockLabels BY <1>14, <2>1, <3>1 DEF BlockLabels, UnblockLabels
      <4> QED BY <1>3, <3>1, <4>1, Unverified
    <3> QED BY <3>1
  <2> QED BY <1>4, <1>9, <1>18, <2>8, <2>9, <2>10, <2>11, <2>12, CommandSucceeds
<1> QED BY <1>17, <1>18

\* A command succeeds, in a transaction, a rollback or retry, a teardown or a recovery.
LEMMA StepCommandOk == ASSUME IInv, CommandOk PROVE IInv'
<1>1. PICK l : CommandAt(l) BY CommandIs DEF CommandOk
<1>2. mode \in {"tx", "undo", "pending", "all", "rtx", "rundo"} BY DEF IInv, Types
<1>3. CASE mode = "tx" BY <1>1, <1>3, Applies
<1>4. CASE mode \in {"undo", "pending"} BY <1>1, <1>4, PaysBack
<1>5. CASE mode = "all" BY <1>1, <1>5, Removes
<1>6. CASE mode \in {"rtx", "rundo"} BY <1>1, <1>6, Recovers
<1> QED BY <1>2, <1>3, <1>4, <1>5, <1>6

-----------------------------------------------------------------------------
(* What always holds *)

\* Every step of the specification preserves the invariant.
LEMMA NextIInv == ASSUME IInv, [Next]_vars PROVE IInv'
<1>1. CASE Command BY <1>1, StepCommandOk, StepCommandNonFatal, StepCommandFails DEF Command
<1>2. CASE RouterStep
  BY <1>2, StepBlockDirect, StepBlockRemnantsGone, StepBlockInstalled, StepUnblockDirect, StepUnblockRemoved,
     StepUnblockRestored, StepSet, StepSetApply, StepSetDone, StepUp, StepClaimWrite, StepUpClaimed, StepUpCleans,
     StepUpRecovers, StepUpRecovered, StepUpDone, StepClose, StepCloseRecovers, StepCloseRecovered, StepCloseBody,
     StepCloseBlocked, StepCloseTeardown, StepCloseDown, StepCloseDone
  DEF RouterStep
<1>3. CASE ManagedStep
  BY <1>3, StepEnsure, StepEnsured, StepClear, StepClearUnblock, StepClearDone, StepClearRestored, StepSyncStart,
     StepSyncVerified, StepSyncCover, StepSyncSet, StepSyncApplied, StepSyncCleared, StepSyncAfter, StepStartUp,
     StepStartBlocked, StepStartSet, StepStartApplied, StepStartOpen, StepClosed
  DEF ManagedStep
<1>4. CASE \E c \in Configs, rs \in {{}, {"map"}, {"link"}} : Sync(c, rs) BY <1>4, StepSync
<1>5. CASE \E r \in Reasons : Engage(r) BY <1>5, StepEngage
<1>6. CASE \E c \in Configs : Start(c) BY <1>6, StepStart
<1>7. CASE CloseOwner BY <1>7, StepCloseOwner
<1>8. CASE Crash BY <1>8, StepCrash
<1>9. CASE UNCHANGED vars
  <2>1. /\ UNCHANGED <<kern, v6, owner, rt, mg, phase, stack, mode, cmds, undo, ret, arg, why, after, faults, crashes>>
    BY <1>9 DEF vars, kernelVars, execVars, callVars
  <2>2. Top' = Top BY <2>1 DEF Top
  <2>3. Owed' = Owed /\ Image' = Image BY <2>1, <2>2 DEF Owed, Image, ImageOf, Cfg
  <2>4. Wanted' = Wanted BY <2>1, <2>3 DEF Wanted, Base
  <2>5. Types' /\ Frames' /\ NoV6' BY <2>1 DEF IInv, Types, Frames, NoV6
  <2>6. OwedFits' /\ Upper' /\ Lower' /\ BlockUpper' /\ DelBlock' BY <2>1, <2>3, <2>4 DEF IInv, OwedFits, Upper, Lower, BlockUpper, DelBlock
  <2>7. OneDel' BY <2>1, <2>2 DEF IInv, OneDel
  <2>8. Latch' BY <2>1 DEF IInv, Latch, Blocked, BlockActive
  <2>9. ExitOwed' /\ ExitKnown' BY <2>1, <2>2, <2>3 DEF IInv, ExitOwed, ExitKnown, Cfg
  <2>10. Ownership' /\ Recovering' /\ Phases' BY <2>1, <2>2 DEF IInv, Ownership, Recovering, Phases
  <2>11. Notes' BY <2>1 DEF IInv, Notes, Note, Cfg, Pure
  <2>12. TopFits'
    <3>1. ASSUME NEW l, TxTop(l) PROVE TxTop(l)'
      <4>1. Steps(l)' = Steps(l) BY <2>1, StepsStay
      <4>2. \A c : Did(c) => Did(c)' BY <2>1 DEF Did
      <4> QED BY <2>1, <3>1, <4>1, <4>2 DEF TxTop
    <3>2. TeardownSteps' = TeardownSteps BY <2>1, StepsStay
    <3>3. (Blocked => Blocked') /\ (NeedsCover' => NeedsCover) BY <2>1 DEF Blocked, BlockActive, NeedsCover, Leaving
    <3>4. ASSUME NEW l, AtTop(l) PROVE AtTop(l)'
      <4>1. /\ kern' = kern /\ rt' = rt /\ mg' = mg /\ stack' = stack /\ mode' = mode /\ cmds' = cmds /\ undo' = undo
            /\ ret' = ret /\ arg' = arg /\ crashes' = crashes BY <2>1
      <4>2. (l \notin TxLabels \cup RunLabels => cmds = <<>>)' BY <3>4, <4>1 DEF AtTop
      <4>3. (l \in TxLabels => TxTop(l))' BY <3>1, <3>4, <4>1 DEF AtTop
      <4>4. (l \in {"set_diff", "up_retried", "close_pending"} =>
               mode = "pending" /\ (ret = "ok" => rt.pending = <<>>))' BY <3>4, <4>1 DEF AtTop
      <4>5. (l = "close_pending" => (Range(cmds) \cup Range(rt.pending)) \cap BlockCommands = {})'
        BY <3>4, <4>1 DEF AtTop
      <4>6. (l = "up_retried" => cmds = <<>>)' BY <3>4, <4>1 DEF AtTop
      <4>7. (l \in {"up_cleaned", "close_cleaned"} => mode = "all" /\ Range(cmds) \subseteq Dels(Rules \cup Exits))'
        BY <3>4, <4>1 DEF AtTop
      <4>8. (l = "close_down" =>
               /\ mode = "all" /\ Range(cmds) \subseteq TeardownSteps
               /\ ret = "ok" => rt.pending = <<>> /\ \A c \in TeardownSteps : c \in Range(cmds) \/ c[2] \notin kern
               /\ Range(rt.pending) \cap BlockCommands = {})' BY <3>2, <3>4, <4>1 DEF AtTop
      <4>9. (l \in {"up_recovered", "close_recovered"} =>
               mode \in {"rtx", "rundo"} /\ Range(cmds) \cup Range(undo) \subseteq BlockCommands)'
        BY <3>4, <4>1 DEF AtTop
      <4>10. (l \in {"start_blocked", "close_blocked", "ensured", "sync_verified", "clear_restored"} /\ ret = "ok" =>
                Blocked /\ rt.blocked /\ Range(rt.pending) \cap BlockCommands = {})' BY <3>3, <3>4, <4>1 DEF AtTop
      <4>11. (l = "unblock" /\ stack[2] = "close_unblocked" => rt.blocked)' BY <3>4, <4>1 DEF AtTop
      <4>12. (l = "close_unblocked" /\ ret = "ok" => kern \cap Blocks = {})' BY <3>4, <4>1 DEF AtTop
      <4>13. (l = "closed" /\ ret = "ok" => ~rt.owned /\ (crashes = 0 => kern = {}))' BY <3>4, <4>1 DEF AtTop
      <4>14. (l = "start_up" /\ ret = "ok" => rt.up /\ ~rt.recover)' BY <3>4, <4>1 DEF AtTop
      <4>15. (l \in {"sync_applied", "start_applied"} /\ ret = "ok" => rt.config = arg /\ rt.pending = <<>> /\ rt.up /\ ~rt.recover)'
        BY <3>4, <4>1 DEF AtTop
      <4>16. (l = "sync_set" /\ ret = "ok" => (NeedsCover => mg.verified))' BY <3>3, <3>4, <4>1 DEF AtTop
      <4> QED BY <4>2, <4>3, <4>4, <4>5, <4>6, <4>7, <4>8, <4>9, <4>10, <4>11, <4>12, <4>13, <4>14, <4>15, <4>16 DEF AtTop
    <3> QED BY <2>2, <3>4 DEF IInv, TopFits
  <2> QED BY <2>5, <2>6, <2>7, <2>8, <2>9, <2>10, <2>11, <2>12 DEF IInv
<1> QED BY <1>1, <1>2, <1>3, <1>4, <1>5, <1>6, <1>7, <1>8, <1>9 DEF Next, Running

\* and so it always holds.
LEMMA IInvAlways == Spec => []IInv
<1>1. Init => IInv BY Initially
<1>2. IInv /\ [Next]_vars => IInv' BY NextIInv
<1> QED BY <1>1, <1>2, PTL DEF Spec

\* Every variable has its type, whatever fails and whenever the process dies.
THEOREM TypesHold == Spec => []TypeOK
<1>1. IInv => TypeOK
  <2> SUFFICES ASSUME IInv PROVE TypeOK OBVIOUS
  <2>1. Types BY DEF IInv
  <2> QED BY <2>1 DEF Types, TypeOK, Routers, Latches
<1> QED BY <1>1, IInvAlways, PTL

\* A block the latch holds for verified is in the kernel, at every command of
\* every sync (security_block_verified in ManagedRouter).
THEOREM LatchHolds == Spec => []VerifiedIsBlocked
<1>1. IInv => VerifiedIsBlocked BY DEF IInv, Latch, VerifiedIsBlocked
<1> QED BY <1>1, IInvAlways, PTL

\* With an exit node in force traffic is captured or blocked at every command of
\* a sync, of its rollback and of a retry (apply_managed_router_config, set).
THEOREM NoLeak == Spec => []RunningNeverLeaks
<1>1. IInv => RunningNeverLeaks
  <2> SUFFICES ASSUME IInv, phase = "running", Cfg(rt.config).exit PROVE CatchAll \/ Blocked
    BY DEF RunningNeverLeaks
  <2>1. Lower /\ ExitOwed /\ Latch BY DEF IInv
  <2>2. CASE Owed \cap ExitAdds # {} BY <2>1, <2>2 DEF ExitOwed, Latch
  <2>3. CASE Owed \cap ExitAdds = {}
    <3>1. <<"exit", 4>> \in Image /\ (v6 => <<"exit", 6>> \in Image) BY DEF Image, ImageOf
    <3>2. <<"add", <<"exit", 4>>>> \notin Owed /\ <<"add", <<"exit", 6>>>> \notin Owed BY <2>3 DEF ExitAdds
    <3>3. \A i \in Image : i \in kern \/ <<"add", i>> \in Owed BY <2>1 DEF Lower
    <3> QED BY <3>1, <3>2, <3>3 DEF CatchAll
  <2> QED BY <2>2, <2>3
<1> QED BY <1>1, IInvAlways, PTL

\* Before the first fault and the first crash a record that nobody owns is one
\* that is being written.
RecordKept ==
  faults = 0 /\ crashes = 0 /\ owner \in {"torn", "left"} => stack # <<>> /\ Head(stack) = "claim_write"

\* A step of a call that leaves the record alone.
LEMMA RecordStays ==
  ASSUME Types, RecordKept, UNCHANGED <<owner, crashes>>, UNCHANGED faults \/ (faults < MaxFail /\ faults' = faults + 1),
         UNCHANGED stack \/ stack = <<>> \/ Head(stack) # "claim_write"
  PROVE  RecordKept'
BY RouterAssumption DEF Types, RecordKept

\* Every step of the specification preserves it.
LEMMA NextRecord == ASSUME Types, RecordKept, [Next]_vars PROVE RecordKept'
<1>1. CASE Command
  BY <1>1, RecordStays DEF Command, CommandOk, CommandNonFatal, CommandFails, kernelVars
<1>2. CASE BlockDirect \/ BlockRemnantsGone \/ BlockInstalled \/ UnblockDirect \/ UnblockRemoved \/ UnblockRestored
  BY <1>2, RecordStays DEF BlockDirect, BlockRemnantsGone, BlockInstalled, UnblockDirect, UnblockRemoved, UnblockRestored,
     kernelVars, At, VerifyOk, VerifyFails
<1>3. CASE Set \/ SetApply \/ SetDone BY <1>3, RecordStays DEF Set, SetApply, SetDone, kernelVars, At
<1>4. CASE Up
  <2>1. stack # <<>> /\ Head(stack) = "up" /\ UNCHANGED crashes BY <1>4 DEF Up, At
  <2>2. CASE owner' = "torn" /\ Goto(Then(<<"claim_write">>)) BY <2>2 DEF RecordKept, Goto, Then
  <2>3. CASE \E r \in BOOLEAN : Owned(r) BY <2>3 DEF RecordKept, Owned
  <2>4. CASE UNCHANGED owner /\ (UNCHANGED faults \/ RecordFault) BY <2>1, <2>4, RecordStays DEF RecordFault
  <2> QED BY <1>4, <2>2, <2>3, <2>4 DEF Up
<1>5. CASE ClaimWrite
  <2>1. CASE Owned(FALSE) BY <2>1 DEF RecordKept, Owned
  <2>2. CASE RecordFault BY <2>2, RouterAssumption DEF RecordFault, RecordKept, Types
  <2> QED BY <1>5, <2>1, <2>2 DEF ClaimWrite
<1>6. ASSUME GiveUpRecord, UNCHANGED crashes, stack = <<>> \/ Head(stack) # "claim_write" PROVE RecordKept'
  <2>1. CASE owner' = "none" BY <2>1 DEF RecordKept
  <2>2. CASE RecordFault BY <2>2, RouterAssumption DEF RecordFault, RecordKept, Types
  <2>3. CASE UNCHANGED <<owner, faults>> BY <1>6, <2>3, RecordStays
  <2> QED BY <1>6, <2>1, <2>2, <2>3 DEF GiveUpRecord
<1>7. ASSUME UpFails, UNCHANGED crashes, stack = <<>> \/ Head(stack) # "claim_write" PROVE RecordKept'
  <2>1. CASE GiveUpRecord BY <1>6, <1>7, <2>1
  <2>2. CASE UNCHANGED <<owner, faults>> BY <1>7, <2>2, RecordStays
  <2> QED BY <1>7, <2>1, <2>2 DEF UpFails
<1>8. CASE UpClaimed BY <1>8, RecordStays DEF UpClaimed, kernelVars, At
<1>9. CASE UpCleans BY <1>7, <1>9, RecordStays DEF UpCleans, At
<1>10. CASE UpRecovers BY <1>7, <1>10, RecordStays DEF UpRecovers, At, ShowFails, RunRecovery
<1>11. CASE UpRecovered BY <1>11, RecordStays DEF UpRecovered, At, ShowFails
<1>12. CASE UpDone BY <1>7, <1>12, RecordStays DEF UpDone, At
<1>13. CASE Close \/ CloseRecovers \/ CloseRecovered \/ CloseBlocked \/ CloseTeardown \/ CloseDown
  BY <1>13, RecordStays DEF Close, CloseRecovers, CloseRecovered, CloseBlocked, CloseTeardown, CloseDown, kernelVars, At,
     ShowFails, RunRecovery
<1>14. CASE CloseBody BY <1>6, <1>14, RecordStays DEF CloseBody, At
<1>15. CASE CloseDone BY <1>6, <1>15, RecordStays DEF CloseDone, At
<1>16. CASE Ensure \/ Ensured \/ Clear \/ ClearUnblock \/ ClearDone \/ ClearRestored
  BY <1>16, RecordStays DEF Ensure, Ensured, Clear, ClearUnblock, ClearDone, ClearRestored, kernelVars, At
<1>17. CASE SyncStart \/ SyncVerified \/ SyncCover \/ SyncSet \/ SyncApplied \/ SyncCleared \/ SyncAfter
  BY <1>17, RecordStays DEF SyncStart, SyncVerified, SyncCover, SyncSet, SyncApplied, SyncCleared, SyncAfter, kernelVars, At
<1>18. CASE StartUp \/ StartBlocked \/ StartSet \/ StartApplied \/ StartOpen \/ Closed
  BY <1>18, RecordStays DEF StartUp, StartBlocked, StartSet, StartApplied, StartOpen, Closed, kernelVars, At
<1>19. CASE \E c \in Configs, rs \in {{}, {"map"}, {"link"}} : Sync(c, rs)
  BY <1>19, RecordStays DEF Sync, Idle, kernelVars
<1>20. CASE (\E r \in Reasons : Engage(r)) \/ (\E c \in Configs : Start(c)) \/ CloseOwner
  BY <1>20, RecordStays DEF Engage, Start, CloseOwner, Idle, kernelVars
<1>21. CASE Crash BY <1>21, RouterAssumption DEF Crash, RecordKept, Types
<1>22. CASE UNCHANGED vars BY <1>22, RecordStays DEF vars, kernelVars, execVars
<1>23. RouterStep => RecordKept'
  BY <1>2, <1>3, <1>4, <1>5, <1>8, <1>9, <1>10, <1>11, <1>12, <1>13, <1>14, <1>15 DEF RouterStep
<1>24. ManagedStep => RecordKept' BY <1>16, <1>17, <1>18 DEF ManagedStep
<1> QED BY <1>1, <1>19, <1>20, <1>21, <1>22, <1>23, <1>24 DEF Next, Running

\* A close that reports success has emptied the kernel and given up the record;
\* a record that stays is nobody's, and stays only after a fault
\* (StatefulRouter::close, claim_ownership, release_ownership).
THEOREM CloseIsClean == Spec => []CleanClose
<1>1. IInv /\ RecordKept => CleanClose
  <2> SUFFICES ASSUME IInv, RecordKept, phase = "off", crashes = 0
               PROVE  kern = {} /\ owner \in {"none", "torn", "left"} /\ (faults = 0 => owner = "none")
    BY DEF CleanClose
  <2>1. kern = {} /\ ~rt.owned BY DEF IInv, Phases
  <2>2. stack = <<>>
    <3>1. FramesOf(stack, "off") BY DEF IInv, Frames
    <3>2. stack \in Seq({}) BY <3>1, LabelsAre DEF FramesOf
    <3> QED BY <3>2
  <2>3. owner \in {"none", "torn", "left"} BY <2>1 DEF IInv, Types, Ownership
  <2> QED BY <2>1, <2>2, <2>3 DEF RecordKept
<1>2. Init => RecordKept BY DEF Init, RecordKept
<1>3. IInv /\ RecordKept /\ [Next]_vars => RecordKept' BY NextRecord DEF IInv
<1> QED BY <1>1, <1>2, <1>3, IInvAlways, PTL DEF Spec

\* set is all or nothing: between calls the routes and addresses in the kernel
\* are those of the recorded configuration, whatever failed before, unless an
\* inverse is kept for a retry (StatefulRouter::set, apply_transaction).
THEOREM SetHolds == Spec => []SetIsAtomic
<1>1. IInv => SetIsAtomic
  <2> DEFINE Kinds == {"addr", "route", "throw", "exit"}
  <2> SUFFICES ASSUME IInv, Idle, phase = "running", rt.pending = <<>>, crashes = 0
               PROVE  {i \in kern : i[1] \in Kinds} = Image
    BY DEF SetIsAtomic
  <2>1. Owed = {} BY IdleIs, RangeEmpty
  <2>2. Upper /\ Lower BY DEF IInv
  <2>3. \A i \in Blocks \cup Base : i[1] \notin Kinds BY DEF Blocks, Base, Link
  <2>4. \A i \in Image : i[1] \in Kinds BY DEF Image, ImageOf
  <2>5. ASSUME NEW i \in kern, i[1] \in Kinds PROVE i \in Image
    <3>1. i \in Wanted BY <2>1, <2>2, <2>3, <2>5 DEF Upper
    <3> QED BY <2>3, <2>5, <3>1 DEF Wanted
  <2>6. Image \subseteq kern BY <2>1, <2>2 DEF Lower
  <2> QED BY <2>4, <2>5, <2>6
<1> QED BY <1>1, IInvAlways, PTL
=============================================================================
