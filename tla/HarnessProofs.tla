----------------------------- MODULE HarnessProofs -----------------------------
(***************************************************************************)
(* The nodes' own decisions add up to the network the test asked for, for    *)
(* every set of nodes and every number of commands.                          *)
(***************************************************************************)
EXTENDS Harness, TLAPS

------------------------------------------------------------------------------
(* The inductive invariant.                                                 *)

\* main has not yet prepared the node's interceptor.
NotUp(n) == phase[n] \notin {"up", "gone"}

\* Every disconnect or reconnect is treated node by node and id by id.
Moving == command \in {"disconnect", "reconnect"}

\* A node that is prepared has every id in one of its two sets.
UpOK(n) == phase[n] = "up" => rank1[n] = Node \ rank2[n] /\ type[n] = fail_type

\* A node that is not has been told of no cut, and no cut has returned.
NotUpOK(n) ==
  NotUp(n) => /\ type[n] = "FAILURE" /\ rank2[n] = {} /\ cut = {}
              /\ phase[n] = "ranked" => rank1[n] = Node
              /\ Moving => \A id \in ids : <<n, id>> \in pending

\* An id is cut off at a node as the commands that returned left it, or as the
\* one under way wants it when the node has treated it.
Stands(n, id) == ~Moving \/ id \notin ids \/ <<n, id>> \in pending
RankOK(n) == \A id \in Node :
               /\ Stands(n, id) => (id \in rank2[n] <=> id \in cut)
               /\ ~Stands(n, id) => (id \in rank2[n] <=> command = "disconnect")

NodeOK(n) == /\ phase[n] = "gone" => command = "killed"
             /\ UpOK(n) /\ NotUpOK(n) /\ RankOK(n)
PendingNamed == Moving => \A n, id \in Node : <<n, id>> \in pending => id \in ids
Told == PendingNamed /\ \A n \in Node : NodeOK(n)

HarnessInv == TypeOK /\ (~early => Told)

LEMMA HarnessInit == Init => HarnessInv
<1> SUFFICES ASSUME Init PROVE HarnessInv
  OBVIOUS
<1>1. TypeOK
  BY DEF Init, TypeOK
<1>2. PendingNamed /\ \A n \in Node : NodeOK(n)
  BY DEF Init, PendingNamed, NodeOK, UpOK, NotUpOK, RankOK, NotUp, Moving, Stands
<1> QED
  BY <1>1, <1>2 DEF HarnessInv, Told

------------------------------------------------------------------------------
(* Types.                                                                   *)

LEMMA TypeNodes ==
  ASSUME TypeOK, NEW n \in Node,
         \/ ServeTester(n) \/ ReportReady(n) \/ ReportLost(n) \/ SetupRank(n) \/ SetType(n)
         \/ NodeRun(n) \/ NodeKill(n)
  PROVE  TypeOK'
<1> USE HarnessAssumption DEF TypeOK, Advance
<1>1. CASE ServeTester(n) \/ ReportLost(n)
  BY <1>1 DEF ServeTester, ReportLost, ctrlVars
<1>2. CASE SetupRank(n)
  BY <1>2 DEF SetupRank, ctrlVars
<1>3. CASE SetType(n)
  <2>1. fail_type \in {"FAILURE", "PARTITION"}
    OBVIOUS
  <2> QED
    BY <1>3, <2>1 DEF SetType, ctrlVars
<1>4. CASE NodeRun(n) \/ NodeKill(n)
  BY <1>4 DEF NodeRun, NodeKill
<1>5. CASE ReportReady(n)
  BY <1>5 DEF ReportReady
<1> QED
  BY <1>1, <1>2, <1>3, <1>4, <1>5

LEMMA MoveTypes ==
  ASSUME NEW from, NEW to, NEW x, NEW y, from \in [Node -> SUBSET Node],
         to \in [Node -> SUBSET Node], NEW n \in Node, NEW id \in Node,
         x = [from EXCEPT ![n] = @ \ {id}],
         y = [to EXCEPT ![n] = IF id \in from[n] THEN @ \cup {id} ELSE @]
  PROVE  /\ x \in [Node -> SUBSET Node] /\ y \in [Node -> SUBSET Node]
         /\ \A m \in Node : m # n => x[m] = from[m] /\ y[m] = to[m]
         /\ x[n] = from[n] \ {id}
         /\ y[n] = IF id \in from[n] THEN to[n] \cup {id} ELSE to[n]
  OBVIOUS

LEMMA TypeMoves ==
  ASSUME TypeOK, NEW n \in Node, NEW id \in Node,
         NodeDisconnect(n, id) \/ NodeReconnect(n, id)
  PROVE  TypeOK'
<1>1. rank1' \in [Node -> SUBSET Node] /\ rank2' \in [Node -> SUBSET Node]
  <2>1. rank1 \in [Node -> SUBSET Node] /\ rank2 \in [Node -> SUBSET Node]
    BY DEF TypeOK
  <2>2. CASE NodeDisconnect(n, id)
    BY <2>1, <2>2, MoveTypes DEF NodeDisconnect, Move
  <2>3. CASE NodeReconnect(n, id)
    BY <2>1, <2>3, MoveTypes DEF NodeReconnect, Move
  <2> QED
    BY <2>2, <2>3
<1>2. pending' \subseteq Node \X Node /\ early' \in BOOLEAN
  BY DEF NodeDisconnect, NodeReconnect, TypeOK
<1>3. UNCHANGED <<fail_type, phase, type, active, ready, command, ids, cut, commands, exited>>
  BY DEF NodeDisconnect, NodeReconnect
<1> QED
  BY <1>1, <1>2, <1>3 DEF TypeOK

LEMMA TypeControl ==
  ASSUME TypeOK,
         Connect \/ GiveRun \/ GiveDisconnect \/ GiveReconnect \/ Return
           \/ CallFailed \/ GiveKill \/ KillProcesses
  PROVE  TypeOK'
<1>1. CASE Connect
  BY <1>1 DEF Connect, nodeVars, TypeOK
<1>2. ASSUME NEW c \in {"run", "disconnect", "reconnect", "kill"}, NEW who \in SUBSET Node,
             Give(c, who)
      PROVE  TypeOK'
  <2>1. pending' \subseteq Node \X Node
    BY <1>2 DEF Give
  <2>2. commands' \in Nat /\ ids' \subseteq Node
    BY <1>2 DEF Give, TypeOK
  <2>3. command' \in {"run", "disconnect", "reconnect", "kill"}
    BY <1>2 DEF Give
  <2>4. UNCHANGED <<fail_type, phase, rank1, rank2, type, active, ready, cut, exited, early>>
    BY <1>2 DEF Give, nodeVars
  <2> QED
    BY <2>1, <2>2, <2>3, <2>4 DEF TypeOK
<1>3. CASE Return
  BY <1>3 DEF Return, nodeVars, TypeOK
<1>4. CASE KillProcesses
  BY <1>4 DEF KillProcesses, TypeOK
<1>5. CASE CallFailed
  BY <1>5 DEF CallFailed, nodeVars, TypeOK
<1> QED
  BY <1>1, <1>2, <1>3, <1>4, <1>5 DEF GiveRun, GiveDisconnect, GiveReconnect, GiveKill

------------------------------------------------------------------------------
(* Steps.                                                                   *)

\* A node whose own state, and what is pending of it, a step leaves alone,
\* while no command begins or ends.
Alike(n) == /\ phase'[n] = phase[n] /\ rank1'[n] = rank1[n] /\ rank2'[n] = rank2[n]
            /\ type'[n] = type[n]
            /\ \A id \in Node : <<n, id>> \in pending' <=> <<n, id>> \in pending
Same == UNCHANGED <<fail_type, command, ids, cut>>

LEMMA AlikeOK ==
  ASSUME TypeOK, Same, NEW n \in Node, Alike(n), NodeOK(n)
  PROVE  NodeOK(n)'
<1>1. UpOK(n)'
  BY DEF Alike, Same, NodeOK, UpOK
<1>2. ids \subseteq Node
  BY DEF TypeOK
<1>3. NotUpOK(n)'
  BY <1>2 DEF Alike, Same, NodeOK, NotUpOK, NotUp, Moving
<1>4. RankOK(n)'
  BY DEF Alike, Same, NodeOK, RankOK, Stands, Moving
<1> QED
  BY <1>1, <1>3, <1>4 DEF NodeOK, Alike, Same

\* A step of main, from a state before the last.
LEMMA ToldMain ==
  ASSUME TypeOK, TypeOK', Told, NEW n \in Node,
         ServeTester(n) \/ ReportReady(n) \/ ReportLost(n) \/ SetupRank(n) \/ SetType(n)
  PROVE  Told'
<1>1. Same /\ UNCHANGED pending
  BY DEF ServeTester, ReportReady, ReportLost, SetupRank, SetType, Same, ctrlVars
<1>2. PendingNamed'
  BY <1>1 DEF Told, PendingNamed, Same, Moving
<1>3. \A m \in Node : m # n => Alike(m)
  BY <1>1 DEF ServeTester, ReportReady, ReportLost, SetupRank, SetType, Advance, Alike, TypeOK, ctrlVars
<1>4. NodeOK(n)'
  <2>1. NotUp(n) /\ NodeOK(n)
    BY DEF ServeTester, ReportReady, ReportLost, SetupRank, SetType, Advance, NotUp, Told
  <2>2. /\ type[n] = "FAILURE" /\ rank2[n] = {} /\ cut = {}
        /\ phase[n] = "ranked" => rank1[n] = Node
        /\ Moving => \A id \in ids : <<n, id>> \in pending
    BY <2>1 DEF NodeOK, NotUpOK
  <2>3. rank2'[n] = {} /\ phase'[n] # "gone"
    BY <2>2 DEF ServeTester, ReportReady, ReportLost, SetupRank, SetType, Advance, TypeOK
  <2>4. RankOK(n)'
    BY <1>1, <2>2, <2>3 DEF RankOK, Stands, Moving, Same
  <2>5. UpOK(n)'
    BY <2>2 DEF ServeTester, ReportReady, ReportLost, SetupRank, SetType, Advance, TypeOK, UpOK
  <2>6. phase'[n] = "ranked" => rank1'[n] = Node
    BY DEF ServeTester, ReportReady, ReportLost, SetupRank, SetType, Advance, TypeOK
  <2>7. phase'[n] # "up" => type'[n] = "FAILURE"
    BY <2>2 DEF ServeTester, ReportReady, ReportLost, SetupRank, SetType, Advance, TypeOK
  <2>8. NotUpOK(n)'
    BY <1>1, <2>2, <2>3, <2>6, <2>7 DEF NotUpOK, NotUp, Moving, Same
  <2> QED
    BY <2>3, <2>4, <2>5, <2>8 DEF NodeOK
<1> QED
  BY <1>1, <1>2, <1>3, <1>4, AlikeOK DEF Told

\* An answer to run or to kill.
LEMMA ToldRun ==
  ASSUME Told, NEW n \in Node, NodeRun(n) \/ NodeKill(n)
  PROVE  Told'
<1>1. /\ ~Moving /\ Same
      /\ UNCHANGED <<phase, rank1, rank2, type>>
  BY DEF NodeRun, NodeKill, Moving, Same
<1>2. PendingNamed'
  BY <1>1 DEF PendingNamed, Moving, Same
<1>3. \A m \in Node : NodeOK(m)'
  BY <1>1 DEF Told, NodeOK, UpOK, NotUpOK, RankOK, Stands, NotUp, Moving, Same
<1> QED
  BY <1>2, <1>3 DEF Told

\* A node treats an id of a cut.
LEMMA ToldMove ==
  ASSUME TypeOK, Told, ~early', NEW n \in Node, NEW id \in Node,
         NodeDisconnect(n, id) \/ NodeReconnect(n, id)
  PROVE  Told'
<1>1. /\ Same /\ Moving /\ <<n, id>> \in pending /\ pending' = pending \ {<<n, id>>}
      /\ phase[n] = "up" /\ UNCHANGED <<phase, type>>
  BY DEF NodeDisconnect, NodeReconnect, Same, Moving
<1>2. id \in ids /\ PendingNamed'
  BY <1>1 DEF Told, PendingNamed, Same, Moving
<1>3. rank1 \in [Node -> SUBSET Node] /\ rank2 \in [Node -> SUBSET Node]
  BY DEF TypeOK
<1>4. /\ \A m \in Node : m # n => rank1'[m] = rank1[m] /\ rank2'[m] = rank2[m]
      /\ command = "disconnect" =>
           /\ rank1'[n] = rank1[n] \ {id}
           /\ rank2'[n] = IF id \in rank1[n] THEN rank2[n] \cup {id} ELSE rank2[n]
      /\ command = "reconnect" =>
           /\ rank2'[n] = rank2[n] \ {id}
           /\ rank1'[n] = IF id \in rank2[n] THEN rank1[n] \cup {id} ELSE rank1[n]
  <2>1. CASE NodeDisconnect(n, id)
    BY <1>3, <2>1, MoveTypes DEF NodeDisconnect, Move
  <2>2. CASE NodeReconnect(n, id)
    BY <1>3, <2>2, MoveTypes DEF NodeReconnect, Move
  <2> QED
    BY <2>1, <2>2
<1>5. \A m \in Node : m # n => Alike(m)
  BY <1>1, <1>4 DEF Alike
<1>6. /\ rank1[n] = Node \ rank2[n] /\ type[n] = fail_type /\ RankOK(n)
      /\ rank2[n] \subseteq Node
  BY <1>1, <1>3 DEF Told, NodeOK, UpOK
<1>7. /\ rank1'[n] = Node \ rank2'[n]
      /\ \A k \in Node : k # id => (k \in rank2'[n] <=> k \in rank2[n])
      /\ id \in rank2'[n] <=> command = "disconnect"
  <2>1. CASE command = "disconnect"
    BY <1>4, <1>6, <2>1
  <2>2. CASE command = "reconnect"
    BY <1>4, <1>6, <2>2
  <2> QED
    BY <1>1, <2>1, <2>2 DEF Moving
<1>8. RankOK(n)'
  <2> SUFFICES ASSUME NEW k \in Node
               PROVE  /\ Stands(n, k)' => (k \in rank2'[n] <=> k \in cut')
                      /\ ~Stands(n, k)' => (k \in rank2'[n] <=> command' = "disconnect")
    BY DEF RankOK
  <2>1. CASE k = id
    BY <1>1, <1>2, <1>7, <2>1 DEF Stands, Same, Moving
  <2>2. CASE k # id
    <3>1. Stands(n, k)' <=> Stands(n, k)
      BY <1>1, <2>2 DEF Stands, Same, Moving
    <3> QED
      BY <1>1, <1>6, <1>7, <2>2, <3>1 DEF RankOK, Same
  <2> QED
    BY <2>1, <2>2
<1>9. NodeOK(n)'
  BY <1>1, <1>6, <1>7, <1>8 DEF NodeOK, UpOK, NotUpOK, NotUp, Same
<1> QED
  BY <1>1, <1>2, <1>5, <1>9, AlikeOK DEF Told

\* A command begins: all that it names is pending.
LEMMA ToldGive ==
  ASSUME TypeOK, Told, NEW c \in {"run", "disconnect", "reconnect", "kill"},
         NEW who \in SUBSET Node, Give(c, who)
  PROVE  Told'
<1>1. /\ command = "none" /\ command' = c /\ ids' = who
      /\ UNCHANGED <<fail_type, phase, rank1, rank2, type, cut>>
  BY DEF Give, nodeVars
<1>2. Moving' => pending' = Node \X who
  BY <1>1 DEF Give, Moving
<1>3. PendingNamed'
  BY <1>1, <1>2 DEF PendingNamed
<1>4. ASSUME NEW n \in Node PROVE NodeOK(n)'
  <2>1. NodeOK(n) /\ ~Moving
    BY <1>1 DEF Told, Moving
  <2>2. phase[n] # "gone" /\ UpOK(n)'
    BY <1>1, <2>1 DEF NodeOK, UpOK
  <2>3. NotUpOK(n)'
    BY <1>1, <1>2, <2>1 DEF NodeOK, NotUpOK, NotUp
  <2>4. ASSUME NEW id \in Node PROVE Stands(n, id)' /\ Stands(n, id)
    BY <1>1, <1>2, <2>1 DEF Stands
  <2>5. RankOK(n)'
    BY <1>1, <2>1, <2>4 DEF NodeOK, RankOK
  <2> QED
    BY <1>1, <2>2, <2>3, <2>5 DEF NodeOK
<1> QED
  BY <1>3, <1>4 DEF Told

\* A command returns: every node has treated every id.
LEMMA ToldReturn ==
  ASSUME TypeOK, Told, Return
  PROVE  Told'
<1>1. /\ pending = {} /\ command' = "none" /\ command # "killed"
      /\ UNCHANGED <<fail_type, phase, rank1, rank2, type>>
      /\ command = "disconnect" => cut' = cut \cup ids
      /\ command = "reconnect" => cut' = cut \ ids
      /\ ~Moving => cut' = cut
  BY DEF Return, AllAnswered, nodeVars, Moving
<1>2. ~Moving' /\ PendingNamed'
  BY <1>1 DEF Moving, PendingNamed
<1>3. ASSUME NEW n \in Node PROVE NodeOK(n)'
  <2>1. NodeOK(n)
    BY DEF Told
  <2>2. phase[n] # "gone" /\ UpOK(n)'
    BY <1>1, <2>1 DEF NodeOK, UpOK
  <2>3. NotUpOK(n)'
    <3>1. NotUp(n) /\ Moving => ids = {}
      BY <1>1, <2>1 DEF NodeOK, NotUpOK
    <3>2. NotUp(n) => cut' = {}
      BY <1>1, <2>1, <3>1 DEF NodeOK, NotUpOK, Moving
    <3> QED
      BY <1>1, <1>2, <2>1, <3>2 DEF NodeOK, NotUpOK, NotUp
  <2>4. ASSUME NEW id \in Node PROVE id \in rank2[n] <=> id \in cut'
    <3>1. Stands(n, id) <=> ~Moving \/ id \notin ids
      BY <1>1 DEF Stands
    <3>2. /\ Stands(n, id) => (id \in rank2[n] <=> id \in cut)
          /\ ~Stands(n, id) => (id \in rank2[n] <=> command = "disconnect")
      BY <2>1 DEF NodeOK, RankOK
    <3> QED
      BY <1>1, <3>1, <3>2 DEF Moving
  <2>5. RankOK(n)'
    BY <1>1, <1>2, <2>4 DEF RankOK, Stands
  <2> QED
    BY <1>1, <2>2, <2>3, <2>5 DEF NodeOK
<1> QED
  BY <1>2, <1>3 DEF Told

\* The controller gives up: every node stands where it was.
LEMMA ToldFailed ==
  ASSUME Told, CallFailed
  PROVE  Told'
  BY DEF CallFailed, Told, PendingNamed, NodeOK, UpOK, NotUpOK, NotUp, RankOK, Stands, Moving,
         nodeVars

LEMMA ToldEnds ==
  ASSUME TypeOK, Told, Connect \/ KillProcesses
  PROVE  Told'
<1>1. /\ ~Moving /\ ~Moving' /\ UNCHANGED <<fail_type, rank1, rank2, type, cut>>
      /\ command \in {"connect", "kill"}
  BY DEF Connect, KillProcesses, Moving, nodeVars
<1>2. ASSUME NEW n \in Node
      PROVE  /\ phase[n] # "gone"
             /\ phase'[n] = phase[n] \/ (phase'[n] = "gone" /\ command' = "killed")
  <2>1. phase[n] # "gone"
    BY <1>1 DEF Told, NodeOK
  <2>2. CASE Connect
    BY <2>1, <2>2 DEF Connect, nodeVars
  <2>3. CASE KillProcesses
    BY <2>1, <2>3 DEF KillProcesses
  <2> QED
    BY <2>2, <2>3
<1>3. PendingNamed'
  BY <1>1 DEF PendingNamed
<1>4. \A n \in Node : NodeOK(n)'
  BY <1>1, <1>2 DEF Told, NodeOK, UpOK, NotUpOK, NotUp, RankOK, Stands
<1> QED
  BY <1>3, <1>4 DEF Told

\* Once a node has been told too early, that stays on record.
LEMMA EarlyStays == ASSUME TypeOK, [Next]_vars, ~early' PROVE ~early
  BY DEF Next, NodeNext, ServeTester, ReportReady, ReportLost, SetupRank, SetType, NodeRun, NodeKill,
         NodeDisconnect, NodeReconnect, Connect, GiveRun, GiveDisconnect, GiveReconnect,
         GiveKill, Give, Return, CallFailed, KillProcesses, vars, ctrlVars, TypeOK

LEMMA HarnessStep == HarnessInv /\ [Next]_vars => HarnessInv'
<1> SUFFICES ASSUME HarnessInv, [Next]_vars PROVE HarnessInv'
  OBVIOUS
<1>0. TypeOK /\ (~early => Told)
  BY DEF HarnessInv
<1>1. ASSUME NEW n \in Node, NodeNext(n) PROVE HarnessInv'
  <2>1. CASE ServeTester(n) \/ ReportReady(n) \/ ReportLost(n) \/ SetupRank(n) \/ SetType(n)
    <3>1. TypeOK'
      BY <1>0, <2>1, TypeNodes
    <3> QED
      BY <1>0, <2>1, <3>1, EarlyStays, ToldMain DEF HarnessInv
  <2>2. CASE NodeRun(n) \/ NodeKill(n)
    <3>1. TypeOK'
      BY <1>0, <2>2, TypeNodes
    <3> QED
      BY <1>0, <2>2, <3>1, EarlyStays, ToldRun DEF HarnessInv
  <2>3. ASSUME NEW id \in Node, NodeDisconnect(n, id) \/ NodeReconnect(n, id)
        PROVE  HarnessInv'
    <3>1. TypeOK'
      BY <1>0, <2>3, TypeMoves
    <3> QED
      BY <1>0, <2>3, <3>1, EarlyStays, ToldMove DEF HarnessInv
  <2> QED
    BY <1>1, <2>1, <2>2, <2>3 DEF NodeNext
<1>2. CASE Connect \/ KillProcesses \/ Return \/ CallFailed
  <2>1. TypeOK'
    BY <1>0, <1>2, TypeControl
  <2> QED
    BY <1>0, <1>2, <2>1, EarlyStays, ToldEnds, ToldReturn, ToldFailed DEF HarnessInv
<1>3. CASE GiveRun \/ GiveDisconnect \/ GiveReconnect \/ GiveKill
  <2>1. TypeOK'
    BY <1>0, <1>3, TypeControl
  <2>2. PICK c \in {"run", "disconnect", "reconnect", "kill"}, who \in SUBSET Node :
          Give(c, who)
    BY <1>3 DEF GiveRun, GiveDisconnect, GiveReconnect, GiveKill
  <2> QED
    BY <1>0, <2>1, <2>2, EarlyStays, ToldGive DEF HarnessInv
<1>4. CASE UNCHANGED vars
  <2>1. TypeOK'
    BY <1>0, <1>4 DEF TypeOK, vars, nodeVars, ctrlVars
  <2>2. Told => Told'
    BY <1>4 DEF Told, PendingNamed, NodeOK, UpOK, NotUpOK, NotUp, RankOK, Stands, Moving,
                vars, nodeVars, ctrlVars
  <2> QED
    BY <1>0, <2>1, <2>2, EarlyStays DEF HarnessInv
<1> QED
  BY <1>1, <1>2, <1>3, <1>4 DEF Next

LEMMA HarnessInvariant == Spec => []HarnessInv
  BY HarnessInit, HarnessStep, PTL DEF Spec

------------------------------------------------------------------------------
(* What a node that is prepared, or not yet, does with a call of its own.    *)

LEMMA CallTreated ==
  ASSUME TypeOK, NEW m \in Node, NEW n \in Node, NodeOK(m), phase[m] # "gone",
         Stands(m, m), Stands(m, n)
  PROVE  Hijacked(m, n) <=> Apart(m, n)
<1>1. (m \in rank2[m] <=> m \in cut) /\ (n \in rank2[m] <=> n \in cut)
  BY DEF NodeOK, RankOK
<1>2. fail_type \in {"FAILURE", "PARTITION"}
  BY HarnessAssumption DEF TypeOK
<1>3. CASE phase[m] = "up"
  <2>1. rank1[m] = Node \ rank2[m] /\ type[m] = fail_type
    BY <1>3 DEF NodeOK, UpOK
  <2>2. (m \in rank1[m] <=> m \notin cut) /\ (n \in rank1[m] <=> n \notin cut)
    BY <1>1, <2>1
  <2>3. CASE fail_type = "FAILURE"
    BY <1>1, <2>1, <2>3 DEF Hijacked, Apart
  <2>4. CASE fail_type = "PARTITION"
    <3>1. Hijacked(m, n) <=> (m \notin cut /\ n \in cut) \/ (n \notin cut /\ m \in cut)
      BY <1>1, <2>1, <2>2, <2>4 DEF Hijacked
    <3>2. Apart(m, n) <=> (m \in cut) # (n \in cut)
      BY <2>4 DEF Apart
    <3> QED
      BY <3>1, <3>2
  <2> QED
    BY <1>2, <2>3, <2>4
<1>4. CASE NotUp(m)
  <2>1. type[m] = "FAILURE" /\ rank2[m] = {} /\ cut = {}
    BY <1>4 DEF NodeOK, NotUpOK
  <2>2. ~Hijacked(m, n)
    BY <2>1 DEF Hijacked
  <2>3. ~Apart(m, n)
    BY <2>1 DEF Apart
  <2> QED
    BY <2>2, <2>3
<1> QED
  BY <1>3, <1>4 DEF NotUp

\* Once disconnect or reconnect has returned (test_ctrl.hpp:272-320), exactly
\* the calls the test wants stopped are stopped, whoever makes them
\* (net_intercepter.hpp, Intercept), unless a node was told before it had
\* prepared its interceptor.
THEOREM CutsAreAsAsked == Spec => []CutAsAsked
<1>1. HarnessInv => CutAsAsked
  <2> SUFFICES ASSUME HarnessInv, ~early, command \in {"none", "run"},
                      NEW m \in Node, NEW n \in Node
               PROVE  Hijacked(m, n) <=> Apart(m, n)
    BY DEF CutAsAsked
  <2>1. TypeOK /\ NodeOK(m)
    BY DEF HarnessInv, Told
  <2>2. phase[m] # "gone" /\ Stands(m, m) /\ Stands(m, n)
    BY <2>1 DEF NodeOK, Stands, Moving
  <2> QED
    BY <2>1, <2>2, CallTreated
<1> QED
  BY <1>1, HarnessInvariant, PTL

\* While a command is under way (test_ctrl.hpp:272-320) the nodes differ only
\* about its ids: a call between two other nodes is treated as before and after.
THEOREM OthersAreUndisturbed == Spec => []OthersUndisturbed
<1>1. HarnessInv => OthersUndisturbed
  <2> SUFFICES ASSUME HarnessInv, ~early, Prepared,
                      NEW m \in Node \ ids, NEW n \in Node \ ids
               PROVE  Hijacked(m, n) <=> Apart(m, n)
    BY DEF OthersUndisturbed
  <2>1. TypeOK /\ NodeOK(m)
    BY DEF HarnessInv, Told
  <2>2. phase[m] # "gone" /\ Stands(m, m) /\ Stands(m, n)
    BY DEF Prepared, Stands
  <2> QED
    BY <2>1, <2>2, CallTreated
<1> QED
  BY <1>1, HarnessInvariant, PTL
==============================================================================
