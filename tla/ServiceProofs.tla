--------------------------- MODULE ServiceProofs ---------------------------
(***************************************************************************)
(* TransferAlone and JoinStatusFresh for any number of scripts, run any    *)
(* number of times and interrupted anywhere.                               *)
(*                                                                         *)
(* A flash that finds the lines exported does not ask whether they are     *)
(* held, so that nobody holds exported lines (ExportedUnheld) is part of   *)
(* what the invariant rests on.                                            *)
(***************************************************************************)
EXTENDS Service, TLAPS

Labels ==
    {"done", "return", "stop", "stopped", "open", "running", "prepare", "export", "transfer",
     "transferred", "trap", "teardown", "info", "infoing", "start"}

\* What the proofs need to know of types; no teardown goes on with the transfer.
LabelsOK ==
    /\ pc \in [Scripts -> Labels]
    /\ cont \in [Scripts -> Labels \ {"transfer"}]
    /\ op \in [Scripts -> {"none", "join", "scan", "leave", "rpcjoin", "flash"}]

\* A second join at the same time is remembered in overlap.
OneJoin ==
    ~overlap => \A s, t \in Scripts : Joining(s) /\ Joining(t) => s = t

\* The character device and sysfs never have the lines at the same time.
ExportedUnheld == exported => holder = "nobody"

IInv == LabelsOK /\ ExportedUnheld /\ TransferAlone /\ OneJoin /\ JoinStatusFresh

LEMMA InitInv == Init => IInv
<1> SUFFICES ASSUME Init PROVE IInv
  OBVIOUS
<1>1. LabelsOK
  BY DEF Init, LabelsOK, Labels
<1>2. \A s \in Scripts : pc[s] = "done"
  BY DEF Init
<1> QED
  BY <1>1, <1>2 DEF Init, IInv, ExportedUnheld, TransferAlone, TransferHasLines, TransferSingle,
                    OneJoin, JoinStatusFresh, Joining

\* A second transfer begins with an export and with nothing else.
LEMMA SingleKept ==
    ASSUME IInv, \A t \in Scripts : pc'[t] = "transfer" => pc[t] = "transfer",
           meddled \subseteq meddled', UNCHANGED sharing
    PROVE  TransferSingle'
BY DEF IInv, TransferAlone, TransferSingle

\* A step that starts no join and ends none leaves the two facts about joins
\* alone.
LEMMA JoinsKept ==
    ASSUME IInv, \A s \in Scripts : Joining(s)' => Joining(s), UNCHANGED <<overlap, joindone>>
    PROVE  OneJoin' /\ JoinStatusFresh'
BY DEF IInv, OneJoin, JoinStatusFresh

\* ... and neither does one that moves a single script from one label to
\* another.
LEMMA Moves ==
    ASSUME IInv, NEW s \in Scripts, NEW l \in Labels, Goto(s, l), UNCHANGED op, pc[s] # "done"
    PROVE  /\ pc' \in [Scripts -> Labels]
           /\ \A t \in Scripts : Joining(t)' => Joining(t)
           /\ \A t \in Scripts : pc'[t] = "transfer" => pc[t] = "transfer" \/ (t = s /\ l = "transfer")
BY DEF IInv, LabelsOK, Goto, Joining

LEMMA SvcInv == ASSUME IInv, SvcOpens \/ SvcExits \/ Respawn PROVE IInv'
<1>1. LabelsOK'
  BY DEF IInv, LabelsOK, SvcOpens, SvcExits, Respawn, script
<1>2. OneJoin' /\ JoinStatusFresh'
  BY JoinsKept DEF Joining, SvcOpens, SvcExits, Respawn, script, hist
<1>3. ExportedUnheld' /\ TransferHasLines'
  BY DEF IInv, ExportedUnheld, TransferAlone, TransferHasLines, SvcOpens, SvcExits, Respawn, script,
         hist, Free
<1>4. TransferSingle'
  BY SingleKept DEF SvcOpens, SvcExits, Respawn, script, hist
<1> QED
  BY <1>1, <1>2, <1>3, <1>4 DEF IInv, TransferAlone

LEMMA BeginInv ==
    ASSUME IInv, NEW s \in Scripts,
           RpcJoin(s) \/ Flash(s) \/ \E kind \in {"join", "scan", "leave"} : InitScript(s, kind)
    PROVE  IInv'
<1>a. \A kind \in {"join", "scan", "leave", "rpcjoin"} : FirstStep(kind) \subseteq {"return", "stop"}
  BY DEF FirstStep
<1>0. PICK o \in {"join", "scan", "leave", "rpcjoin", "flash"}, l \in {"return", "stop"} :
        Begins(s, o, l)
  <2>1. CASE RpcJoin(s)
    BY <1>a, <2>1 DEF RpcJoin
  <2>2. CASE Flash(s)
    BY <2>2 DEF Flash
  <2>3. CASE \E kind \in {"join", "scan", "leave"} : InitScript(s, kind)
    BY <1>a, <2>3 DEF InitScript
  <2> QED
    BY <2>1, <2>2, <2>3
<1>1. LabelsOK'
  <2>1. l \in Labels /\ "done" \in Labels \ {"transfer"}
    BY DEF Labels
  <2> QED
    BY <1>0, <2>1 DEF IInv, LabelsOK, Begins, Goto
<1>2. \A t \in Scripts : pc'[t] = "transfer" => pc[t] = "transfer"
  BY <1>0 DEF IInv, LabelsOK, Begins, Goto
<1>3. ExportedUnheld' /\ TransferAlone'
  <2>1. UNCHANGED <<holder, exported, meddled, sharing>>
    BY DEF RpcJoin, Flash, InitScript, hist
  <2>2. TransferSingle'
    BY <1>2, <2>1, SingleKept
  <2>3. ExportedUnheld' /\ TransferHasLines'
    BY <1>2, <2>1 DEF IInv, ExportedUnheld, TransferAlone, TransferHasLines
  <2> QED
    BY <2>2, <2>3 DEF TransferAlone
<1>4. CASE RpcJoin(s)
  <2>1. \A t \in Scripts : Joining(t)' => t = s \/ Joining(t)
    BY <1>4 DEF IInv, LabelsOK, RpcJoin, Begins, Goto, Joining
  <2>2. overlap' \/ \A t \in Scripts : ~Joining(t)
    BY <1>4 DEF RpcJoin
  <2>3. ~joindone'
    BY <1>4 DEF RpcJoin, ClearDone
  <2> QED
    BY <1>1, <1>3, <2>1, <2>2, <2>3 DEF IInv, OneJoin, JoinStatusFresh
<1>5. CASE Flash(s) \/ \E kind \in {"join", "scan", "leave"} : InitScript(s, kind)
  <2>1. \A t \in Scripts : Joining(t)' => Joining(t)
    BY <1>5 DEF IInv, LabelsOK, Flash, InitScript, Begins, Goto, Joining
  <2> QED
    BY <1>1, <1>3, <1>5, <2>1, JoinsKept DEF IInv, Flash, InitScript, hist
<1> QED
  BY <1>4, <1>5

\* Whoever unexports the lines meddles with every transfer but its own.
LEMMA Unexported ==
    ASSUME NEW s \in Scripts, Unexport(s) \/ start_service(s)
    PROVE  \/ UNCHANGED <<exported, meddled>>
           \/ \A t \in Scripts \ {s} : pc[t] = "transfer" => t \in meddled'
BY DEF Unexport, start_service

LEMMA MeddledGrows ==
    ASSUME NEW s \in Scripts, Unexport(s) \/ start_service(s)
    PROVE  meddled \subseteq meddled'
BY DEF Unexport, start_service

LEMMA UnexportInv ==
    ASSUME IInv, NEW s \in Scripts, Start(s) \/ teardown(s)
    PROVE  IInv'
<1>1. PICK l \in Labels \ {"transfer"} : Goto(s, l)
  BY DEF IInv, LabelsOK, Labels, Start, teardown
<1>2. UNCHANGED <<op, cont, joindone, overlap, holder, sharing>> /\ pc[s] \in {"start", "teardown"}
  BY DEF Start, teardown
<1>3. Unexport(s) \/ start_service(s) \/ UNCHANGED <<exported, meddled>>
  BY DEF Start, teardown
<1>4. LabelsOK' /\ \A t \in Scripts : Joining(t)' => Joining(t)
  BY <1>1, <1>2, Moves DEF IInv, LabelsOK
<1>5. \A t \in Scripts : pc'[t] = "transfer" => pc[t] = "transfer" /\ t # s
  BY <1>1, <1>2 DEF IInv, LabelsOK, Goto
<1>6. TransferHasLines'
  <2> SUFFICES ASSUME NEW t \in Scripts, pc'[t] = "transfer", t \notin meddled'
               PROVE  exported' /\ holder' = "nobody"
    BY DEF TransferHasLines
  <2>1. t \notin meddled /\ UNCHANGED exported
    BY <1>3, <1>5, Unexported, MeddledGrows
  <2> QED
    BY <1>2, <1>5, <2>1 DEF IInv, TransferAlone, TransferHasLines
<1>7. OneJoin' /\ JoinStatusFresh'
  BY <1>2, <1>4, JoinsKept
<1>8. ExportedUnheld'
  BY <1>2, <1>3 DEF IInv, ExportedUnheld, Unexport, start_service
<1>9. TransferSingle'
  BY <1>2, <1>3, <1>5, MeddledGrows, SingleKept
<1> QED
  BY <1>4, <1>6, <1>7, <1>8, <1>9 DEF IInv, TransferAlone

\* Steps of a script that leave the exports alone.
LEMMA PlainInv ==
    ASSUME IInv, NEW s \in Scripts,
           \/ Stop(s) \/ Stopped(s) \/ Command(s) \/ Info(s) \/ Prepare(s) \/ Transfer(s)
           \/ Transferred(s) \/ ExitTrap(s) \/ \E ok \in BOOLEAN : CommandEnds(s, ok)
    PROVE  IInv'
<1> USE DEF Stop, Stopped, Command, Info, Opens, Prepare, Transfer, Transferred, ExitTrap,
            CommandEnds, hist
<1>1. PICK l \in Labels \ {"transfer"} : Goto(s, l)
  BY DEF Labels, Behind
<1>2. UNCHANGED <<op, joindone, overlap, exported, meddled, sharing>> /\ pc[s] # "done"
  OBVIOUS
<1>3. cont' \in [Scripts -> Labels \ {"transfer"}]
  BY DEF IInv, LabelsOK, Labels
<1>4. holder' = "nobody" \/ holder' = holder \/ Free
  OBVIOUS
<1>5. LabelsOK' /\ \A t \in Scripts : Joining(t)' => Joining(t)
  BY <1>1, <1>2, <1>3, Moves DEF IInv, LabelsOK
<1>6. \A t \in Scripts : pc'[t] = "transfer" => pc[t] = "transfer"
  BY <1>1, <1>2, Moves DEF IInv
<1>7. ExportedUnheld' /\ TransferHasLines'
  BY <1>2, <1>4, <1>6 DEF IInv, ExportedUnheld, TransferAlone, TransferHasLines, Free
<1>8. OneJoin' /\ JoinStatusFresh'
  BY <1>2, <1>5, JoinsKept
<1>9. TransferSingle'
  BY <1>2, <1>6, SingleKept
<1> QED
  BY <1>5, <1>7, <1>8, <1>9 DEF IInv, TransferAlone

LEMMA ExportInv == ASSUME IInv, NEW s \in Scripts, Export(s) PROVE IInv'
<1>1. PICK l \in Labels : Goto(s, l) /\ (l = "transfer" => CanExport /\ exported')
  BY DEF Export, Labels
<1>2. UNCHANGED <<op, cont, joindone, overlap, holder>> /\ pc[s] = "export"
  BY DEF Export
<1>3. LabelsOK' /\ \A t \in Scripts : Joining(t)' => Joining(t)
  BY <1>1, <1>2, Moves DEF IInv, LabelsOK
<1>4. TransferHasLines'
  <2> SUFFICES ASSUME NEW t \in Scripts, pc'[t] = "transfer", t \notin meddled'
               PROVE  exported' /\ holder' = "nobody"
    BY DEF TransferHasLines
  <2>1. CASE t = s
    BY <1>1, <1>2, <2>1 DEF Goto, IInv, LabelsOK, ExportedUnheld, CanExport
  <2>2. CASE t # s
    BY <1>1, <1>2, <2>2 DEF Export, Goto, IInv, LabelsOK, TransferAlone, TransferHasLines
  <2> QED
    BY <2>1, <2>2
<1>5. OneJoin' /\ JoinStatusFresh'
  BY <1>2, <1>3, JoinsKept
<1>6. ExportedUnheld'
  BY <1>2 DEF Export, CanExport, IInv, ExportedUnheld
<1>7. TransferSingle'
  <2>1. \A t \in Scripts \ {s} : /\ pc'[t] = pc[t]
                                 /\ t \in meddled => t \in meddled'
                                 /\ t \in sharing => t \in sharing'
    BY <1>1 DEF Export, Goto, IInv, LabelsOK
  <2>2. \A t \in Scripts \ {s} : pc[t] = "transfer" => t \in meddled \/ s \in sharing'
    BY DEF Export, IInv, TransferAlone, TransferHasLines
  <2>3. \A t, u \in Scripts \ {s} : pc[t] = "transfer" /\ pc[u] = "transfer" /\ t # u =>
          t \in meddled \cup sharing \/ u \in meddled \cup sharing
    BY DEF IInv, TransferAlone, TransferSingle
  <2> QED
    BY <2>1, <2>2, <2>3 DEF TransferSingle
<1> QED
  BY <1>3, <1>4, <1>5, <1>6, <1>7 DEF IInv, TransferAlone

\* The join that ends was the only one, or overlap says so.
LEMMA ReturnInv == ASSUME IInv, NEW s \in Scripts, Return(s) PROVE IInv'
<1>1. Goto(s, "done") /\ UNCHANGED <<op, cont, overlap, holder, exported, meddled, sharing>>
      /\ pc[s] = "return"
  BY DEF Return
<1>2. LabelsOK' /\ \A t \in Scripts : Joining(t)' => Joining(t) /\ t # s
  BY <1>1 DEF IInv, LabelsOK, Labels, Goto, Joining
<1>3. ExportedUnheld' /\ TransferAlone'
  <2>1. \A t \in Scripts : pc'[t] = "transfer" => pc[t] = "transfer"
    BY <1>1 DEF IInv, LabelsOK, Goto
  <2>2. TransferSingle'
    BY <1>1, <2>1, SingleKept
  <2> QED
    BY <1>1, <2>1, <2>2 DEF IInv, ExportedUnheld, TransferAlone, TransferHasLines
<1>4. OneJoin'
  BY <1>1, <1>2 DEF IInv, OneJoin
<1>5. JoinStatusFresh'
  <2>1. CASE op[s] = "rpcjoin"
    <3>1. Joining(s)
      BY <1>1, <2>1 DEF Joining
    <3> QED
      BY <1>1, <1>2, <3>1 DEF IInv, OneJoin, JoinStatusFresh
  <2>2. CASE op[s] # "rpcjoin"
    <3>1. joindone' => joindone
      BY <2>2 DEF Return
    <3> QED
      BY <1>1, <1>2, <3>1 DEF IInv, JoinStatusFresh
  <2> QED
    BY <2>1, <2>2
<1> QED
  BY <1>2, <1>3, <1>4, <1>5 DEF IInv

LEMMA SignalInv == ASSUME IInv, NEW s \in Scripts, Signal(s) PROVE IInv'
<1>1. PICK l \in {"teardown", "done"} : Goto(s, l)
  BY DEF Signal
<1>2. UNCHANGED <<op, joindone, overlap, exported, meddled, sharing>> /\ pc[s] # "done"
  BY DEF Signal
<1>3. cont' \in [Scripts -> Labels \ {"transfer"}]
  BY DEF Signal, Interrupted, Trapped, IInv, LabelsOK, Labels
<1>4. holder' = "nobody" \/ holder' = holder
  BY DEF Signal
<1>5. l \in Labels /\ l # "transfer"
  BY DEF Labels
<1>6. LabelsOK' /\ \A t \in Scripts : Joining(t)' => Joining(t)
  BY <1>1, <1>2, <1>3, <1>5, Moves DEF IInv, LabelsOK
<1>7. \A t \in Scripts : pc'[t] = "transfer" => pc[t] = "transfer"
  BY <1>1, <1>2, <1>5, Moves
<1>8. ExportedUnheld' /\ TransferHasLines'
  BY <1>2, <1>4, <1>7 DEF IInv, ExportedUnheld, TransferAlone, TransferHasLines
<1>9. OneJoin' /\ JoinStatusFresh'
  BY <1>2, <1>6, JoinsKept
<1>10. TransferSingle'
  BY <1>2, <1>7, SingleKept
<1> QED
  BY <1>6, <1>8, <1>9, <1>10 DEF IInv, TransferAlone

LEMMA NextInv == IInv /\ [Next]_vars => IInv'
<1> SUFFICES ASSUME IInv, [Next]_vars PROVE IInv'
  OBVIOUS
<1>1. CASE UNCHANGED vars
  BY <1>1 DEF vars, script, hist, IInv, LabelsOK, ExportedUnheld, TransferAlone,
                TransferHasLines, TransferSingle, OneJoin, JoinStatusFresh, Joining
<1>2. CASE Next
  <2>1. CASE SvcOpens \/ SvcExits \/ Respawn
    BY <2>1, SvcInv
  <2>2. ASSUME NEW s \in Scripts,
               RpcJoin(s) \/ Flash(s) \/ \E kind \in {"join", "scan", "leave"} : InitScript(s, kind)
        PROVE  IInv'
    BY <2>2, BeginInv
  <2>3. ASSUME NEW s \in Scripts, Step(s) PROVE IInv'
    BY <2>3, UnexportInv, PlainInv, ExportInv, ReturnInv DEF Step
  <2>4. ASSUME NEW s \in Scripts, Signal(s) PROVE IInv'
    BY <2>4, SignalInv
  <2> QED
    BY <1>2, <2>1, <2>2, <2>3, <2>4 DEF Next
<1> QED
  BY <1>1, <1>2

\* However many scripts overlap, fail and are interrupted, a transfer has the
\* lines, and no daemon and no command has them, unless another script has
\* unexported them under it; and a second transfer runs beside it only if the
\* lines of one of the two were unexported or one has passed lines that were
\* exported already.  What the code relies on is that an export is refused
\* while anybody has the lines, and a command while they are exported.
THEOREM Alone == Spec => []TransferAlone
<1>1. IInv => TransferAlone
  BY DEF IInv
<1> QED
  BY <1>1, InitInv, NextInv, PTL DEF Spec

\* join_status never takes the result of an earlier join for the running one's,
\* unless two joins overlap.
THEOREM StatusFresh == Spec => []JoinStatusFresh
<1>1. IInv => JoinStatusFresh
  BY DEF IInv
<1> QED
  BY <1>1, InitInv, NextInv, PTL DEF Spec
=============================================================================
