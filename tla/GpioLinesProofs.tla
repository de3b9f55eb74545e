-------------------------- MODULE GpioLinesProofs --------------------------
(***************************************************************************)
(* Mutual exclusion on the radio for any number of processes, whichever of *)
(* them are daemons and whichever may be killed at any point.              *)
(*                                                                         *)
(* HeldWhileUsing is not inductive: the step into "using" says nothing of  *)
(* the lines.  What makes it so is the progress of pins_open: a process    *)
(* whose next request is number k holds every line it insists on among the *)
(* first k - 1 (HeldWhileOpening), since a refusal would have ended it.    *)
(*                                                                         *)
(* Chip select may be refused, so holding it follows from nothing the      *)
(* process has got past.  What bounds it is the order of giving back       *)
(* (CsHeld): until it is killed, a process that has chip select has nRESET *)
(* too, because pins_close closes chip select first.                       *)
(***************************************************************************)
EXTENDS GpioLines, TLAPS

HeldWhileOpening ==
    \A p \in Procs : pst[p] = "opening" =>
        \A j \in 1..5 : j < k[p] /\ OpenOrder[j] \in FatalLines => owner[OpenOrder[j]] = p

CsHeld ==
    \A q \in Procs : owner["cs"] = q =>
        \/ pst[q] = "exiting" /\ k[q] <= 4
        \/ owner["reset"] = q /\ pst[q] \in {"opening", "using"}
        \/ owner["reset"] = q /\ pst[q] = "closing" /\ k[q] = 1

IInv == TypeOK /\ HeldWhileOpening /\ HeldWhileUsing

\* pins_open asks for five lines, and the fatal ones are among them.
LEMMA Orders ==
    /\ Len(OpenOrder) = 5 /\ Len(CloseOrder) = 5
    /\ \A j \in 1..5 : OpenOrder[j] \in Lines /\ CloseOrder[j] \in Lines
    /\ FatalLines \subseteq Lines
    /\ \A l \in Lines : \E j \in 1..5 : OpenOrder[j] = l
    /\ \A i, j \in 1..5 : OpenOrder[i] = OpenOrder[j] => i = j
<1>1. OpenOrder \in Seq(Lines) /\ CloseOrder \in Seq(Lines)
      /\ Len(OpenOrder) = 5 /\ Len(CloseOrder) = 5
  BY DEF OpenOrder, CloseOrder, Lines
<1>2. /\ OpenOrder[1] = "reset" /\ OpenOrder[2] = "wake" /\ OpenOrder[3] = "nssel"
      /\ OpenOrder[4] = "cs" /\ OpenOrder[5] = "hint"
  BY DEF OpenOrder
<1>3. \A j \in 1..5 : OpenOrder[j] \in Lines /\ CloseOrder[j] \in Lines
  <2>1. \A s \in Seq(Lines) : \A j \in 1..Len(s) : s[j] \in Lines
    OBVIOUS
  <2> QED BY <1>1, <2>1
<1>4. FatalLines \subseteq Lines
  BY DEF FatalLines, Lines
<1>5. \A l \in Lines : \E j \in 1..5 : OpenOrder[j] = l
  BY <1>2 DEF Lines
<1>6. \A j \in 1..5 : j = 1 \/ j = 2 \/ j = 3 \/ j = 4 \/ j = 5
  OBVIOUS
<1>7. \A i, j \in 1..5 : OpenOrder[i] = OpenOrder[j] => i = j
  BY <1>2, <1>6
<1> QED
  BY <1>1, <1>3, <1>4, <1>5, <1>7

\* Nobody is opening or using anything at the start.
LEMMA InitIInv == Init => IInv
BY ProcsAssumption DEF Init, IInv, TypeOK, HeldWhileOpening, HeldWhileUsing, Lines

\* IInv is inductive: one case per action.
LEMMA NextIInv == IInv /\ [Next]_vars => IInv'
<1> SUFFICES ASSUME IInv, [Next]_vars PROVE IInv'
  OBVIOUS
<1> USE ProcsAssumption, Orders
<1>1. CASE UNCHANGED vars
  BY <1>1 DEF vars, IInv, TypeOK, HeldWhileOpening, HeldWhileUsing
<1>2. ASSUME NEW p \in Procs, Start(p) PROVE IInv'
  <2>1. TypeOK'
    BY <1>2 DEF Start, Becomes, IInv, TypeOK
  <2>2. HeldWhileOpening' /\ HeldWhileUsing'
    BY <1>2 DEF Start, Becomes, IInv, TypeOK, HeldWhileOpening, HeldWhileUsing
  <2> QED BY <2>1, <2>2 DEF IInv
<1>3. ASSUME NEW p \in Procs, Request(p) PROVE IInv'
  <2> DEFINE l == OpenOrder[k[p]]
  <2>0. k[p] \in 1..5 /\ l \in Lines /\ pst[p] = "opening"
    BY <1>3 DEF Request, IInv, TypeOK
  <2>1. CASE l \in Wanted /\ owner[l] # Free /\ l \in FatalLines
    <3>1. Becomes(p, "exiting") /\ UNCHANGED <<owner, runs>>
      BY <1>3, <2>1 DEF Request
    <3> QED
      BY <3>1, <2>0 DEF Becomes, IInv, TypeOK, HeldWhileOpening, HeldWhileUsing
  <2>2. CASE ~(l \in Wanted /\ owner[l] # Free /\ l \in FatalLines)
    <3>1. /\ k' = [k EXCEPT ![p] = @ + 1] /\ UNCHANGED <<pst, runs>>
          /\ \/ l \notin FatalLines /\ UNCHANGED owner
             \/ owner[l] = Free /\ owner' = [owner EXCEPT ![l] = p]
      BY <1>3, <2>2 DEF Request, FatalLines
    <3>2. TypeOK'
      BY <3>1, <2>0 DEF IInv, TypeOK
    <3>3. \A m \in Lines, q \in Procs : owner[m] = q => owner'[m] = q
      BY <3>1, <2>0 DEF IInv, TypeOK
    <3>4. HeldWhileUsing'
      BY <3>1, <3>3 DEF IInv, TypeOK, HeldWhileUsing
    <3>5. HeldWhileOpening'
      <4> SUFFICES ASSUME NEW q \in Procs, pst'[q] = "opening", NEW j \in 1..5,
                          j < k'[q], OpenOrder[j] \in FatalLines
                   PROVE  owner'[OpenOrder[j]] = q
        BY DEF HeldWhileOpening
      <4>1. CASE j < k[q]
        BY <4>1, <3>1, <3>3 DEF IInv, HeldWhileOpening
      <4>2. CASE ~(j < k[q])
        <5>1. q = p /\ j = k[p]
          BY <4>2, <3>1, <2>0 DEF IInv, TypeOK
        <5> QED
          BY <5>1, <3>1, <2>0 DEF IInv, TypeOK
      <4> QED BY <4>1, <4>2
    <3> QED BY <3>2, <3>4, <3>5 DEF IInv
  <2> QED BY <2>1, <2>2
<1>4. ASSUME NEW p \in Procs, Opened(p) PROVE IInv'
  <2>1. k[p] = 6 /\ pst[p] = "opening"
    BY <1>4 DEF Opened, AllRequested, IInv, TypeOK
  <2>2. \A l \in FatalLines : owner[l] = p
    BY <2>1 DEF IInv, HeldWhileOpening
  <2>3. TypeOK'
    BY <1>4 DEF Opened, AllRequested, Becomes, IInv, TypeOK
  <2> QED
    BY <1>4, <2>2, <2>3 DEF Opened, AllRequested, Becomes, IInv, TypeOK, HeldWhileOpening, HeldWhileUsing
<1>5. ASSUME NEW p \in Procs, Finish(p) \/ Quit(p) PROVE IInv'
  BY <1>5 DEF Finish, Quit, Becomes, IInv, TypeOK, HeldWhileOpening, HeldWhileUsing
<1>6. ASSUME NEW p \in Procs, Close(p) \/ ExitClose(p) PROVE IInv'
  <2>1. pst[p] \in {"closing", "exiting"} /\ UNCHANGED runs
    BY <1>6 DEF Close, ExitClose
  <2>2. /\ \/ \E l \in Lines : Release(p, l)
           \/ UNCHANGED owner
        /\ \/ UNCHANGED pst /\ k[p] <= 5 /\ k' = [k EXCEPT ![p] = @ + 1]
           \/ Becomes(p, "exiting")
           \/ Becomes(p, "out")
    BY <1>6 DEF Close, ExitClose, IInv, TypeOK
  <2>3. TypeOK'
    BY <2>1, <2>2 DEF Release, Becomes, IInv, TypeOK
  <2>4. \A m \in Lines, q \in Procs : q # p /\ owner[m] = q => owner'[m] = q
    BY <2>2 DEF Release, IInv, TypeOK
  <2>5. \A q \in Procs : q # p => pst'[q] = pst[q] /\ k'[q] = k[q]
    BY <2>2 DEF Becomes, IInv, TypeOK
  <2>6. pst'[p] \in {"closing", "exiting", "out"}
    BY <2>1, <2>2 DEF Becomes, IInv, TypeOK
  <2>7. HeldWhileUsing'
    BY <2>4, <2>5, <2>6 DEF IInv, HeldWhileUsing
  <2>8. HeldWhileOpening'
    BY <2>4, <2>5, <2>6 DEF IInv, HeldWhileOpening
  <2> QED BY <2>3, <2>7, <2>8 DEF IInv
<1> QED
  BY <1>1, <1>2, <1>3, <1>4, <1>5, <1>6 DEF Next, Step

\* No two processes ever drive the NCP, and the one that does holds every line
\* pins_open insists on, for any set of processes (board.c, gpio.c).
THEOREM Exclusive == Spec => [](TypeOK /\ HeldWhileUsing /\ RadioExclusive)
<1>1. IInv => TypeOK /\ HeldWhileUsing /\ RadioExclusive
  <2>1. "reset" \in FatalLines
    BY DEF FatalLines, Wanted, Lines
  <2> QED
    BY <2>1 DEF IInv, HeldWhileUsing, RadioExclusive
<1> QED
  BY InitIInv, NextIInv, <1>1, PTL DEF Spec

\* nRESET is the first line of pins_open and a fatal one; chip select is the
\* first of pins_close and the fourth the kernel closes.
LEMMA Places ==
    /\ "reset" \in FatalLines /\ "reset" \in Lines /\ "cs" \in Lines
    /\ OpenOrder[1] = "reset" /\ OpenOrder[4] = "cs" /\ CloseOrder[1] = "cs"
    /\ \A j \in 1..5 : (OpenOrder[j] = "reset" => j = 1) /\ (OpenOrder[j] = "cs" => j = 4)
<1>1. OpenOrder[1] = "reset" /\ OpenOrder[4] = "cs" /\ CloseOrder[1] = "cs"
  BY DEF OpenOrder, CloseOrder
<1>2. "reset" \in FatalLines /\ "reset" \in Lines /\ "cs" \in Lines
  BY DEF FatalLines, Wanted, Lines
<1> QED
  BY <1>1, <1>2, Orders

\* CsHeld is inductive, given the lines pins_open insists on.
LEMMA NextCsHeld == IInv /\ CsHeld /\ [Next]_vars => CsHeld'
<1> SUFFICES ASSUME IInv, CsHeld, [Next]_vars PROVE CsHeld'
  OBVIOUS
<1> USE ProcsAssumption
<1>0. TypeOK
  BY DEF IInv
<1>1. CASE UNCHANGED vars
  BY <1>1 DEF vars, CsHeld
<1>2. ASSUME NEW p \in Procs, Start(p) PROVE CsHeld'
  BY <1>0, <1>2 DEF Start, Becomes, TypeOK, CsHeld
<1>3. ASSUME NEW p \in Procs, Request(p) PROVE CsHeld'
  <2> DEFINE l == OpenOrder[k[p]]
  <2>0. k[p] \in 1..5 /\ l \in Lines /\ pst[p] = "opening"
    BY <1>0, <1>3, Orders DEF Request, TypeOK
  <2>1. CASE Becomes(p, "exiting") /\ UNCHANGED owner
    BY <1>0, <2>0, <2>1 DEF Becomes, TypeOK, CsHeld
  <2>2. CASE k' = [k EXCEPT ![p] = @ + 1] /\ UNCHANGED <<pst, owner>>
    BY <1>0, <2>0, <2>2 DEF TypeOK, CsHeld
  <2>3. CASE /\ k' = [k EXCEPT ![p] = @ + 1] /\ UNCHANGED pst
             /\ owner[l] = Free /\ owner' = [owner EXCEPT ![l] = p]
    <3>1. CASE l = "cs"
      <4>1. owner["reset"] = p
        BY <2>0, <3>1, Places DEF IInv, HeldWhileOpening
      <4>2. owner'["cs"] = p /\ owner'["reset"] = p /\ pst'[p] = "opening"
        BY <1>0, <2>0, <2>3, <3>1, <4>1, Places DEF TypeOK
      <4> QED BY <4>2 DEF CsHeld
    <3>2. CASE l # "cs"
      <4>1. owner'["cs"] = owner["cs"] /\ \A q \in Procs : owner["reset"] = q => owner'["reset"] = q
        BY <1>0, <2>0, <2>3, <3>2, Places DEF TypeOK
      <4>2. \A q \in Procs : pst'[q] = pst[q] /\ (q # p => k'[q] = k[q])
        BY <1>0, <2>3 DEF TypeOK
      <4> QED BY <2>0, <4>1, <4>2 DEF CsHeld
    <3> QED BY <3>1, <3>2
  <2> QED BY <1>3, <2>1, <2>2, <2>3 DEF Request
<1>4. ASSUME NEW p \in Procs, Opened(p) PROVE CsHeld'
  BY <1>0, <1>4 DEF Opened, Becomes, TypeOK, CsHeld
<1>5. ASSUME NEW p \in Procs, Finish(p) \/ Quit(p) PROVE CsHeld'
  BY <1>0, <1>5 DEF Finish, Quit, Becomes, TypeOK, CsHeld
<1>6. ASSUME NEW p \in Procs, Close(p) \/ ExitClose(p) PROVE CsHeld'
  <2>1. \A q \in Procs : q # p => pst'[q] = pst[q] /\ k'[q] = k[q]
    BY <1>0, <1>6 DEF Close, ExitClose, Becomes, TypeOK
  <2>2. ASSUME NEW q \in Procs, q # p
        PROVE  (owner'["cs"] = q => owner["cs"] = q) /\ (owner["reset"] = q => owner'["reset"] = q)
    <3>1. (\E l \in Lines : Release(p, l)) \/ UNCHANGED owner
      BY <1>0, <1>6, Orders DEF Close, ExitClose, TypeOK
    <3> QED BY <1>0, <2>2, <3>1, Places DEF Release, TypeOK
  <2>3. ASSUME owner'["cs"] = p PROVE pst'[p] = "exiting" /\ k'[p] <= 4
    <3>1. owner["cs"] = p
      BY <1>0, <1>6, <2>3, Orders, Places DEF Close, ExitClose, Release, TypeOK
    <3>2. CASE Close(p)
      <4>1. k[p] = 1
        BY <3>1, <3>2 DEF Close, CsHeld
      <4>2. owner'["cs"] = Free
        BY <1>0, <3>1, <3>2, <4>1, Orders, Places DEF Close, Release, TypeOK
      <4> QED BY <2>3, <4>2
    <3>3. CASE ExitClose(p)
      <4>1. pst[p] = "exiting" /\ k[p] <= 4 /\ k[p] \in 1..6
        BY <1>0, <3>1, <3>3 DEF ExitClose, CsHeld, TypeOK
      <4>2. /\ Release(p, OpenOrder[k[p]]) /\ UNCHANGED pst
            /\ k' = [k EXCEPT ![p] = @ + 1]
        BY <3>3, <4>1, Orders DEF ExitClose
      <4>3. k[p] # 4
        BY <1>0, <2>3, <3>1, <4>2, Places DEF Release, TypeOK
      <4> QED BY <1>0, <4>1, <4>2, <4>3 DEF TypeOK
    <3> QED BY <1>6, <3>2, <3>3
  <2> QED BY <2>1, <2>2, <2>3 DEF CsHeld
<1> QED
  BY <1>1, <1>2, <1>3, <1>4, <1>5, <1>6 DEF Next, Step

\* A process that goes on without nSSEL (board.c:105) never drives the NCP while
\* another live process drives chip select: only the kernel, or a process that
\* is being torn down, can have it.
THEOREM SelectAlone == Spec => []ChipSelectAlone
<1>1. Init => CsHeld
  BY ProcsAssumption DEF Init, CsHeld, Lines
<1>2. IInv /\ CsHeld => ChipSelectAlone
  BY Places DEF IInv, HeldWhileUsing, CsHeld, ChipSelectAlone
<1> QED
  BY InitIInv, NextIInv, NextCsHeld, <1>1, <1>2, PTL DEF Spec

\* Every step of the processes is a step of the lock or leaves it alone: it is
\* taken by the first request and given back by one close, and in between the
\* radio is used and left.
LEMMA StepRefines ==
    ASSUME IInv, [Next]_vars
    PROVE  [Lock!Next]_<<owner["reset"], {p \in Procs : pst[p] = "using"}>>
<1> DEFINE users == {q \in Procs : pst[q] = "using"}
<1> USE ProcsAssumption
<1>0. TypeOK
  BY DEF IInv
<1>1. CASE UNCHANGED vars
  BY <1>1 DEF vars
<1>2. ASSUME NEW p \in Procs, Start(p)
      PROVE  UNCHANGED <<owner["reset"], users>>
  BY <1>0, <1>2 DEF Start, Becomes, TypeOK
<1>3. ASSUME NEW p \in Procs, Request(p)
      PROVE  UNCHANGED <<owner["reset"], users>> \/ Lock!Take(p)
  <2>1. UNCHANGED users
    BY <1>0, <1>3 DEF Request, Becomes, TypeOK
  <2>2. \/ UNCHANGED owner
        \/ \E l \in Lines : owner[l] = Free /\ owner' = [owner EXCEPT ![l] = p]
    BY <1>0, <1>3, Orders DEF Request, TypeOK
  <2>3. \/ owner'["reset"] = owner["reset"]
        \/ owner["reset"] = Free /\ owner'["reset"] = p
    BY <1>0, <2>2, Places DEF TypeOK
  <2> QED BY <2>1, <2>3 DEF Lock!Take
<1>4. ASSUME NEW p \in Procs, Opened(p) PROVE Lock!Use(p)
  <2>1. k[p] = 6 /\ pst[p] = "opening"
    BY <1>0, <1>4, Orders DEF Opened, AllRequested, TypeOK
  <2>2. owner["reset"] = p /\ UNCHANGED owner
    BY <1>4, <2>1, Places DEF IInv, HeldWhileOpening, Opened
  <2>3. users' = users \cup {p}
    BY <1>0, <1>4 DEF Opened, Becomes, TypeOK
  <2> QED BY <2>2, <2>3 DEF Lock!Use
<1>5. ASSUME NEW p \in Procs, Finish(p) \/ Quit(p)
      PROVE  UNCHANGED <<owner["reset"], users>> \/ Lock!Stop(p)
  <2>1. UNCHANGED owner /\ users' = users \ {p}
    BY <1>0, <1>5 DEF Finish, Quit, Becomes, TypeOK
  <2>2. CASE p \in users
    BY <2>1, <2>2 DEF Lock!Stop
  <2>3. CASE p \notin users
    BY <2>1, <2>3
  <2> QED BY <2>2, <2>3
<1>6. ASSUME NEW p \in Procs, Close(p) \/ ExitClose(p)
      PROVE  UNCHANGED <<owner["reset"], users>> \/ Lock!Give(p)
  <2>1. UNCHANGED users /\ p \notin users
    BY <1>0, <1>6 DEF Close, ExitClose, Becomes, TypeOK
  <2>2. (\E l \in Lines : Release(p, l)) \/ UNCHANGED owner
    BY <1>0, <1>6, Orders DEF Close, ExitClose, TypeOK
  <2>3. \/ owner'["reset"] = owner["reset"]
        \/ owner["reset"] = p /\ owner'["reset"] = Free
    BY <1>0, <2>2, Places DEF Release, TypeOK
  <2> QED BY <2>1, <2>3 DEF Lock!Give
<1> QED
  BY <1>1, <1>2, <1>3, <1>4, <1>5, <1>6 DEF Next, Step, Lock!Next

\* Line by line pins_open, pins_close and the kernel implement a lock on the
\* radio, and it is nRESET: only the process that has got it drives the NCP,
\* and it is given back by that process, after it has stopped, whoever is killed
\* and whenever.
THEOREM Implements == Spec => Lock!Spec
<1>1. Init => Lock!Init
  BY Places DEF Init, Lock!Init
<1>2. IInv /\ [Next]_vars => [Lock!Next]_<<owner["reset"], {p \in Procs : pst[p] = "using"}>>
  BY StepRefines
<1> QED
  BY InitIInv, NextIInv, <1>1, <1>2, PTL DEF Spec, Lock!Spec
=============================================================================
