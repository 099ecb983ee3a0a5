------------------------ MODULE SharedNumberProofs ------------------------
(* What the semaphore of SharedNumber guarantees, for every range of       *)
(* numbers and every threshold.                                            *)
EXTENDS SharedNumber, TLAPS

(* The semaphore is 0 exactly when one of the processes is inside, and     *)
(* never are both.                                                         *)
Exclusion ==
  /\ sem = 0 <=> Inside1 \/ Inside2
  /\ ~(Inside1 /\ Inside2)

(* Process 1 leaves its loop on a 0 and generates nothing after one.       *)
LastNumber ==
  /\ p1 \in {"reap", "remove", "done"} => random_number = 0
  /\ random_number = 0 => p1 \notin {"fork", "wait", "generate"}

(* There is a child only after the fork, and none when it has been reaped. *)
ChildsLife ==
  /\ p1 = "fork" => p2 = "unborn"
  /\ p1 \in {"remove", "done"} => p2 \in {"exited", "unborn"}

NumberInv ==
  /\ TypeOK /\ Exclusion /\ LastNumber /\ ChildsLife /\ OneValuePerVisit
  /\ EndTogether /\ RemovedAfterUse

LEMMA NumberStarts == Init => NumberInv
  BY DEF Init, NumberInv, TypeOK, Exclusion, Inside1, Inside2, LastNumber, ChildsLife,
         OneValuePerVisit, EndTogether, RemovedAfterUse

(* A step of process 1 keeps the invariant.                                *)
LEMMA Process1Keeps == NumberInv /\ process1 => NumberInv'
<1> SUFFICES ASSUME NumberInv, process1 PROVE NumberInv'
  OBVIOUS
<1> USE DEF NumberInv, TypeOK, Exclusion, Inside1, Inside2, LastNumber, ChildsLife,
            OneValuePerVisit, EndTogether, RemovedAfterUse
<1>1. CASE Fork
  BY <1>1 DEF Fork
<1>2. CASE Wait1
  BY <1>2 DEF Wait1
<1>3. CASE Generate
  BY <1>3 DEF Generate
<1>4. CASE Activate
  BY <1>4 DEF Activate
<1>5. CASE Signal1
  BY <1>5 DEF Signal1
<1>6. CASE Check
  BY <1>6 DEF Check
<1>7. CASE Reap
  BY <1>7 DEF Reap
<1>8. CASE Remove
  BY <1>8 DEF Remove
<1>. QED
  BY <1>1, <1>2, <1>3, <1>4, <1>5, <1>6, <1>7, <1>8 DEF process1

(* A step of process 2 keeps the invariant.                                *)
LEMMA Process2Keeps == NumberInv /\ process2 => NumberInv'
<1> SUFFICES ASSUME NumberInv, process2 PROVE NumberInv'
  OBVIOUS
<1> USE DEF NumberInv, TypeOK, Exclusion, Inside1, Inside2, LastNumber, ChildsLife,
            OneValuePerVisit, EndTogether, RemovedAfterUse
<1>1. CASE Wait2
  BY <1>1 DEF Wait2
<1>2. CASE Show
  BY <1>2 DEF Show
<1>6. CASE Look
  BY <1>6 DEF Look
<1>3. CASE Classify
  BY <1>3 DEF Classify
<1>4. CASE Test
  BY <1>4 DEF Test
<1>5. CASE Signal2
  BY <1>5 DEF Signal2
<1>. QED
  BY <1>1, <1>2, <1>3, <1>4, <1>5, <1>6 DEF process2

LEMMA NumberStep == NumberInv /\ [Next]_vars => NumberInv'
<1>1. NumberInv /\ UNCHANGED vars => NumberInv'
  BY DEF NumberInv, TypeOK, Exclusion, Inside1, Inside2, LastNumber, ChildsLife,
         OneValuePerVisit, EndTogether, RemovedAfterUse, vars
<1>. QED
  BY <1>1, Process1Keeps, Process2Keeps DEF Next, Terminated

(* Every variable of the two processes and of the segment keeps its type.  *)
THEOREM NumberTypeCorrect == Spec => []TypeOK
<1>1. NumberInv => TypeOK
  BY DEF NumberInv
<1>. QED
  BY <1>1, NumberStarts, NumberStep, PTL DEF Spec

(* Process 2 prints, classifies and tests one value per visit.             *)
THEOREM VisitSeesOneValue == Spec => []OneValuePerVisit
<1>1. NumberInv => OneValuePerVisit
  BY DEF NumberInv
<1>. QED
  BY <1>1, NumberStarts, NumberStep, PTL DEF Spec

(* Process 2 leaves only when process 1 is about to.                       *)
THEOREM BothEndTogether == Spec => []EndTogether
<1>1. NumberInv => EndTogether
  BY DEF NumberInv
<1>. QED
  BY <1>1, NumberStarts, NumberStep, PTL DEF Spec

(* The semaphore and the segment outlive process 2.                        *)
THEOREM ResourcesOutliveUse == Spec => []RemovedAfterUse
<1>1. NumberInv => RemovedAfterUse
  BY DEF NumberInv
<1>. QED
  BY <1>1, NumberStarts, NumberStep, PTL DEF Spec

=============================================================================
