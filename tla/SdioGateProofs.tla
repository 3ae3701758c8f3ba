--------------------------- MODULE SdioGateProofs ---------------------------
(***************************************************************************)
(* For any finite set of descriptors: the gate keeps what the operations   *)
(* use alive, and the driver context lives exactly as long as its users.   *)
(***************************************************************************)
EXTENDS SdioGate, FiniteSetTheorems, TLAPS

\* Counting threads: a step that leaves every thread on its side of T leaves
\* the count alone.
LEMMA CountSame ==
    ASSUME NEW T, \A x \in Fd : fd[x] \in T <=> fd'[x] \in T
    PROVE  Count(T)' = Count(T)
<1>1. {x \in Fd : fd'[x] \in T} = {x \in Fd : fd[x] \in T}
  OBVIOUS
<1> QED BY <1>1 DEF Count

\* Counting threads: one thread enters T.
LEMMA CountUp ==
    ASSUME NEW T, NEW f \in Fd, fd[f] \notin T, fd'[f] \in T,
           \A x \in Fd \ {f} : fd[x] \in T <=> fd'[x] \in T
    PROVE  Count(T)' = Count(T) + 1
<1> DEFINE S == {x \in Fd : fd[x] \in T}
<1>1. IsFiniteSet(S)
  BY FdFinite, FS_Subset, S \subseteq Fd
<1>2. {x \in Fd : fd'[x] \in T} = S \cup {f}
  OBVIOUS
<1>3. f \notin S
  OBVIOUS
<1>4. Cardinality(S \cup {f}) = Cardinality(S) + 1
  BY <1>1, <1>3, FS_AddElement
<1> QED BY <1>2, <1>4 DEF Count

\* Counting threads: one thread leaves T.
LEMMA CountDown ==
    ASSUME NEW T, NEW f \in Fd, fd[f] \in T, fd'[f] \notin T,
           \A x \in Fd \ {f} : fd[x] \in T <=> fd'[x] \in T
    PROVE  /\ Count(T)' = Count(T) - 1
           /\ Count(T)' \in Nat
           /\ Count(T) # 0
<1> DEFINE S == {x \in Fd : fd'[x] \in T}
<1>1. IsFiniteSet(S)
  BY FdFinite, FS_Subset, S \subseteq Fd
<1>2. {x \in Fd : fd[x] \in T} = S \cup {f}
  OBVIOUS
<1>3. f \notin S
  OBVIOUS
<1>4. Cardinality(S) \in Nat
  BY <1>1, FS_CardinalityType
<1>5. Cardinality(S \cup {f}) = Cardinality(S) + 1
  BY <1>1, <1>3, FS_AddElement
<1> HIDE DEF S
<1>6. /\ Cardinality(S \cup {f}) # 0
      /\ Cardinality(S) = Cardinality(S \cup {f}) - 1
  BY <1>4, <1>5
<1>7. Count(T)' = Cardinality(S) /\ Count(T) = Cardinality(S \cup {f})
  BY <1>2 DEF Count, S
<1> QED BY <1>4, <1>6, <1>7

\* No thread is in T when the count is zero.
LEMMA CountZero ==
    ASSUME NEW T, Count(T) = 0, NEW f \in Fd
    PROVE  fd[f] \notin T
<1> DEFINE S == {x \in Fd : fd[x] \in T}
<1>1. IsFiniteSet(S)
  BY FdFinite, FS_Subset, S \subseteq Fd
<1>2. S = {}
  BY <1>1, FS_EmptySet DEF Count
<1> QED BY <1>2

LEMMA CountNat == ASSUME NEW T PROVE Count(T) \in Nat
<1> DEFINE S == {x \in Fd : fd[x] \in T}
<1>1. IsFiniteSet(S)
  BY FdFinite, FS_Subset, S \subseteq Fd
<1> QED BY <1>1, FS_CardinalityType DEF Count

-----------------------------------------------------------------------------

\* The steps of the probe and remove thread that leave every thread where it
\* is preserve the invariant: each phase hands over what the next one needs.
LEMMA ProbeInv == Inv /\ (Probe \/ Remove) => Inv'
<1> SUFFICES ASSUME Inv, Probe \/ Remove PROVE Inv'
  OBVIOUS
<1> USE DEF Inv, Probe, ProbeStart, ProbeMisc, ProbeFork, SetupNetdev, RegisterNetdev,
            ClaimIrq, Remove, Step
<1>0. fd' = fd
  OBVIOUS
<1>1. Count(InOp)' = Count(InOp) /\ Count(OpenFds)' = Count(OpenFds)
  BY <1>0 DEF Count
<1>2. Count(InOp) \in Nat /\ Count(OpenFds) \in Nat
  BY CountNat
<1>3. TypeOK'
  <2>1. CASE ProbeStart
    BY <2>1 DEF TypeOK, ProbePhases, UndoPhases
  <2>2. CASE ProbeMisc
    BY <2>2 DEF TypeOK, ProbePhases, UndoPhases
  <2>3. CASE ProbeFork
    BY <2>3 DEF TypeOK, ProbePhases, UndoPhases
  <2>4. CASE SetupNetdev
    BY <2>4 DEF TypeOK, ProbePhases, UndoPhases
  <2>5. CASE RegisterNetdev
    BY <2>5 DEF TypeOK, ProbePhases, UndoPhases
  <2>6. CASE ClaimIrq
    BY <2>6 DEF TypeOK, ProbePhases, UndoPhases
  <2>7. CASE Remove
    BY <2>7 DEF TypeOK, ProbePhases, UndoPhases
  <2> QED BY <2>1, <2>2, <2>3, <2>4, <2>5, <2>6, <2>7
<1>4. CASE ProbeStart
  <2>1. Count(OpenFds) = 0
    BY <1>2, <1>4 DEF ContextPinned
  <2>2. \A f \in Fd : fd[f] = "closed"
    BY <2>1, CountZero DEF TypeOK
  <2>3. Count(InOp) = 0
    <3>1. \A f \in Fd : fd[f] \in InOp <=> fd[f] \in OpenFds
      BY <2>2 DEF InOp, OpenFds, PastGate, UsesNetdev
    <3>2. {f \in Fd : fd[f] \in InOp} = {f \in Fd : fd[f] \in OpenFds}
      BY <3>1
    <3> QED BY <3>2, <2>1 DEF Count
  <2>4. Counted' /\ ContextPinned'
    BY <1>1, <1>4, <2>1, <2>3 DEF Counted, ContextPinned
  <2>5. Teared' /\ Held'
    BY <1>0, <1>4, <2>2 DEF Teared, Held, Drained, Quiet, TypeOK
  <2> QED BY <1>3, <2>4, <2>5
<1>5. CASE ~ProbeStart
  <2>1. Counted' /\ ContextPinned'
    BY <1>1, <1>2, <1>5 DEF Counted, ContextPinned
  <2>2. Teared'
    BY <1>0, <1>5 DEF Teared, Drained, Quiet, PastGate, UsesNetdev
  <2>3. Held'
    <3>1. CASE ProbeMisc
      BY <3>1 DEF Held, TypeOK
    <3>2. CASE ProbeFork
      BY <3>2 DEF Held, TypeOK
    <3>3. CASE SetupNetdev
      BY <3>3 DEF Held, TypeOK
    <3>4. CASE RegisterNetdev
      BY <3>4 DEF Held, TypeOK
    <3>5. CASE ClaimIrq
      BY <3>5 DEF Held, TypeOK
    <3>6. CASE Remove
      BY <3>6 DEF Held, TypeOK
    <3> QED BY <1>5, <3>1, <3>2, <3>3, <3>4, <3>5, <3>6
  <2> QED BY <1>3, <2>1, <2>2, <2>3
<1> QED BY <1>4, <1>5

\* The teardown steps.  QuiesceDrain is where a count of zero becomes the
\* knowledge that no operation is inside; PutProbe needs only the reference
\* count.
LEMMA TeardownInv == Inv /\ Teardown => Inv'
<1> SUFFICES ASSUME Inv, Teardown PROVE Inv'
  OBVIOUS
<1> USE DEF Inv, Step
<1>1. \A f \in Fd : /\ fd'[f] \in InOp <=> fd[f] \in InOp
                    /\ fd'[f] \in OpenFds <=> fd[f] \in OpenFds
                    /\ fd'[f] \in PastGate <=> fd[f] \in PastGate
                    /\ fd'[f] = "closed" <=> fd[f] = "closed"
  BY DEF Teardown, QuiesceWake, QuiesceDrain, ReleaseIrq, FreeNetdev, ClearNdev,
         MiscDeregister, DisableFunc, PutProbe, OpenFds, InOp, PastGate, UsesNetdev
<1>2. Count(InOp)' = Count(InOp) /\ Count(OpenFds)' = Count(OpenFds)
  BY <1>1, CountSame
<1>3. Count(InOp) \in Nat /\ Count(OpenFds) \in Nat
  BY CountNat
<1>4. fd' \in [Fd -> {"closed"} \cup OpenFds]
  BY DEF TypeOK, Teardown, QuiesceWake, QuiesceDrain, ReleaseIrq, FreeNetdev, ClearNdev,
         MiscDeregister, DisableFunc, PutProbe, OpenFds, InOp, PastGate, UsesNetdev
<1>5. CASE QuiesceWake
  BY <1>1, <1>2, <1>4, <1>5
  DEF QuiesceWake, TypeOK, ProbePhases, UndoPhases, Counted, ContextPinned, Teared, Held,
      Drained, Quiet
<1>6. CASE QuiesceDrain
  <2>1. \A f \in Fd : fd[f] \notin PastGate
    BY <1>6, CountZero DEF QuiesceDrain, Counted, InOp
  <2>2. removed
    BY <1>6 DEF QuiesceDrain, Teared
  <2>3. TypeOK' /\ Counted' /\ ContextPinned'
    BY <1>2, <1>6
    DEF QuiesceDrain, TypeOK, ProbePhases, UndoPhases, Counted, ContextPinned
  <2>4. Teared'
    BY <1>6, <2>1, <2>2 DEF QuiesceDrain, Teared, Drained, Quiet
  <2>5. Held'
    BY <1>6 DEF QuiesceDrain, Held
  <2> QED BY <2>3, <2>4, <2>5
<1>7. CASE ReleaseIrq \/ FreeNetdev \/ ClearNdev \/ MiscDeregister \/ DisableFunc
  <2> USE DEF ReleaseIrq, FreeNetdev, ClearNdev, MiscDeregister, DisableFunc
  <2>1. TypeOK'
    BY <1>4, <1>7 DEF TypeOK, ProbePhases, UndoPhases
  <2>2. Counted' /\ ContextPinned'
    <3>1. /\ active_ops' = active_ops /\ refs' = refs /\ devLive' = devLive
          /\ phase # "absent" /\ phase' # "absent"
      BY <1>7
    <3> QED BY <1>2, <3>1 DEF Counted, ContextPinned
  <2>3. Teared'
    BY <1>1, <1>7 DEF Teared, Drained, Quiet
  <2>4. Held'
    BY <1>7 DEF Held, TypeOK
  <2> QED BY <2>1, <2>2, <2>3, <2>4
<1>8. CASE PutProbe
  <2> USE DEF PutProbe, DevPut
  <2>1. refs = Count(OpenFds) + 1 /\ refs' = Count(OpenFds)
    BY <1>3, <1>8 DEF ContextPinned
  <2>2. TypeOK'
    BY <1>3, <1>4, <1>8, <2>1 DEF TypeOK, ProbePhases, UndoPhases
  <2>3. Counted' /\ refs' = Count(OpenFds)' + (IF phase' = "absent" THEN 0 ELSE 1)
    BY <1>2, <1>3, <1>8, <2>1 DEF Counted
  <2>4. devLive' <=> refs' # 0
    <3>1. refs # 1 <=> refs' # 0
      BY <1>3, <2>1
    <3> QED BY <1>8, <3>1
  <2>5. Teared' /\ Held'
    BY <1>1, <1>8 DEF Teared, Drained, Quiet, Held, TypeOK
  <2> QED BY <2>2, <2>3, <2>4, <2>5 DEF ContextPinned
<1> QED BY <1>5, <1>6, <1>7, <1>8 DEF Teardown

\* A step of one descriptor's thread: it alone moves.
LEMMA Moves ==
    ASSUME NEW f \in Fd, NEW from, NEW to, TypeOK, Goto(f, from, to),
           to \in {"closed"} \cup OpenFds
    PROVE  /\ fd[f] = from /\ fd'[f] = to
           /\ \A x \in Fd \ {f} : fd'[x] = fd[x]
           /\ fd' \in [Fd -> {"closed"} \cup OpenFds]
BY DEF Goto, TypeOK

\* The steps of the file operations, each of which moves one thread.
LEMMA FileOpInv == ASSUME NEW f \in Fd PROVE Inv /\ FileOp(f) => Inv'
<1> SUFFICES ASSUME Inv, FileOp(f) PROVE Inv'
  OBVIOUS
<1> USE DEF Inv, host
<1> DEFINE Stays(T) == \A x \in Fd \ {f} : fd[x] \in T <=> fd'[x] \in T
<1>0. Count(InOp) \in Nat /\ Count(OpenFds) \in Nat
  BY CountNat
<1>1. CASE Open(f)
  <2>1. /\ fd[f] = "closed" /\ fd'[f] = "idle"
        /\ \A x \in Fd \ {f} : fd'[x] = fd[x]
        /\ fd' \in [Fd -> {"closed"} \cup OpenFds]
    BY <1>1, Moves DEF Open, OpenFds
  <2>2. /\ fd[f] \notin OpenFds /\ fd'[f] \in OpenFds
        /\ fd[f] \notin InOp /\ fd'[f] \notin InOp
        /\ fd[f] \notin PastGate /\ fd'[f] \notin PastGate
    BY <2>1 DEF OpenFds, InOp, PastGate, UsesNetdev
  <2>3. Stays(OpenFds) /\ Stays(InOp)
    BY <2>1
  <2>4. Count(OpenFds)' = Count(OpenFds) + 1
    BY <2>2, <2>3, CountUp
  <2>5. Count(InOp)' = Count(InOp)
    BY <2>2, <2>3, CountSame
  <2>6. phase \notin {"absent", "misc", "err_buf", "put"} /\ phase' = phase
    BY <1>1 DEF Open, Held
  <2>7. TypeOK'
    BY <1>1, <2>1 DEF Open, TypeOK
  <2>8. refs' = Count(OpenFds)' + (IF phase' = "absent" THEN 0 ELSE 1)
    BY <1>0, <1>1, <2>4, <2>6 DEF Open, ContextPinned
  <2>9. refs # 0 /\ refs' # 0
    BY <1>0, <1>1, <2>6 DEF Open, ContextPinned
  <2>10. devLive' <=> refs' # 0
    BY <1>1, <2>9 DEF Open, ContextPinned
  <2>11. Counted'
    BY <1>1, <2>5 DEF Open, Counted
  <2>12. Teared'
    BY <1>1, <2>1, <2>2, <2>6 DEF Open, Teared, Drained, Quiet
  <2>13. Held'
    BY <1>1 DEF Open, Held
  <2> QED BY <2>7, <2>8, <2>10, <2>11, <2>12, <2>13 DEF ContextPinned
<1>2. CASE Close(f)
  <2> USE DEF Close, DevPut
  <2>1. /\ fd[f] = "idle" /\ fd'[f] = "closed"
        /\ \A x \in Fd \ {f} : fd'[x] = fd[x]
        /\ fd' \in [Fd -> {"closed"} \cup OpenFds]
    BY <1>2, Moves
  <2>2. /\ fd[f] \in OpenFds /\ fd'[f] \notin OpenFds
        /\ fd[f] \notin InOp /\ fd'[f] \notin InOp
        /\ fd'[f] \notin PastGate
    BY <2>1 DEF OpenFds, InOp, PastGate, UsesNetdev
  <2>3. Stays(OpenFds) /\ Stays(InOp)
    BY <2>1
  <2>4. /\ Count(OpenFds)' = Count(OpenFds) - 1
        /\ Count(OpenFds)' \in Nat
        /\ Count(OpenFds) # 0
    BY <2>2, <2>3, CountDown
  <2>5. Count(InOp)' = Count(InOp)
    BY <2>2, <2>3, CountSame
  <2>6. /\ refs = Count(OpenFds) + (IF phase = "absent" THEN 0 ELSE 1)
        /\ refs' = refs - 1 /\ phase' = phase
    BY <1>2 DEF ContextPinned
  <2>7. refs' \in Nat /\ refs' = Count(OpenFds)' + (IF phase' = "absent" THEN 0 ELSE 1)
    BY <1>0, <2>4, <2>6
  <2>8. refs' # 0 <=> refs # 1
    BY <2>6, <2>7
  <2>9. devLive' <=> refs' # 0
    BY <1>2, <2>8
  <2>10. devLive' \in BOOLEAN
    BY <1>2
  <2>11. TypeOK'
    BY <1>2, <2>1, <2>7, <2>10 DEF TypeOK
  <2>12. Counted'
    BY <1>2, <2>5 DEF Counted
  <2>13. Teared'
    BY <1>2, <2>1, <2>2 DEF Teared, Drained, Quiet
  <2>14. Held'
    BY <1>2 DEF Held
  <2> QED BY <2>7, <2>9, <2>11, <2>12, <2>13, <2>14 DEF ContextPinned
<1>3. CASE OpEnter(f)
  <2>1. /\ fd[f] = "idle" /\ fd'[f] = "entering"
        /\ \A x \in Fd \ {f} : fd'[x] = fd[x]
        /\ fd' \in [Fd -> {"closed"} \cup OpenFds]
    BY <1>3, Moves DEF OpEnter, OpenFds, InOp
  <2>2. /\ fd[f] \in OpenFds /\ fd'[f] \in OpenFds
        /\ fd[f] \notin InOp /\ fd'[f] \in InOp
        /\ fd'[f] \notin PastGate
    BY <2>1 DEF OpenFds, InOp, PastGate, UsesNetdev
  <2>3. Stays(OpenFds) /\ Stays(InOp)
    BY <2>1
  <2>4. Count(InOp)' = Count(InOp) + 1
    BY <2>2, <2>3, CountUp
  <2>5. Count(OpenFds)' = Count(OpenFds)
    BY <2>2, <2>3, CountSame
  <2>6. TypeOK' /\ Counted'
    BY <1>3, <2>1, <2>4 DEF OpEnter, TypeOK, Counted
  <2>7. ContextPinned'
    BY <1>3, <2>5 DEF OpEnter, ContextPinned
  <2>8. Teared'
    BY <1>3, <2>1, <2>2 DEF OpEnter, Teared, Drained, Quiet
  <2>9. Held'
    BY <1>3 DEF OpEnter, Held
  <2> QED BY <2>6, <2>7, <2>8, <2>9
<1>4. CASE OpExit(f)
  <2>1. /\ fd[f] \in {"bailing", "leaving"} /\ fd'[f] = "idle"
        /\ \A x \in Fd \ {f} : fd'[x] = fd[x]
        /\ fd' \in [Fd -> {"closed"} \cup OpenFds]
    BY <1>4, Moves DEF OpExit, OpenFds
  <2>2. /\ fd[f] \in OpenFds /\ fd'[f] \in OpenFds
        /\ fd[f] \in InOp /\ fd'[f] \notin InOp
        /\ fd'[f] \notin PastGate
    BY <2>1 DEF OpenFds, InOp, PastGate, UsesNetdev
  <2>3. Stays(OpenFds) /\ Stays(InOp)
    BY <2>1
  <2>4. /\ Count(InOp)' = Count(InOp) - 1
        /\ Count(InOp)' \in Nat
    BY <2>2, <2>3, CountDown
  <2>5. Count(OpenFds)' = Count(OpenFds)
    BY <2>2, <2>3, CountSame
  <2>6. TypeOK' /\ Counted'
    BY <1>4, <2>1, <2>4 DEF OpExit, TypeOK, Counted
  <2>7. ContextPinned'
    BY <1>4, <2>5 DEF OpExit, ContextPinned
  <2>8. Teared'
    BY <1>4, <2>1, <2>2 DEF OpExit, Teared, Drained, Quiet
  <2>9. Held'
    BY <1>4 DEF OpExit, Held
  <2> QED BY <2>6, <2>7, <2>8, <2>9
<1>5. CASE OpCheck(f) \/ OpNoNetdev(f) \/ OpNetdev(f) \/ OpSleep(f) \/ OpWake(f) \/ OpDone(f)
  <2> USE DEF OpCheck, OpNoNetdev, OpNetdev, OpSleep, OpWake, OpDone, Goto
  <2>1. \A x \in Fd : /\ fd'[x] \in InOp <=> fd[x] \in InOp
                      /\ fd'[x] \in OpenFds <=> fd[x] \in OpenFds
    BY <1>5 DEF TypeOK, OpenFds, InOp, PastGate, UsesNetdev
  <2>2. Count(InOp)' = Count(InOp) /\ Count(OpenFds)' = Count(OpenFds)
    BY <2>1, CountSame
  <2>3. fd' \in [Fd -> {"closed"} \cup OpenFds]
    BY <1>5 DEF TypeOK, OpenFds, InOp, PastGate, UsesNetdev
  <2>4. TypeOK' /\ Counted' /\ ContextPinned'
    BY <1>5, <2>2, <2>3 DEF TypeOK, Counted, ContextPinned
  <2>5. Teared'
    BY <1>5 DEF Teared, TypeOK, Drained, Quiet, PastGate, UsesNetdev
  <2>6. Held'
    BY <1>5 DEF Held
  <2> QED BY <2>4, <2>5, <2>6
<1> QED BY <1>1, <1>2, <1>3, <1>4, <1>5 DEF FileOp, OpStep

\* The invariant is preserved by every step.
LEMMA InvStep == Inv /\ [Next]_vars => Inv'
<1>1. CASE UNCHANGED vars
  BY <1>1 DEF vars, Inv, TypeOK, Counted, ContextPinned, Count, Teared, Held
<1>2. CASE Next
  BY <1>2, ProbeInv, TeardownInv, FileOpInv DEF Next
<1> QED BY <1>1, <1>2

LEMMA InvInit == Init => Inv
<1> SUFFICES ASSUME Init PROVE Inv
  OBVIOUS
<1>1. Count(InOp) = 0 /\ Count(OpenFds) = 0
  <2>1. /\ {f \in Fd : fd[f] \in InOp} = {}
        /\ {f \in Fd : fd[f] \in OpenFds} = {}
    BY DEF Init, OpenFds, InOp, PastGate, UsesNetdev
  <2> QED BY <2>1, FS_EmptySet DEF Count
<1>2. TypeOK /\ Counted
  BY <1>1 DEF Init, TypeOK, Counted, ProbePhases, OpenFds
<1>3. ContextPinned
  BY <1>1 DEF Init, ContextPinned
<1>4. Teared
  BY DEF Init, Teared, Drained, Quiet, PastGate, UsesNetdev
<1>5. Held
  BY DEF Init, Held
<1> QED BY <1>2, <1>3, <1>4, <1>5 DEF Inv

\* Type correctness, for any set of descriptors.
THEOREM GateTypeOK == Spec => []TypeOK
<1>1. Inv => TypeOK
  BY DEF Inv
<1> QED BY <1>1, InvInit, InvStep, PTL DEF Spec

\* The driver context is allocated exactly while probe or a descriptor refers
\* to it: artosyn_open and artosyn_close against artosyn_dev_put in remove.
THEOREM ContextIsPinned == Spec => []ContextPinned
<1>1. Inv => ContextPinned
  BY DEF Inv
<1> QED BY <1>1, InvInit, InvStep, PTL DEF Spec

\* The interrupt handler never runs against a freed net_device.
THEOREM IrqIsSafe == Spec => []IrqResources
<1>1. Inv => IrqResources
  BY DEF Inv, Held, IrqResources
<1> QED BY <1>1, InvInit, InvStep, PTL DEF Spec

\* An operation past the gate keeps the function and the net_device it uses,
\* whatever teardown does meanwhile, off the failure path of register_netdev.
LEMMA IInvStep == IInv /\ [Next]_vars => IInv'
<1> SUFFICES ASSUME IInv, [Next]_vars PROVE IInv'
  OBVIOUS
<1> DEFINE Late == RegisterErrorPath \cup Quiet
<1>1. Inv /\ Inv'
  BY InvStep DEF IInv
<1>2. \A f \in Fd : fd'[f] \in PastGate => func'
  BY <1>1 DEF Inv, Held, Teared, Quiet
<1>3. ASSUME phase' \notin Late
      PROVE  phase \notin RegisterErrorPath /\ (ndevPtr /\ phase \notin Quiet => ndevPtr')
  BY <1>3
  DEF Next, vars, Probe, ProbeStart, ProbeMisc, ProbeFork, SetupNetdev, RegisterNetdev,
      ClaimIrq, Remove, Step, Teardown, QuiesceWake, QuiesceDrain, ReleaseIrq, FreeNetdev,
      ClearNdev, MiscDeregister, DisableFunc, PutProbe, FileOp, Open, Close, OpEnter,
      OpStep, OpCheck, OpExit, OpNoNetdev, OpNetdev, OpSleep, OpWake, OpDone, host,
      RegisterErrorPath, Quiet, Drained
<1>4. ASSUME NEW f \in Fd, fd'[f] \in UsesNetdev, phase' \notin RegisterErrorPath
      PROVE  ndevLive'
  <2>1. phase' \notin Late
    BY <1>1, <1>4 DEF Inv, Teared, PastGate
  <2>2. phase' \notin {"r_clear", "n_clear", "reg_clear"}
    BY <2>1 DEF RegisterErrorPath, Quiet, Drained
  <2>3. ndevPtr'
    <3>1. CASE fd[f] \in UsesNetdev
      <4>1. ndevLive
        BY <1>3, <2>1, <3>1 DEF IInv, OpResourcesBehindGate, OpResources
      <4>2. ndevPtr /\ phase \notin Quiet
        BY <1>1, <3>1, <4>1 DEF Inv, Held, Teared, PastGate
      <4> QED BY <1>3, <2>1, <4>2
    <3>2. CASE fd[f] \notin UsesNetdev
      <4>1. PICK g \in Fd : FileOp(g)
        BY <1>4, <3>2
        DEF Next, vars, Probe, ProbeStart, ProbeMisc, ProbeFork, SetupNetdev,
            RegisterNetdev, ClaimIrq, Remove, Teardown, QuiesceWake, QuiesceDrain,
            ReleaseIrq, FreeNetdev, ClearNdev, MiscDeregister, DisableFunc, PutProbe,
            UsesNetdev
      <4>2. CASE OpNetdev(g)
        BY <4>2 DEF OpNetdev, host
      <4>3. CASE ~OpNetdev(g)
        BY <1>1, <1>4, <3>2, <4>1, <4>3
        DEF Inv, TypeOK, FileOp, Open, Close, OpEnter, OpStep, OpCheck, OpExit,
            OpNoNetdev, OpSleep, OpWake, OpDone, Goto, UsesNetdev
      <4> QED BY <4>2, <4>3
    <3> QED BY <3>1, <3>2
  <2> QED BY <1>1, <2>2, <2>3 DEF Inv, Held
<1>5. OpResourcesBehindGate'
  BY <1>2, <1>4 DEF OpResourcesBehindGate, OpResources
<1> QED BY <1>1, <1>2, <1>5 DEF IInv

\* What a bracketed operation may use: the function from the gate to the
\* exit, the net_device from the fetch of dev->ndev on.
THEOREM OpsKeepTheirResources == Spec => []OpResourcesBehindGate
<1>1. Init => IInv
  BY InvInit
  DEF Init, IInv, OpResourcesBehindGate, OpResources, PastGate, UsesNetdev
<1>2. IInv => OpResourcesBehindGate
  BY DEF IInv
<1> QED BY <1>1, <1>2, IInvStep, PTL DEF Spec
=============================================================================
