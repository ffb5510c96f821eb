------------------------- MODULE TransmitterIdProofs ------------------------
(***************************************************************************)
(* Proofs about TransmitterId: for every set of IDs and every number of    *)
(* boots, no flight controller is bound to the address of zeros, and a     *)
(* saved binding survives the power failures of the transmitter.           *)
(*                                                                         *)
(* Neither is inductive alone.  An ID in use is valid because it was       *)
(* loaded or generated as such in this boot, and a binding survives        *)
(* because startup never reaches the generator while the stored ID can be  *)
(* read.                                                                   *)
(***************************************************************************)
EXTENDS TransmitterId, TLAPS

\* From its generation or its load on, the ID is not the invalid one.
IdInUseIsValid == pc \in {"set", "commit", "running"} => Valid(txId)

\* What may reach the flash is valid.
UnsureIsValid == unsure # Zero

\* While the flash can be read, a stored ID that the flight controller saved
\* stays where it is and startup does not generate another.
StoredStays ==
    faults \cap {"init", "read"} = {} /\ kept =>
        /\ fcSaved \in Ids
        /\ nvs = fcSaved /\ unsure = None
        /\ pc \notin {"generate", "set", "commit"}

IInv == /\ TypeOK /\ IdInUseIsValid /\ UnsureIsValid
        /\ NeverBoundToZero /\ StoredStays /\ BindingSurvives

\* A new transmitter and a flight controller that knows none satisfy it.
LEMMA InitIInv == Init => IInv
<1> SUFFICES ASSUME Init PROVE IInv
  OBVIOUS
<1> USE TransmitterIdAssumption DEF Init
<1>1. TypeOK
  <2>1. boots \in 0 .. MaxBoots
    OBVIOUS
  <2>2. kept \in BOOLEAN /\ faults \subseteq {"init", "read", "write"}
    BY Zenon
  <2> QED BY <2>1, <2>2 DEF TypeOK
<1>2. UnsureIsValid /\ NeverBoundToZero
  BY DEF UnsureIsValid, NeverBoundToZero
<1>3. IdInUseIsValid /\ StoredStays /\ BindingSurvives
  BY DEF IdInUseIsValid, StoredStays, BindingSurvives
<1> QED BY <1>1, <1>2, <1>3 DEF IInv

\* The ID that is generated is an ID and valid.
LEMMA GeneratedIsValid ==
    ASSUME NEW random \in Ids
    PROVE  Generated(random) \in Ids /\ Valid(Generated(random))
  BY TransmitterIdAssumption DEF Generated, Valid

\* Every step keeps the variables in their types and the IDs valid.
LEMMA StepValid ==
    ASSUME IInv, Next
    PROVE  TypeOK' /\ IdInUseIsValid' /\ UnsureIsValid' /\ NeverBoundToZero'
<1> USE TransmitterIdAssumption
    DEF IInv, TypeOK, IdInUseIsValid, UnsureIsValid, NeverBoundToZero, fc
<1>1. CASE PowerOn  BY <1>1 DEF PowerOn
<1>2. CASE NvsInit  BY <1>2 DEF NvsInit, Fault
<1>3. CASE Load     BY <1>3 DEF Load, Loaded, Fault, Valid
<1>4. CASE SetBlob  BY <1>4 DEF SetBlob, Fault, Valid
<1>5. CASE Commit   BY <1>5 DEF Commit, Fault
<1>6. CASE PowerOff BY <1>6 DEF PowerOff
<1>7. ASSUME NEW random \in Ids, Generate(random)
      PROVE  TypeOK' /\ IdInUseIsValid' /\ UnsureIsValid' /\ NeverBoundToZero'
  BY <1>7, GeneratedIsValid DEF Generate
<1>8. CASE Bind        BY <1>8 DEF Bind, Valid
<1>9. CASE SaveGesture BY <1>9 DEF SaveGesture
<1>10. CASE FcRestart  BY <1>10 DEF FcRestart
<1> QED BY <1>1, <1>2, <1>3, <1>4, <1>5, <1>6, <1>7, <1>8, <1>9, <1>10 DEF Next

\* Every step keeps a stored and saved ID in place.
LEMMA StepStored ==
    ASSUME IInv, Next
    PROVE  StoredStays' /\ BindingSurvives'
<1> USE TransmitterIdAssumption
    DEF IInv, TypeOK, IdInUseIsValid, StoredStays, BindingSurvives, fc
<1>1. CASE PowerOn  BY <1>1 DEF PowerOn
<1>2. CASE NvsInit  BY <1>2 DEF NvsInit, Fault
<1>3. CASE Load     BY <1>3 DEF Load, Loaded, Valid, NeverBoundToZero, Fault
<1>4. CASE SetBlob  BY <1>4 DEF SetBlob, Fault
<1>5. CASE Commit   BY <1>5 DEF Commit, Fault
<1>6. CASE PowerOff BY <1>6 DEF PowerOff
<1>7. ASSUME NEW random \in Ids, Generate(random)
      PROVE  StoredStays' /\ BindingSurvives'
  BY <1>7 DEF Generate
<1>8. CASE Bind        BY <1>8 DEF Bind
<1>9. CASE SaveGesture BY <1>9 DEF SaveGesture
<1>10. CASE FcRestart  BY <1>10 DEF FcRestart
<1> QED BY <1>1, <1>2, <1>3, <1>4, <1>5, <1>6, <1>7, <1>8, <1>9, <1>10 DEF Next

\* IInv is an invariant of startup and binding.
THEOREM Invariance == Spec => []IInv
<1>1. IInv /\ UNCHANGED vars => IInv'
  BY DEF vars, IInv, TypeOK, IdInUseIsValid, UnsureIsValid, NeverBoundToZero,
         StoredStays, BindingSurvives
<1>2. IInv /\ [Next]_vars => IInv'
  BY <1>1, StepValid, StepStored DEF IInv
<1> QED BY <1>2, InitIInv, PTL DEF Spec

\* The address of zeros, to which bind packets are sent, is never learned or
\* saved by a flight controller.
THEOREM ZeroIsNotBound == Spec => []NeverBoundToZero
<1>1. IInv => NeverBoundToZero
  BY DEF IInv
<1> QED BY <1>1, Invariance, PTL

\* Unless reading or initialising NVS fails, the transmitter comes back with
\* the ID that the flight controller saved, wherever its power failed.
THEOREM BindingIsKept == Spec => []BindingSurvives
<1>1. IInv => BindingSurvives
  BY DEF IInv
<1> QED BY <1>1, Invariance, PTL
=============================================================================
