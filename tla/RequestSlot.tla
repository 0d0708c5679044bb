----------------------------- MODULE RequestSlot -----------------------------
(***************************************************************************)
(* How a thread of the application hands a request to a worker of the      *)
(* pipeline without a lock: the seek request of FFMpegStream and the       *)
(* effect request of GraphicDisplayDestination.  There is one request, and *)
(* a pointer to it in a slot; whoever exchanges the pointer for NULL owns  *)
(* the request until it puts the pointer back.  A thread that asks spins   *)
(* until it has the pointer, the worker goes on without it.                *)
(***************************************************************************)
CONSTANTS User, Value, None

ASSUME SlotAssumption == None \notin Value

VARIABLES
  slot,      \* the pointer is in the slot (it is NULL otherwise)
  request,   \* isValid and the value of the request
  asker,     \* where each asking thread is
  wanted,    \* the value each asking thread asks for
  taker,     \* where the worker is
  used       \* history: the value the worker used last

slotVars == <<slot, request, asker, wanted, taker, used>>

SlotInit == /\ slot = TRUE
            /\ request \in [valid : {FALSE}, value : Value]
            /\ asker = [u \in User |-> "idle"]
            /\ wanted \in [User -> {None}]
            /\ taker = "idle"
            /\ used = None

(* The thread's loop, up to the exchange that gives it the pointer.        *)
Acquire(u, v) == /\ asker[u] = "idle"
                 /\ slot
                 /\ slot' = FALSE
                 /\ asker' = [asker EXCEPT ![u] = "write"]
                 /\ wanted' = [wanted EXCEPT ![u] = v]
                 /\ UNCHANGED <<request, taker, used>>

Write(u) == /\ asker[u] = "write"
            /\ request' = [request EXCEPT !.value = wanted[u]]
            /\ asker' = [asker EXCEPT ![u] = "validate"]
            /\ UNCHANGED <<slot, wanted, taker, used>>

Validate(u) == /\ asker[u] = "validate"
               /\ request' = [request EXCEPT !.valid = TRUE]
               /\ asker' = [asker EXCEPT ![u] = "return"]
               /\ UNCHANGED <<slot, wanted, taker, used>>

Return(u) == /\ asker[u] = "return"
             /\ slot' = TRUE
             /\ asker' = [asker EXCEPT ![u] = "idle"]
             /\ wanted' = [wanted EXCEPT ![u] = None]
             /\ UNCHANGED <<request, taker, used>>

AskStep(u) == Write(u) \/ Validate(u) \/ Return(u)

-----------------------------------------------------------------------------
\* mutant: the pointer is read, not exchanged for NULL
TakeWithoutExchange == /\ taker = "idle"
                       /\ slot
                       /\ taker' = "test"
                       /\ UNCHANGED <<slot, request, asker, wanted, used>>

(* The worker's exchange, when it brings the pointer.                      *)
TakeSlot == /\ taker = "idle"
            /\ slot
            /\ slot' = FALSE
            /\ taker' = "test"
            /\ UNCHANGED <<request, asker, wanted, used>>

TestRequest == /\ taker = "test"
               /\ request' = [request EXCEPT !.valid = FALSE]
               /\ taker' = IF request.valid THEN "use" ELSE "return"
               /\ UNCHANGED <<slot, asker, wanted, used>>

(* The worker reads the value, for the last time, and acts on it.          *)
Use == /\ taker = "use"
       /\ used' = request.value
       /\ taker' = "return"
       /\ UNCHANGED <<slot, request, asker, wanted>>

GiveBack == /\ taker = "return"
            /\ slot' = TRUE
            /\ taker' = "idle"
            /\ UNCHANGED <<request, asker, wanted, used>>

SlotNext == \/ \E u \in User : \/ \E v \in Value : Acquire(u, v)
                               \/ AskStep(u)
            \/ TakeSlot \/ TestRequest \/ Use \/ GiveBack

SlotSpec == SlotInit /\ [][SlotNext]_slotVars

-----------------------------------------------------------------------------
SlotTypeOK == /\ slot \in BOOLEAN
              /\ request \in [valid : BOOLEAN, value : Value]
              /\ asker \in [User -> {"idle", "write", "validate", "return"}]
              /\ wanted \in [User -> Value \cup {None}]
              /\ \A u \in User : asker[u] # "idle" => wanted[u] \in Value
              /\ taker \in {"idle", "test", "use", "return"}
              /\ used \in Value \cup {None}

(***************************************************************************)
(* Whoever has the pointer is alone with the request: while it is in the   *)
(* slot nobody works on the request, and of the threads that ask and the   *)
(* worker one at most does.                                                *)
(***************************************************************************)
OneOwner == /\ slot => taker = "idle" /\ \A u \in User : asker[u] = "idle"
            /\ \A u \in User : asker[u] # "idle" =>
                 /\ taker = "idle"
                 /\ \A w \in User \ {u} : asker[w] = "idle"

(***************************************************************************)
(* The slot is a mailbox of one place: a request that was put in is used   *)
(* by the worker, once and with the value it was put in with, unless a     *)
(* later one took its place first.                                         *)
(***************************************************************************)
M == INSTANCE Mailbox WITH
       box <- IF request.valid THEN request.value ELSE None,
       taken <- IF taker = "use" THEN request.value ELSE used

ImplementsMailbox == M!Spec

-----------------------------------------------------------------------------
(***************************************************************************)
(* What a step of whoever uses the slot keeps, for any number of asking    *)
(* threads: the pointer is a lock of the request.                          *)
(***************************************************************************)
SlotInv == SlotTypeOK /\ OneOwner

LEMMA InitSlotInv == SlotInit => SlotInv
  BY DEF SlotInit, SlotInv, SlotTypeOK, OneOwner

LEMMA StepSlotInv == SlotInv /\ [SlotNext]_slotVars => SlotInv'
<1> SUFFICES ASSUME SlotInv, [SlotNext]_slotVars PROVE SlotInv'
  OBVIOUS
<1> USE DEF SlotInv, SlotTypeOK, OneOwner
<1>1. CASE UNCHANGED slotVars
  BY <1>1 DEF slotVars
<1>2. ASSUME NEW u \in User, NEW v \in Value, Acquire(u, v) PROVE SlotInv'
  BY <1>2 DEF Acquire
<1>3. ASSUME NEW u \in User, Write(u) PROVE SlotInv'
  BY <1>3 DEF Write
<1>4. ASSUME NEW u \in User, Validate(u) PROVE SlotInv'
  BY <1>4 DEF Validate
<1>5. ASSUME NEW u \in User, Return(u) PROVE SlotInv'
  BY <1>5 DEF Return
<1>6. CASE TakeSlot
  BY <1>6 DEF TakeSlot
<1>7. CASE TestRequest
  BY <1>7 DEF TestRequest
<1>8. CASE Use
  BY <1>8 DEF Use
<1>9. CASE GiveBack
  BY <1>9 DEF GiveBack
<1>. QED
  BY <1>1, <1>2, <1>3, <1>4, <1>5, <1>6, <1>7, <1>8, <1>9 DEF SlotNext, AskStep

(* A step on the slot is a step of the mailbox or none: what is written    *)
(* while a request waits replaces it, and testing it takes it out.         *)
LEMMA InitMailbox == SlotInit => M!Init
  BY DEF SlotInit, M!Init

LEMMA StepMailbox ==
  SlotInv /\ [SlotNext]_slotVars =>
    [M!Next]_<<IF request.valid THEN request.value ELSE None,
               IF taker = "use" THEN request.value ELSE used>>
<1> DEFINE box   == IF request.valid THEN request.value ELSE None
           put   == IF taker = "use" THEN request.value ELSE used
<1> SUFFICES ASSUME SlotInv, [SlotNext]_slotVars
             PROVE  M!Next \/ (box' = box /\ put' = put)
  OBVIOUS
<1> USE DEF SlotInv, SlotTypeOK, OneOwner
<1>1. CASE UNCHANGED slotVars
  BY <1>1 DEF slotVars
<1>2. ASSUME NEW u \in User, NEW v \in Value, Acquire(u, v)
      PROVE  box' = box /\ put' = put
  BY <1>2 DEF Acquire
<1>3. ASSUME NEW u \in User, Write(u) PROVE M!Next \/ (box' = box /\ put' = put)
  <2>1. wanted[u] \in Value /\ taker # "use" /\ put' = put
    BY <1>3 DEF Write
  <2>2. CASE request.valid
    <3>. box' = wanted[u]
      BY <1>3, <2>2 DEF Write
    <3>. QED
      BY <2>1 DEF M!Next, M!Put
  <2>3. CASE ~request.valid
    BY <1>3, <2>1, <2>3 DEF Write
  <2>. QED
    BY <2>2, <2>3
<1>4. ASSUME NEW u \in User, Validate(u) PROVE M!Next
  <2>1. request.value \in Value /\ box' = request.value /\ put' = put
    BY <1>4 DEF Validate
  <2>. QED
    BY <2>1 DEF M!Next, M!Put
<1>5. ASSUME NEW u \in User, Return(u) PROVE box' = box /\ put' = put
  BY <1>5 DEF Return
<1>6. CASE TakeSlot
  BY <1>6 DEF TakeSlot
<1>7. CASE TestRequest
  <2>1. CASE request.valid
    <3>1. box = request.value /\ box' = None /\ put' = request.value
      BY <1>7, <2>1 DEF TestRequest
    <3>2. box # None
      BY <3>1, SlotAssumption
    <3>. QED
      BY <3>1, <3>2 DEF M!Next, M!Take
  <2>2. CASE ~request.valid
    BY <1>7, <2>2 DEF TestRequest
  <2>. QED
    BY <2>1, <2>2
<1>8. CASE Use
  BY <1>8 DEF Use
<1>9. CASE GiveBack
  BY <1>9 DEF GiveBack
<1>. QED
  BY <1>1, <1>2, <1>3, <1>4, <1>5, <1>6, <1>7, <1>8, <1>9 DEF SlotNext, AskStep
=============================================================================
