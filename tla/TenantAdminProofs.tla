------------------------- MODULE TenantAdminProofs -------------------------
(***************************************************************************)
(* The rotation of API keys, the deletion of a tenant and the columns of   *)
(* its row under any number of overlapping requests.                       *)
(*                                                                         *)
(* TypeOK and the two properties of the keys are not inductive: nothing in *)
(* them says that a rotation in progress holds a key of its own, nor that  *)
(* the copy an update holds carries a checked fee.  Inv adds that.         *)
(***************************************************************************)
EXTENDS TenantAdmin, TLAPS

(* The request in progress at i is a rotation with this key.              *)
Rotating(i) == call[i].op = "rotate"

(* The key of a rotation in progress was generated for it alone.           *)
PendingKeysFresh ==
    \A i \in Calls : Rotating(i) =>
        /\ call[i].key \in issued
        /\ call[i].key \notin answered \cup unheard
        /\ \A j \in Calls : Rotating(j) /\ j # i => call[j].key # call[i].key

CopiesChecked ==
    \A i \in Calls : call[i].op = "update" => FeePositive(call[i].copy.fee)

Inv ==
    /\ TypeOK
    /\ CopiesChecked
    /\ PendingKeysFresh
    /\ AnsweredKeysHold
    /\ RetiredKeysStayDead

-----------------------------------------------------------------------------
LEMMA CallFields ==
    ASSUME TypeOK, NEW i \in Calls
    PROVE  /\ call[i] \in Call
           /\ call[i].op = "update" =>
                 call[i].req \in Request /\ call[i].copy \in Row
           /\ call[i].op = "rotate" => call[i].key \in Keys
           /\ call[i].op = "bank" => call[i].value \in Accounts \cup {Null}
           /\ call[i].op = "logo" => call[i].value \in Logos
<1>1. call[i] \in Call
    BY DEF TypeOK
<1>2. QED
    BY <1>1 DEF Call, Free

LEMMA CheckedPositive ==
    ASSUME NEW message \in [percentageBPS : Int, fixedCentavos : Int],
           MessageValid(message), NEW feeType
    PROVE  FeePositive(WithType(message, feeType))
BY DEF MessageValid, FeeValid, FeePositive, WithType

LEMMA MessageType ==
    /\ FeeMessages \subseteq [percentageBPS : Int, fixedCentavos : Int]
    /\ DefaultFee \in [percentageBPS : Int, fixedCentavos : Int]
    /\ MessageValid(DefaultFee)
BY TenantAdminAssumption DEF DefaultFee, MessageValid, FeeValid, WithType

LEMMA StoredFields ==
    ASSUME NEW fee \in StoredFees
    PROVE  /\ fee.feeType \in FeeTypes
           /\ \A feeType \in FeeTypes : WithType(fee, feeType) \in StoredFees
           /\ fee.percentageBPS \in Int /\ fee.fixedCentavos \in Int
<1>1. PICK message \in FeeMessages \cup {DefaultFee}, feeType \in FeeTypes :
          fee = WithType(message, feeType)
    BY DEF StoredFees
<1>2. message \in [percentageBPS : Int, fixedCentavos : Int]
    BY MessageType
<1>3. \A type \in FeeTypes : WithType(fee, type) = WithType(message, type)
    BY <1>1 DEF WithType
<1>4. QED
    BY <1>1, <1>2, <1>3 DEF StoredFees, WithType

(* The patched copy of a row is a row, with a fee that was checked.        *)
LEMMA PatchedRow ==
    ASSUME NEW row \in Row, FeePositive(row.fee), NEW req \in Request,
           req.fee # Unset => MessageValid(req.fee)
    PROVE  /\ Patched(row, req) \in Row
           /\ FeePositive(Patched(row, req).fee)
<1>1. row.fee \in StoredFees /\ row.name \in Names
    BY DEF Row
<1>2. Given(req.name, row.name) \in Names
    BY <1>1 DEF Given, Request
<1>3. PICK feeType \in FeeTypes :
          Given(req.feeType, row.fee.feeType) = feeType
    BY <1>1, StoredFields DEF Given, Request
<1>4. /\ WithType(Given(req.fee, row.fee), feeType) \in StoredFees
      /\ FeePositive(WithType(Given(req.fee, row.fee), feeType))
    <2>1. CASE req.fee = Unset
        BY <1>1, <2>1, StoredFields DEF Given, FeePositive, WithType
    <2>2. CASE req.fee # Unset
        <3>1. req.fee \in FeeMessages /\ MessageValid(req.fee)
            BY <2>2 DEF Request
        <3>2. QED
            BY <2>2, <3>1, MessageType, CheckedPositive DEF Given, StoredFees
    <2>3. QED
        BY <2>1, <2>2
<1>5. Patched(row, req) =
         [row EXCEPT !.name = Given(req.name, row.name),
                     !.fee = WithType(Given(req.fee, row.fee), feeType)]
    BY <1>3 DEF Patched, Row
<1>6. QED
    BY <1>2, <1>4, <1>5 DEF Row

-----------------------------------------------------------------------------
LEMMA InitInv == Init => Inv
<1> SUFFICES ASSUME Init PROVE Inv
    OBVIOUS
<1>1. PICK name \in Names, feeType \in FeeTypes, key \in Keys,
           fee \in {m \in FeeMessages : MessageValid(m)} \cup {DefaultFee} :
          tenant = [name |-> name, fee |-> WithType(fee, feeType), key |-> key,
                    bank |-> Null, logo |-> Null, deleted |-> FALSE]
    BY DEF Init
<1>2. WithType(fee, feeType) \in StoredFees /\ FeePositive(WithType(fee, feeType))
    BY MessageType, CheckedPositive DEF StoredFees
<1>3. tenant \in Row /\ FeePositive(tenant.fee)
    BY <1>1, <1>2 DEF Row
<1>4. call \in [Calls -> Call] /\ \A i \in Calls : call[i].op = "free"
    BY DEF Init, Call, Free
<1>5. tenant.key \in Keys
    BY <1>1
<1>6. QED
    BY <1>3, <1>4, <1>5 DEF Init, Inv, TypeOK, CopiesChecked, PendingKeysFresh,
        Rotating, AnsweredKeysHold, RetiredKeysStayDead

-----------------------------------------------------------------------------
(* A step that ends a request frees it and leaves the keys of the rest.    *)
LEMMA FreedCalls ==
    ASSUME Inv, NEW i \in Calls, call' = [call EXCEPT ![i] = Free],
           issued' = issued,
           \A j \in Calls :
              Rotating(j) /\ j # i => call[j].key \notin (answered \cup unheard)'
    PROVE  /\ call' \in [Calls -> Call]
           /\ CopiesChecked'
           /\ PendingKeysFresh'
<1>1. call \in [Calls -> Call] /\ Free \in Call
    BY DEF Inv, TypeOK, Call
<1>2. call'[i].op = "free" /\ \A j \in Calls \ {i} : call'[j] = call[j]
    BY <1>1 DEF Free
<1>3. CopiesChecked'
    BY <1>2 DEF Inv, CopiesChecked
<1>4. PendingKeysFresh'
    BY <1>2 DEF Inv, PendingKeysFresh, Rotating
<1>5. QED
    BY <1>1, <1>3, <1>4

(* A step that begins a request other than a rotation.                     *)
LEMMA BegunCalls ==
    ASSUME Inv, NEW i \in Calls, NEW request \in Call,
           call' = [call EXCEPT ![i] = request],
           request.op # "rotate",
           request.op = "update" => FeePositive(request.copy.fee),
           UNCHANGED <<tenant, issued, answered, unheard, retired>>
    PROVE  Inv'
<1>1. call \in [Calls -> Call]
    BY DEF Inv, TypeOK
<1>2. call'[i] = request /\ \A j \in Calls \ {i} : call'[j] = call[j]
    BY <1>1
<1>3. CopiesChecked'
    BY <1>2 DEF Inv, CopiesChecked
<1>4. PendingKeysFresh'
    BY <1>2 DEF Inv, PendingKeysFresh, Rotating
<1>5. QED
    BY <1>1, <1>3, <1>4 DEF Inv, TypeOK, AnsweredKeysHold, RetiredKeysStayDead

(* A step that writes columns other than the key and ends its request.     *)
LEMMA ColumnsWritten ==
    ASSUME Inv, NEW i \in Calls, call' = [call EXCEPT ![i] = Free],
           UNCHANGED <<issued, answered, unheard, retired>>,
           tenant' \in Row, FeePositive(tenant'.fee), tenant'.key = tenant.key
    PROVE  Inv'
<1>1. /\ call' \in [Calls -> Call]
      /\ CopiesChecked'
      /\ PendingKeysFresh'
    BY FreedCalls DEF Inv, PendingKeysFresh
<1>2. QED
    BY <1>1 DEF Inv, TypeOK, AnsweredKeysHold, RetiredKeysStayDead

LEMMA ReadsInv ==
    ASSUME Inv, NEW i \in Calls,
           UpdateReads(i) \/ BankAuthenticates(i) \/ LogoUploads(i)
    PROVE  Inv'
<1>1. CASE UpdateReads(i)
    <2>1. PICK req \in Request :
              /\ req.fee # Unset => MessageValid(req.fee)
              /\ Begin(i, [op |-> "update", req |-> req,
                           copy |-> Patched(tenant, req)])
        BY <1>1 DEF UpdateReads
    <2>2. Patched(tenant, req) \in Row /\ FeePositive(Patched(tenant, req).fee)
        BY <2>1, PatchedRow DEF Inv, TypeOK
    <2>3. PICK request : request = [op |-> "update", req |-> req,
                                    copy |-> Patched(tenant, req)]
        OBVIOUS
    <2>4. /\ request \in Call /\ request.op = "update"
          /\ FeePositive(request.copy.fee)
        BY <2>2, <2>3 DEF Call
    <2>5. QED
        BY <1>1, <2>1, <2>3, <2>4, BegunCalls DEF Begin, UpdateReads
<1>2. CASE BankAuthenticates(i)
    <2>1. PICK account \in Accounts \cup {Null} :
              Begin(i, [op |-> "bank", value |-> account])
        BY <1>2 DEF BankAuthenticates
    <2>2. [op |-> "bank", value |-> account] \in Call
        BY DEF Call
    <2>3. QED
        BY <1>2, <2>1, <2>2, BegunCalls DEF Begin, BankAuthenticates
<1>3. CASE LogoUploads(i)
    <2>1. PICK logo \in Logos : Begin(i, [op |-> "logo", value |-> logo])
        BY <1>3 DEF LogoUploads
    <2>2. [op |-> "logo", value |-> logo] \in Call
        BY DEF Call
    <2>3. QED
        BY <1>3, <2>1, <2>2, BegunCalls DEF Begin, LogoUploads
<1>4. QED
    BY <1>1, <1>2, <1>3

LEMMA WritesInv ==
    ASSUME Inv, NEW i \in Calls,
           UpdateWrites(i) \/ BankWrites(i) \/ LogoWrites(i) \/ CallFails(i)
    PROVE  Inv'
<1>1. tenant \in Row /\ FeePositive(tenant.fee)
    BY DEF Inv, TypeOK
<1>2. CASE UpdateWrites(i)
    <2>1. call[i].op = "update"
        BY <1>2 DEF UpdateWrites, Finish
    <2>2. call[i].copy \in Row /\ FeePositive(call[i].copy.fee)
        BY <2>1, CallFields DEF Inv, CopiesChecked
    <2>3. PICK row : row = [tenant EXCEPT !.name = call[i].copy.name,
                                          !.fee = call[i].copy.fee]
        OBVIOUS
    <2>4. row \in Row /\ FeePositive(row.fee) /\ row.key = tenant.key
        BY <1>1, <2>2, <2>3 DEF Row
    <2>5. QED
        BY <1>1, <1>2, <2>3, <2>4, ColumnsWritten DEF UpdateWrites, Finish
<1>3. CASE BankWrites(i)
    <2>1. call[i].value \in Accounts \cup {Null}
        BY <1>3, CallFields DEF BankWrites, Finish, Inv
    <2>2. PICK row : row = [tenant EXCEPT !.bank = call[i].value]
        OBVIOUS
    <2>3. row \in Row /\ FeePositive(row.fee) /\ row.key = tenant.key
        BY <1>1, <2>1, <2>2 DEF Row
    <2>4. QED
        BY <1>1, <1>3, <2>2, <2>3, ColumnsWritten DEF BankWrites, Finish
<1>4. CASE LogoWrites(i)
    <2>1. call[i].value \in Logos
        BY <1>4, CallFields DEF LogoWrites, Finish, Inv
    <2>2. PICK row : row = [tenant EXCEPT !.logo = call[i].value]
        OBVIOUS
    <2>3. row \in Row /\ FeePositive(row.fee) /\ row.key = tenant.key
        BY <1>1, <2>1, <2>2 DEF Row
    <2>4. QED
        BY <1>1, <1>4, <2>2, <2>3, ColumnsWritten DEF LogoWrites, Finish
<1>5. CASE CallFails(i)
    BY <1>1, <1>5, ColumnsWritten DEF CallFails
<1>6. QED
    BY <1>2, <1>3, <1>4, <1>5

LEMMA RotateReadsInv ==
    ASSUME Inv, NEW i \in Calls, RotateReads(i)
    PROVE  Inv'
<1>1. PICK key \in Keys \ issued :
          /\ Begin(i, [op |-> "rotate", key |-> key])
          /\ issued' = issued \cup {key}
    BY DEF RotateReads
<1>2. PICK request : request = [op |-> "rotate", key |-> key]
    OBVIOUS
<1>3. request \in Call /\ request.op = "rotate" /\ request.key = key
    BY <1>2 DEF Call
<1>4. call \in [Calls -> Call] /\ call' = [call EXCEPT ![i] = request]
    BY <1>1, <1>2 DEF Begin, Inv, TypeOK
<1>5. call'[i] = request /\ \A j \in Calls \ {i} : call'[j] = call[j]
    BY <1>4
<1>6. UNCHANGED <<tenant, answered, unheard, retired>>
    BY DEF RotateReads
<1>7. CopiesChecked'
    BY <1>3, <1>5 DEF Inv, CopiesChecked
<1>8. answered \cup unheard \subseteq issued /\ retired \subseteq issued
    BY DEF Inv, TypeOK
<1>9. PendingKeysFresh'
    BY <1>1, <1>3, <1>5, <1>6, <1>8 DEF Inv, PendingKeysFresh, Rotating
<1>10. TypeOK'
    BY <1>1, <1>3, <1>4, <1>6 DEF Inv, TypeOK
<1>11. QED
    BY <1>6, <1>7, <1>9, <1>10 DEF Inv, AnsweredKeysHold, RetiredKeysStayDead

(* The row takes the key of a rotation, which is handed out or lost.       *)
LEMMA RotationInv ==
    ASSUME Inv, NEW i \in Calls, RotateWrites(i) \/ RotateUnanswered(i)
    PROVE  Inv'
<1>1. call[i].op = "rotate" /\ call' = [call EXCEPT ![i] = Free]
    BY DEF RotateWrites, RotateUnanswered, Finish
<1>2. /\ call[i].key \in Keys /\ call[i].key \in issued
      /\ call[i].key \notin answered \cup unheard
      /\ \A j \in Calls : Rotating(j) /\ j # i => call[j].key # call[i].key
    BY <1>1, CallFields DEF Inv, PendingKeysFresh, Rotating
<1>3. CASE tenant.deleted
    BY <1>1, <1>3, ColumnsWritten
       DEF RotateWrites, RotateUnanswered, Finish, Inv, TypeOK
<1>4. CASE ~tenant.deleted
    <2>1. /\ tenant' = [tenant EXCEPT !.key = call[i].key]
          /\ \/ answered' = answered \cup {call[i].key} /\ unheard' = unheard
             \/ answered' = answered /\ unheard' = unheard \cup {call[i].key}
          /\ retired' = retired \cup {tenant.key}
          /\ issued' = issued
        BY <1>4 DEF RotateWrites, RotateUnanswered, Finish
    <2>2. /\ tenant' \in Row /\ FeePositive(tenant'.fee)
          /\ tenant'.key = call[i].key
        BY <1>2, <2>1 DEF Inv, TypeOK, Row
    <2>3. \A j \in Calls :
             Rotating(j) /\ j # i => call[j].key \notin (answered \cup unheard)'
        BY <1>2, <2>1 DEF Inv, PendingKeysFresh
    <2>4. /\ call' \in [Calls -> Call]
          /\ CopiesChecked'
          /\ PendingKeysFresh'
        BY <1>1, <2>1, <2>3, FreedCalls
    <2>5. /\ answered \cup unheard = retired \cup {tenant.key}
          /\ answered \cap unheard = {}
        BY DEF Inv, AnsweredKeysHold
    <2>6. TypeOK'
        BY <1>2, <2>1, <2>2, <2>4, <2>5 DEF Inv, TypeOK
    <2>7. AnsweredKeysHold' /\ RetiredKeysStayDead'
        BY <1>2, <2>1, <2>2, <2>5 DEF AnsweredKeysHold, RetiredKeysStayDead
    <2>8. QED
        BY <2>4, <2>6, <2>7 DEF Inv
<1>5. QED
    BY <1>3, <1>4

LEMMA StepInv == Inv /\ [Next]_vars => Inv'
<1> SUFFICES ASSUME Inv, [Next]_vars PROVE Inv'
    OBVIOUS
<1>1. ASSUME NEW i \in Calls, CallStep(i) PROVE Inv'
    BY <1>1, ReadsInv, WritesInv, RotateReadsInv, RotationInv DEF CallStep
<1>2. CASE DeleteTenant
    <2>1. tenant' \in Row /\ tenant'.fee = tenant.fee /\ tenant'.key = tenant.key
        BY <1>2 DEF DeleteTenant, Inv, TypeOK, Row
    <2>2. QED
        BY <1>2, <2>1 DEF DeleteTenant, Inv, TypeOK, CopiesChecked,
           PendingKeysFresh, Rotating, AnsweredKeysHold, RetiredKeysStayDead
<1>3. CASE UNCHANGED vars
    BY <1>3 DEF vars, Inv, TypeOK, CopiesChecked, PendingKeysFresh, Rotating,
       AnsweredKeysHold, RetiredKeysStayDead
<1>4. QED
    BY <1>1, <1>2, <1>3 DEF Next

LEMMA InvHolds == Spec => []Inv
BY InitInv, StepInv, PTL DEF Spec

(* Every variable keeps its type, and the fee stays one that validateFee   *)
(* accepts whatever partial updates overlap.                               *)
THEOREM TypeInvariant == Spec => []TypeOK
BY InvHolds, PTL DEF Inv

(* A replaced key never works again, however many rotations and updates    *)
(* overlap.                                                                *)
THEOREM RetiredKeys == Spec => []RetiredKeysStayDead
BY InvHolds, PTL DEF Inv

(* No key is handed out that was never stored or has silently been lost,   *)
(* and the tenant's key is unknown to the administrator only if the answer *)
(* to the rotation that stored it was lost.                                *)
THEOREM AnsweredKeys == Spec => []AnsweredKeysHold
BY InvHolds, PTL DEF Inv

-----------------------------------------------------------------------------
(* Nothing that was let in before the deletion of a tenant changes its row *)
(* afterwards.                                                             *)
THEOREM Deletion == Spec => DeletionIsFinal
<1>1. [Next]_vars => (tenant.deleted => UNCHANGED tenant)
    BY DEF Next, CallStep, UpdateReads, UpdateWrites, RotateReads, RotateWrites,
       RotateUnanswered, BankAuthenticates, BankWrites, LogoUploads, LogoWrites, CallFails,
       DeleteTenant, Finish, vars
<1>2. QED
    BY <1>1, PTL DEF Spec, DeletionIsFinal

(* The columns of the other services are written by their requests alone.  *)
THEOREM Columns == Spec => ColumnsChangeByRequest
<1>1. TypeOK /\ [Next]_vars =>
         \A column \in {"bank", "logo"} :
            tenant'[column] # tenant[column] =>
               \E i \in Calls : /\ call[i].op = column /\ call'[i] = Free
                                /\ tenant'[column] = call[i].value
    <2> SUFFICES ASSUME TypeOK, [Next]_vars, NEW column \in {"bank", "logo"},
                        tenant'[column] # tenant[column]
                 PROVE  \E i \in Calls : /\ call[i].op = column
                                         /\ call'[i] = Free
                                         /\ tenant'[column] = call[i].value
        OBVIOUS
    <2>1. tenant \in Row /\ call \in [Calls -> Call]
        BY DEF TypeOK
    <2>2. PICK i \in Calls : BankWrites(i) \/ LogoWrites(i)
        <3>1. ~DeleteTenant
            BY <2>1 DEF DeleteTenant, Row
        <3>2. ~UNCHANGED tenant
            OBVIOUS
        <3>3. \A i \in Calls : /\ ~UpdateWrites(i) /\ ~RotateWrites(i)
                               /\ ~RotateUnanswered(i)
            BY <2>1 DEF UpdateWrites, RotateWrites, RotateUnanswered, Finish, Row
        <3>4. QED
            BY <3>1, <3>2, <3>3 DEF Next, CallStep, UpdateReads, RotateReads,
               BankAuthenticates, LogoUploads, CallFails, vars
    <2>3. CASE BankWrites(i)
        BY <2>1, <2>3 DEF BankWrites, Finish, Row
    <2>4. CASE LogoWrites(i)
        BY <2>1, <2>4 DEF LogoWrites, Finish, Row
    <2>5. QED
        BY <2>2, <2>3, <2>4
<1>2. QED
    BY <1>1, TypeInvariant, PTL DEF Spec, ColumnsChangeByRequest
=============================================================================
