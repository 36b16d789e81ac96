---------------------------- MODULE TenantAdmin ----------------------------
(***************************************************************************)
(* One tenant's row and the requests that change it: the administrator's   *)
(* UpdateTenant, RotateAPIKey, DeleteTenant and logo upload, and the       *)
(* tenant's own SetupBankAccount and DeleteBankAccount.  Requests overlap: *)
(* each reads the row (or is authenticated against it) in one statement    *)
(* and writes to it in another, with no version check in between; what     *)
(* keeps them apart is only which columns each UPDATE names.               *)
(***************************************************************************)
EXTENDS Fees

CONSTANTS
    Calls,         \* requests that may be in progress at once
    Names,         \* values of the plain columns (name, tier, card networks)
    FeeMessages,   \* the Fee messages that requests carry
    Keys,          \* API keys that may be generated
    Accounts,      \* bank accounts
    Logos,         \* URLs of uploaded logos
    Null,          \* an empty column
    Unset          \* a field that the request leaves out

ASSUME TenantAdminAssumption ==
    /\ FeeMessages \subseteq [percentageBPS : Int, fixedCentavos : Int]
    /\ Unset \notin Names /\ Unset \notin FeeMessages /\ Unset \notin FeeTypes
    /\ Null \notin Accounts \cup Logos

VARIABLES
    tenant,    \* the row
    call,      \* [Calls -> the request in progress]
    issued,    \* keys generated so far
    answered,  \* keys handed to the administrator
    unheard,   \* keys stored by a rotation whose answer was lost
    retired    \* keys that a rotation replaced

vars == <<tenant, call, issued, answered, unheard, retired>>

-----------------------------------------------------------------------------
WithType(fee, feeType) ==
    [percentageBPS |-> fee.percentageBPS, fixedCentavos |-> fee.fixedCentavos,
     feeType |-> feeType]

(* feeFromProto and validateFee.                                           *)
MessageValid(message) == FeeValid(WithType(message, "added"))

StoredFees ==
    {WithType(fee, feeType) :
        fee \in FeeMessages \cup {DefaultFee}, feeType \in FeeTypes}

Row ==
    [name : Names, fee : StoredFees, key : Keys, bank : Accounts \cup {Null},
     logo : Logos \cup {Null}, deleted : BOOLEAN]

Request ==
    [name : Names \cup {Unset}, fee : FeeMessages \cup {Unset},
     feeType : FeeTypes \cup {Unset}]

Given(field, old) == IF field = Unset THEN old ELSE field

(* The copy of the row, patched in memory with the fields of a request.    *)
Patched(row, req) ==
    [row EXCEPT
        !.name = Given(req.name, @),
        !.fee = WithType(Given(req.fee, @), Given(req.feeType, @.feeType))]

Free == [op |-> "free"]
Call ==
    {Free}
    \cup [op : {"update"}, req : Request, copy : Row]
    \cup [op : {"rotate"}, key : Keys]
    \cup [op : {"bank"}, value : Accounts \cup {Null}]
    \cup [op : {"logo"}, value : Logos]

(* The fee takes something and gives nothing back.                         *)
FeePositive(fee) ==
    /\ fee.percentageBPS >= 0 /\ fee.fixedCentavos >= 0
    /\ fee.percentageBPS + fee.fixedCentavos > 0

TypeOK ==
    /\ tenant \in Row
    /\ FeePositive(tenant.fee)
    /\ call \in [Calls -> Call]
    /\ issued \subseteq Keys
    /\ answered \subseteq issued
    /\ unheard \subseteq issued
    /\ retired \subseteq issued

(* CreateTenant: the default fee or a valid one, and the first key.        *)
Init ==
    /\ \E name \in Names, feeType \in FeeTypes, key \in Keys,
          fee \in {m \in FeeMessages : MessageValid(m)} \cup {DefaultFee} :
          tenant = [name |-> name, fee |-> WithType(fee, feeType), key |-> key,
                    bank |-> Null, logo |-> Null, deleted |-> FALSE]
    /\ call = [i \in Calls |-> Free]
    /\ issued = {tenant.key}
    /\ answered = issued
    /\ unheard = {}
    /\ retired = {}

-----------------------------------------------------------------------------
(* A request begins: its reads see an active tenant, or it ends at once.   *)
Begin(i, request) ==
    /\ call[i] = Free
    /\ ~tenant.deleted
    /\ call' = [call EXCEPT ![i] = request]

(* Its UPDATE touches no row that was deleted meanwhile, and the request   *)
(* ends with NotFound.                                                     *)
Finish(i, op, row) ==
    /\ call[i].op = op
    /\ tenant' = IF tenant.deleted THEN tenant ELSE row
    /\ call' = [call EXCEPT ![i] = Free]

(* Deviation: a fee is stored without validateFee.                         *)
UpdateReadsUnchecked(i) ==
    /\ \E req \in Request :
          Begin(i, [op |-> "update", req |-> req, copy |-> Patched(tenant, req)])
    /\ UNCHANGED <<tenant, issued, answered, unheard, retired>>

(* UpdateTenant: GetByID, the checks, and the request's fields over the    *)
(* copy.                                                                   *)
UpdateReads(i) ==
    /\ \E req \in Request :
          /\ req.fee # Unset => MessageValid(req.fee)
          /\ Begin(i, [op |-> "update", req |-> req,
                       copy |-> Patched(tenant, req)])
    /\ UNCHANGED <<tenant, issued, answered, unheard, retired>>

(* Deviation: the UPDATE writes every column of the copy.                  *)
UpdateWritesRow(i) ==
    /\ Finish(i, "update", call[i].copy)
    /\ UNCHANGED <<issued, answered, unheard, retired>>

(* tenants.Update: all of its own columns from the copy, those included    *)
(* that the request left out.                                              *)
UpdateWrites(i) ==
    /\ Finish(i, "update", [tenant EXCEPT !.name = call[i].copy.name,
                                          !.fee = call[i].copy.fee])
    /\ UNCHANGED <<issued, answered, unheard, retired>>

(* RotateAPIKey: GetByID and a random key, which no tenant had before.     *)
RotateReads(i) ==
    /\ \E key \in Keys \ issued :
          /\ Begin(i, [op |-> "rotate", key |-> key])
          /\ issued' = issued \cup {key}
    /\ UNCHANGED <<tenant, answered, unheard, retired>>

(* Deviation: the number of rows that the UPDATE reached is not looked at. *)
RotateWritesUnchecked(i) ==
    /\ Finish(i, "rotate", [tenant EXCEPT !.key = call[i].key])
    /\ retired' = IF tenant.deleted THEN retired ELSE retired \cup {tenant.key}
    /\ answered' = answered \cup {call[i].key}
    /\ UNCHANGED <<issued, unheard>>

(* tenants.RotateAPIKey, and the answer with the new key.                  *)
RotateWrites(i) ==
    /\ Finish(i, "rotate", [tenant EXCEPT !.key = call[i].key])
    /\ IF tenant.deleted
       THEN UNCHANGED <<answered, retired>>
       ELSE /\ answered' = answered \cup {call[i].key}
            /\ retired' = retired \cup {tenant.key}
    /\ UNCHANGED <<issued, unheard>>

(* The UPDATE is committed, and its result or the answer is lost.          *)
RotateUnanswered(i) ==
    /\ ~tenant.deleted
    /\ Finish(i, "rotate", [tenant EXCEPT !.key = call[i].key])
    /\ unheard' = unheard \cup {call[i].key}
    /\ retired' = retired \cup {tenant.key}
    /\ UNCHANGED <<issued, answered>>

(* AuthInterceptor lets a bank request in: its key is the tenant's.        *)
BankAuthenticates(i) ==
    /\ \E account \in Accounts \cup {Null} :
          Begin(i, [op |-> "bank", value |-> account])
    /\ UNCHANGED <<tenant, issued, answered, unheard, retired>>

(* Deviation: the UPDATE reaches a deleted tenant too.                     *)
BankWritesDeleted(i) ==
    /\ call[i].op = "bank"
    /\ tenant' = [tenant EXCEPT !.bank = call[i].value]
    /\ call' = [call EXCEPT ![i] = Free]
    /\ UNCHANGED <<issued, answered, unheard, retired>>

(* SetBankAccount, or ClearBankAccount for Null.                           *)
BankWrites(i) ==
    /\ Finish(i, "bank", [tenant EXCEPT !.bank = call[i].value])
    /\ UNCHANGED <<issued, answered, unheard, retired>>

(* The logo upload: GetByID, the upload to S3, and SetLogoURL.             *)
LogoUploads(i) ==
    /\ \E logo \in Logos : Begin(i, [op |-> "logo", value |-> logo])
    /\ UNCHANGED <<tenant, issued, answered, unheard, retired>>

LogoWrites(i) ==
    /\ Finish(i, "logo", [tenant EXCEPT !.logo = call[i].value])
    /\ UNCHANGED <<issued, answered, unheard, retired>>

(* A statement fails or the process stops: the request ends where it is.   *)
(* (A committed UPDATE whose answer is lost is a Write, or for a rotation  *)
(* RotateUnanswered.)                                                      *)
CallFails(i) ==
    /\ call[i] # Free
    /\ call' = [call EXCEPT ![i] = Free]
    /\ UNCHANGED <<tenant, issued, answered, unheard, retired>>

DeleteTenant ==
    /\ ~tenant.deleted
    /\ tenant' = [tenant EXCEPT !.deleted = TRUE]
    /\ UNCHANGED <<call, issued, answered, unheard, retired>>

CallStep(i) ==
    \/ UpdateReads(i) \/ UpdateWrites(i)
    \/ RotateReads(i) \/ RotateWrites(i) \/ RotateUnanswered(i)
    \/ BankAuthenticates(i) \/ BankWrites(i)
    \/ LogoUploads(i) \/ LogoWrites(i)
    \/ CallFails(i)

Next == (\E i \in Calls : CallStep(i)) \/ DeleteTenant

Spec == Init /\ [][Next]_vars

-----------------------------------------------------------------------------
(* A key that a rotation replaced is never accepted again, whatever        *)
(* UpdateTenant read before the rotation and writes after it.              *)
RetiredKeysStayDead == tenant.key \notin retired

(* A key handed to the administrator works until a later rotation replaces *)
(* it: with rotations and updates in progress at once, none is handed out  *)
(* that was overwritten by an older one or never stored.  The tenant's key *)
(* is one that was handed out, unless the answer that carried it was lost. *)
AnsweredKeysHold ==
    /\ answered \cup unheard = retired \cup {tenant.key}
    /\ answered \cap unheard = {}

(* The account and the logo change only to what a request for them carries,*)
(* never back to what another request read before.                         *)
ColumnsChangeByRequest ==
    [][\A column \in {"bank", "logo"} :
          tenant'[column] # tenant[column] =>
             \E i \in Calls : /\ call[i].op = column /\ call'[i] = Free
                              /\ tenant'[column] = call[i].value]_vars

(* A deletion is final: requests that were let in before it change nothing *)
(* after it.                                                               *)
DeletionIsFinal == [][tenant.deleted => UNCHANGED tenant]_vars

=============================================================================
