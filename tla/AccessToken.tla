----------------------------- MODULE AccessToken -----------------------------
(***************************************************************************)
(* How microgear_task gets, keeps and loses the token it connects with:    *)
(* getAccessToken and getOAuthToken of src/lib/Microgear/AuthClient.c, the *)
(* record in flash of src/lib/Microgear/TokenStore.c, the branch of        *)
(* microgear_task (Microgear.c) for a connection the broker does not       *)
(* grant, in the DEBUG build that config.h selects, and                    *)
(* microgear_revokeToken, which another task may call at any time.         *)
(* The token is not assigned by microgear_setToken.                        *)
(*                                                                         *)
(* The environment may fail MaxFault times: power losses (after which the  *)
(* firmware may have another key), unanswered or refused requests, writes  *)
(* that fail, lost connections, revocations.  Tokens are named by the      *)
(* order in which the authority issues them.                               *)
(***************************************************************************)
EXTENDS Integers

CONSTANTS
  Key,        \* application keys a firmware image can have
  NoKey,      \* the key of an empty record
  MaxFault    \* bound: failures of the environment

ASSUME KeyAssumption == Key # {} /\ NoKey \notin Key
ASSUME FaultAssumption == MaxFault \in Nat

VARIABLES
  pc,        \* where microgear_task is
  api,       \* where the caller of microgear_revokeToken is: "idle" or "clear"
  key,       \* mg->key of this firmware image
  token,     \* the task's local token
  flash,     \* the sector of this microgear: a record, Erased or Torn
  issued,    \* tokens the authority has issued
  pendingRequests,  \* request tokens the authority still exchanges
  granted,   \* access tokens the authority and the broker accept
  faults     \* history: failures so far

serverVars == <<issued, pendingRequests, granted>>
vars == <<pc, api, key, token, flash, serverVars, faults>>

NoValue == 0      \* an empty token string
Garbage == -1     \* the content of a torn record
Record(type, k, value, flag) == [type |-> type, key |-> k, value |-> value, flag |-> flag]
Empty  == Record("NONE", NoKey, NoValue, "NONE")
Erased == Record("ERASED", NoKey, Garbage, "NONE")
Torn   == Record("ACCESS", NoKey, Garbage, "NONE")

Init ==
  /\ pc = "load" /\ api = "idle" /\ key \in Key
  /\ token = Empty /\ flash = Erased
  /\ issued = 0 /\ pendingRequests = {} /\ granted = {}
  /\ faults = 0

Fault == faults < MaxFault /\ faults' = faults + 1
NoFault == faults' = faults

-----------------------------------------------------------------------------
(* TokenStore.c.                                                           *)

\* A mutation: the checksum is not compared.
LoadUnchecked == IF flash = Erased THEN Empty ELSE [flash EXCEPT !.key = key]

\* loadToken: a record whose checksum does not match is an empty token.
loadToken == IF flash \in {Erased, Torn} THEN Empty ELSE flash

\* saveToken erases the sector, then writes it.
Erase(next) == /\ pc \in {"save", "saveAndEnd"}
               /\ flash' = Erased /\ pc' = next
               /\ UNCHANGED <<api, key, token, serverVars, faults>>

SaveErase ==
  \/ pc = "save" /\ Erase("write")
  \/ pc = "saveAndEnd" /\ Erase("writeAndEnd")

SaveWrite ==
  /\ pc \in {"write", "writeAndEnd"}
  /\ flash' = token
  /\ pc' = IF pc = "write" THEN "connect" ELSE "ended"
  /\ UNCHANGED <<api, key, token, serverVars, faults>>

\* The power fails at any moment; a write that was going on leaves a torn record or
\* none.  The program that starts again may have another key.
PowerLoss ==
  /\ Fault
  /\ flash' \in (IF pc \in {"write", "writeAndEnd"} THEN {flash, Torn} ELSE {flash})
  /\ key' \in Key
  /\ pc' = "load" /\ api' = "idle" /\ token' = Empty
  /\ UNCHANGED serverVars

-----------------------------------------------------------------------------
(* getOAuthToken: every way in which it ends returns 1, except a write that  *)
(* fails, which leaves the token as it was.  A request the authority does    *)
(* not answer, or answers with an error, yields 1 and an empty token.        *)

\* callRevokeTokenAPI, when the authority hears of it.
Revoked(value) == granted \ {value}

TokenFor(type, value, flag) == Record(type, key, value, flag)

WriteFails == Fault /\ UNCHANGED <<token, serverVars>>

\* The request for a request token is answered, or it is not.
GetRequestToken ==
  \/ /\ NoFault
     /\ issued' = issued + 1 /\ token' = TokenFor("REQUEST", issued', "NONE")
     /\ pendingRequests' = pendingRequests \cup {issued'} /\ granted' = granted
  \/ /\ Fault
     /\ token' = TokenFor("REQUEST", NoValue, "NONE")
     /\ UNCHANGED serverVars

\* The request token is exchanged once: an access token for good ("P") or for this
\* session ("S").  The answer may be lost after the exchange.
GetAccessToken ==
  \/ /\ token.value \in pendingRequests
     /\ issued' = issued + 1
     /\ pendingRequests' = pendingRequests \ {token.value}
     /\ granted' = granted \cup {issued'}
     /\ \/ \E flag \in {"P", "S"} :
             NoFault /\ token' = TokenFor("ACCESS", issued', flag)
        \/ Fault /\ token' = TokenFor("ACCESS", NoValue, "NONE")
  \/ /\ IF token.value \in pendingRequests THEN Fault ELSE NoFault
     /\ token' = TokenFor("ACCESS", NoValue, "NONE")
     /\ UNCHANGED serverVars

-----------------------------------------------------------------------------
(* getAccessToken.                                                         *)

\* A mutation: the record of another key is used.
LoadAnyKey ==
  /\ pc = "load" /\ token' = loadToken
  /\ pc' = CASE token'.type = "ACCESS" -> "connect"
             [] token'.type = "REQUEST" -> "upgrade"
             [] OTHER -> "request"
  /\ UNCHANGED <<api, key, flash, serverVars, faults>>

\* loadToken; a record of another key is revoked, if the authority hears of it, and
\* its type cleared.
Load ==
  /\ pc = "load"
  /\ LET t == loadToken IN
       \/ /\ t.key = key
          /\ token' = t
          /\ pc' = IF t.type = "ACCESS" THEN "connect" ELSE "upgrade"
          /\ UNCHANGED <<granted, faults>>
       \/ /\ t.key # key
          /\ token' = Empty /\ pc' = "request"
          /\ \/ NoFault /\ granted' = Revoked(t.value)
             \/ Fault /\ granted' = granted
  /\ UNCHANGED <<api, key, flash, issued, pendingRequests>>

\* A mutation: an access token is saved whatever its flag.
AlwaysSave == pc' = "save"

\* An access token is saved when it is persistent.
SaveOrConnect == pc' = IF token'.flag = "P" THEN "save" ELSE "connect"

\* case TKTYPE_REQUEST: returns 0, which ends the task, when a write fails.
Upgrade ==
  /\ pc = "upgrade"
  /\ \/ GetAccessToken /\ SaveOrConnect
     \/ WriteFails /\ pc' = "ended"
  /\ UNCHANGED <<api, key, flash>>

\* default: a request token first.  When the write of that request fails the function
\* ends without a return statement: its value is whatever the register holds.
Request ==
  /\ pc = "request"
  /\ \/ GetRequestToken /\ pc' = "access"
     \/ WriteFails /\ pc' \in {"connect", "ended"}
  /\ UNCHANGED <<api, key, flash>>

\* Then the access token; when the write of that request fails the request token is
\* saved and the task ends.
Access ==
  /\ pc = "access"
  /\ \/ GetAccessToken /\ SaveOrConnect
     \/ WriteFails /\ pc' = "saveAndEnd"
  /\ UNCHANGED <<api, key, flash>>

-----------------------------------------------------------------------------
(* microgear_task with the token.                                          *)

\* ConnectNetwork fails, as it always does with the empty host of an empty token, or
\* the broker says that the token is paused: a new round, and the flash is as it was.
DialFailsOrPaused ==
  /\ pc = "connect" /\ pc' = "load"
  /\ IF token.value = NoValue THEN NoFault ELSE Fault
  /\ UNCHANGED <<api, key, token, flash, serverVars>>

\* The broker grants the session, rejects the token, or does not answer in time.
Connect ==
  /\ pc = "connect" /\ token.value # NoValue
  /\ \/ token.value \in granted /\ NoFault /\ pc' = "online"
     \/ token.value \notin granted /\ NoFault /\ pc' = "refused"
     \/ Fault /\ pc' = "refused"
  /\ UNCHANGED <<api, key, token, flash, serverVars>>

\* A mutation: the token that was refused stays in flash.
RefusedKeepsToken ==
  /\ pc = "refused" /\ pc' = "load"
  /\ token' = Empty
  /\ UNCHANGED <<api, key, flash, serverVars, faults>>

\* clearTokenStore for any answer that is not BROKER_PAUSEDTOKEN; then a new round.
Refused ==
  /\ pc = "refused" /\ pc' = "load"
  /\ flash' = Erased /\ token' = Empty
  /\ UNCHANGED <<api, key, serverVars, faults>>

\* The connection is lost, or its token was revoked meanwhile.
SessionEnds ==
  /\ pc = "online" /\ pc' = "load"
  /\ IF token.value \in granted THEN Fault ELSE NoFault
  /\ UNCHANGED <<api, key, token, flash, serverVars>>

-----------------------------------------------------------------------------
(* microgear_revokeToken: load and revoke, then clear the sector.          *)

RevokeCall ==
  /\ api = "idle" /\ loadToken # Empty
  /\ Fault /\ api' = "clear"
  /\ granted' \in {granted, Revoked(loadToken.value)}
  /\ UNCHANGED <<pc, key, token, flash, issued, pendingRequests>>

RevokeClear ==
  /\ api = "clear" /\ api' = "idle"
  /\ flash' = Erased
  /\ UNCHANGED <<pc, key, token, serverVars, faults>>

-----------------------------------------------------------------------------
TaskStep ==
  \/ SaveErase \/ SaveWrite \/ Load \/ Upgrade \/ Request \/ Access
  \/ DialFailsOrPaused \/ Connect \/ Refused

\* The application calls microgear_connect for the task that ended.
ConnectAgain ==
  /\ pc = "ended" /\ pc' = "load"
  /\ token' = Empty
  /\ UNCHANGED <<api, key, flash, serverVars, faults>>

\* Nothing more has to happen: the task ended, or its session goes on.
Rest == pc \in {"ended", "online"} /\ UNCHANGED vars

Next == TaskStep \/ SessionEnds \/ PowerLoss \/ RevokeCall \/ RevokeClear \/ ConnectAgain \/ Rest

Spec == Init /\ [][Next]_vars

\* The task and the caller of the API are scheduled; each request has a timeout.
FairSpec == Spec /\ WF_vars(TaskStep) /\ WF_vars(RevokeClear)

-----------------------------------------------------------------------------
Records ==
  [type : {"NONE", "REQUEST", "ACCESS"}, key : Key \cup {NoKey}, value : Nat,
   flag : {"NONE", "P", "S"}]

TypeOK ==
  /\ pc \in {"load", "upgrade", "request", "access", "save", "write", "saveAndEnd",
             "writeAndEnd", "connect", "refused", "online", "ended"}
  /\ api \in {"idle", "clear"} /\ key \in Key
  /\ token \in Records /\ flash \in Records \cup {Erased, Torn}
  /\ issued \in Nat /\ pendingRequests \subseteq 1..issued /\ granted \subseteq 1..issued
  /\ faults \in 0..MaxFault

(* The task connects only with a token that was issued for the key of its    *)
(* firmware, never with the record an earlier firmware left in flash nor     *)
(* with what a power loss left of a record.                                  *)
TokenIsOurs ==
  pc \in {"connect", "online"} /\ token.value # NoValue =>
    token.key = key /\ token.value \in 1..issued

(* A session's token never reaches the flash: what is kept there, across     *)
(* power losses between erase and write and a concurrent revocation, is a    *)
(* persistent access token or a request token.                               *)
StoredIsPersistent ==
  flash.type = "ACCESS" /\ flash # Torn => flash.flag = "P" /\ flash.value \in 1..issued

(* Once the environment stops failing, the task gets online, or it has ended *)
(* because getAccessToken returned 0, with one exception: a request token in *)
(* flash that was exchanged already is loaded in every round, yields an      *)
(* empty token whose host does not resolve, and is never cleared.  (lwIP's   *)
(* descriptors are not part of this module: each failed connect() of         *)
(* connectAuthServer costs one, and the promise lasts while there are any.)  *)
SpentRequest == flash.type = "REQUEST" /\ flash.value \notin pendingRequests
ComesOnline == []<>(pc \in {"online", "ended"} \/ SpentRequest)

(* While nothing fails every step of the task, whatever failures left in its *)
(* token and in flash, brings it nearer to a session, which is at most       *)
(* fifteen steps away; the only step that does not is loading a request      *)
(* token that was exchanged already. So no round leaves the flash as bad as  *)
(* it was (clearTokenStore, Microgear.c:433, is what sees to this).          *)
Accepted(value) == value \in granted
AfterLoad ==
  CASE flash.key # key -> 10
    [] flash.key = key /\ flash.type # "ACCESS" -> 9
    [] flash.key = key /\ flash.type = "ACCESS" -> IF Accepted(flash.value) THEN 4 ELSE 13
StepsToSession ==
  CASE pc = "load" -> AfterLoad
    [] pc = "request" -> 9
    [] pc \in {"access", "upgrade"} -> IF token.value \in pendingRequests THEN 8 ELSE 15
    [] pc = "save" -> IF Accepted(token.value) THEN 5 ELSE 14
    [] pc = "write" -> IF Accepted(token.value) THEN 4 ELSE 13
    [] pc = "connect" -> IF token.value = NoValue THEN 14
                         ELSE IF Accepted(token.value) THEN 3 ELSE 12
    [] pc = "refused" -> 11
    [] pc = "saveAndEnd" -> 2
    [] pc = "writeAndEnd" -> 1
    [] OTHER -> 0
LoadsSpent == pc = "load" /\ flash.key = key /\ SpentRequest
Nearer ==
  [][TaskStep /\ NoFault => StepsToSession' < StepsToSession \/ LoadsSpent]_vars
=============================================================================
