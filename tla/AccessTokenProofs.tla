-------------------------- MODULE AccessTokenProofs --------------------------
(***************************************************************************)
(* Theorems about AccessToken, for any keys and any number of failures:    *)
(* types, whose token the task uses, what is in flash, and that each step  *)
(* without a failure brings the task nearer to a session.                  *)
(***************************************************************************)
EXTENDS AccessToken, TLAPS

(* The local token is empty or was issued for the key of this firmware.      *)
TokenInv == token.value # NoValue => token.key = key /\ token.value <= issued

(* A record in flash is a token's and holds none that was never issued.      *)
FlashInv == flash \notin {Erased, Torn} => flash.value <= issued /\ flash.type # "NONE"

(* What is about to be written is a persistent access token or a request     *)
(* token.                                                                    *)
SaveInv ==
  /\ pc \in {"save", "write"} =>
       token.type = "ACCESS" /\ token.flag = "P" /\ token.value # NoValue
  /\ pc \in {"access", "saveAndEnd", "writeAndEnd"} => token.type = "REQUEST"

Inv == TypeOK /\ TokenInv /\ FlashInv /\ SaveInv /\ StoredIsPersistent

USE DEF NoValue, Garbage

(* The records of the model are records of the store's type, apart from what *)
(* is not a record at all.                                                   *)
LEMMA Constants ==
  /\ Empty \in Records /\ Empty.value = NoValue /\ Empty.type = "NONE"
  /\ Erased \notin Records /\ Torn \notin Records
  /\ Erased.type # "ACCESS"
  /\ \A k \in Key : Empty.key # k
BY KeyAssumption DEF Empty, Erased, Torn, Record, Records

LEMMA Issue ==
  ASSUME NEW v \in Nat, NEW f \in {"NONE", "P", "S"}, NEW y \in {"REQUEST", "ACCESS"}, key \in Key
  PROVE  LET t == TokenFor(y, v, f) IN
         t \in Records /\ t.type = y /\ t.key = key /\ t.value = v /\ t.flag = f
BY DEF TokenFor, Record, Records

(* What loadToken returns has the bounds of what is in flash.                *)
LEMMA Loaded ==
  ASSUME TypeOK, FlashInv
  PROVE  /\ loadToken \in Records /\ loadToken.value <= issued
         /\ loadToken # Empty => loadToken = flash
BY Constants DEF loadToken, TypeOK, FlashInv

(* An exchange, whatever its outcome, leaves the token empty or newly issued *)
(* and persistent when it says so.                                           *)
LEMMA Exchange ==
  ASSUME Inv, GetAccessToken
  PROVE  /\ token' \in Records /\ token'.type = "ACCESS"
         /\ token'.value # NoValue => token'.key = key /\ token'.value <= issued'
         /\ token'.flag = "P" => token'.value # NoValue
         /\ issued' \in Nat /\ issued <= issued'
         /\ pendingRequests' \subseteq 1..issued' /\ granted' \subseteq 1..issued'
         /\ faults' \in 0..MaxFault
<1>1. issued \in Nat /\ key \in Key /\ faults \in 0..MaxFault
      /\ pendingRequests \subseteq 1..issued /\ granted \subseteq 1..issued
  BY DEF Inv, TypeOK
<1> DEFINE t(v, f) == TokenFor("ACCESS", v, f)
<1>2. \A v \in {0, issued + 1}, f \in {"NONE", "P", "S"} :
        /\ t(v, f) \in Records /\ t(v, f).type = "ACCESS" /\ t(v, f).key = key
        /\ t(v, f).value = v /\ t(v, f).flag = f
  BY <1>1, Issue
<1>3. faults' \in 0..MaxFault
  BY <1>1, FaultAssumption DEF GetAccessToken, Fault, NoFault
<1>4. CASE UNCHANGED serverVars /\ token' = t(0, "NONE")
  BY <1>1, <1>2, <1>3, <1>4 DEF serverVars
<1>5. CASE /\ issued' = issued + 1 /\ pendingRequests' = pendingRequests \ {token.value}
           /\ granted' = granted \cup {issued'}
           /\ \/ \E f \in {"P", "S"} : token' = t(issued + 1, f)
              \/ token' = t(0, "NONE")
  <2>1. issued' \in Nat /\ issued <= issued' /\ issued' \in 1..issued'
        /\ 1..issued \subseteq 1..issued'
    BY <1>1, <1>5
  <2>4. pendingRequests' \subseteq 1..issued' /\ granted' \subseteq 1..issued'
    BY <1>1, <1>5, <2>1
  <2>2. \E v \in {0, issued + 1}, f \in {"NONE", "P", "S"} :
          token' = t(v, f) /\ (f = "P" => v = issued + 1)
    BY <1>5
  <2>3. QED
    BY <1>1, <1>2, <1>3, <1>5, <2>1, <2>2, <2>4
<1>6. QED
  BY <1>4, <1>5 DEF GetAccessToken

-----------------------------------------------------------------------------
LEMMA InitInv == Init => Inv
<1> SUFFICES ASSUME Init PROVE Inv
  OBVIOUS
<1> QED
  BY Constants, FaultAssumption
  DEF Init, Inv, TypeOK, TokenInv, FlashInv, SaveInv, StoredIsPersistent

LEMMA StoreSteps ==
  ASSUME Inv, SaveErase \/ SaveWrite \/ PowerLoss \/ RevokeClear \/ Refused
  PROVE  Inv'
<1> USE Constants DEF Inv, TypeOK, TokenInv, FlashInv, SaveInv, StoredIsPersistent, serverVars
<1>1. CASE SaveErase
  <2>1. /\ \/ pc = "save" /\ pc' = "write"
           \/ pc = "saveAndEnd" /\ pc' = "writeAndEnd"
        /\ flash' = Erased /\ UNCHANGED <<api, key, token, issued, pendingRequests, granted, faults>>
    BY <1>1 DEF SaveErase, Erase
  <2>2. TypeOK'
    BY <2>1
  <2>3. TokenInv' /\ SaveInv'
    BY <2>1
  <2>4. FlashInv' /\ StoredIsPersistent'
    BY <2>1
  <2>5. QED
    BY <2>2, <2>3, <2>4
<1>2. CASE SaveWrite
  <2>1. /\ \/ pc = "write" /\ pc' = "connect"
           \/ pc = "writeAndEnd" /\ pc' = "ended"
        /\ flash' = token /\ UNCHANGED <<api, key, token, issued, pendingRequests, granted, faults>>
    BY <1>2 DEF SaveWrite
  <2>2. TypeOK'
    BY <2>1
  <2>3. TokenInv' /\ SaveInv'
    BY <2>1
  <2>4. FlashInv' /\ StoredIsPersistent'
    BY <2>1 DEF Records
  <2>5. QED
    BY <2>2, <2>3, <2>4
<1>3. CASE PowerLoss
  BY <1>3, FaultAssumption DEF PowerLoss, Fault
<1>4. CASE RevokeClear
  BY <1>4 DEF RevokeClear
<1>5. CASE Refused
  BY <1>5 DEF Refused
<1> QED
  BY <1>1, <1>2, <1>3, <1>4, <1>5

LEMMA LoadStep ==
  ASSUME Inv, Load
  PROVE  Inv'
<1> USE Loaded, Constants, FaultAssumption
    DEF Inv, TypeOK, TokenInv, FlashInv, SaveInv, StoredIsPersistent
<1>1. /\ (token' = loadToken /\ loadToken.key = key) \/ token' = Empty
      /\ pc' \in {"connect", "upgrade", "request"}
      /\ granted' \subseteq granted
      /\ UNCHANGED <<api, key, flash, issued, pendingRequests>>
  BY DEF Load, Revoked
<1>5. faults' \in 0..MaxFault
  BY DEF Load, Fault, NoFault
<1>2. TypeOK'
  BY <1>1, <1>5
<1>3. TokenInv' /\ SaveInv'
  BY <1>1
<1>4. FlashInv' /\ StoredIsPersistent'
  BY <1>1
<1> QED
  BY <1>2, <1>3, <1>4

LEMMA ExchangeSteps ==
  ASSUME Inv, Upgrade \/ Access
  PROVE  Inv'
<1>1. UNCHANGED <<api, key, flash>>
  BY DEF Upgrade, Access
<1>4. \/ GetAccessToken /\ SaveOrConnect
      \/ WriteFails /\ (pc' = "ended" \/ (pc = "access" /\ pc' = "saveAndEnd"))
  BY DEF Upgrade, Access
<1> USE DEF Inv, TypeOK, TokenInv, FlashInv, SaveInv, StoredIsPersistent
<1>2. CASE GetAccessToken /\ SaveOrConnect
  <2>1. pc' = IF token'.flag = "P" THEN "save" ELSE "connect"
    BY <1>2 DEF SaveOrConnect
  <2>2. TypeOK'
    BY <1>1, <1>2, <2>1, Exchange
  <2>3. TokenInv' /\ SaveInv'
    BY <1>1, <1>2, <2>1, Exchange
  <2>4. issued \in Nat /\ issued' \in Nat /\ issued <= issued'
    BY <1>2, Exchange
  <2>5. flash \notin {Erased, Torn} => flash.value \in Nat
    BY DEF Records
  <2>6. FlashInv'
    BY <1>1, <2>4, <2>5
  <2>7. StoredIsPersistent'
    BY <1>1, <2>4
  <2>8. QED
    BY <2>2, <2>3, <2>6, <2>7
<1>3. CASE WriteFails /\ (pc' = "ended" \/ (pc = "access" /\ pc' = "saveAndEnd"))
  BY <1>1, <1>3, FaultAssumption DEF WriteFails, Fault, serverVars
<1> QED
  BY <1>2, <1>3, <1>4

LEMMA RequestStep ==
  ASSUME Inv, Request
  PROVE  Inv'
<1> USE FaultAssumption DEF Inv, TypeOK, TokenInv, FlashInv, SaveInv, StoredIsPersistent
<1>1. UNCHANGED <<api, key, flash>> /\ faults' \in 0..MaxFault
  BY DEF Request, GetRequestToken, WriteFails, Fault, NoFault
<1>2. CASE GetRequestToken /\ pc' = "access"
  <2>1. issued' \in Nat /\ issued <= issued'
    BY <1>2 DEF GetRequestToken, serverVars
  <2>10. pendingRequests' \subseteq 1..issued' /\ granted' \subseteq 1..issued'
    <3>1. CASE UNCHANGED serverVars
      BY <3>1 DEF serverVars
    <3>2. CASE /\ issued' = issued + 1 /\ granted' = granted
               /\ pendingRequests' = pendingRequests \cup {issued'}
      BY <3>2
    <3>3. QED
      BY <1>2, <3>1, <3>2 DEF GetRequestToken
  <2>2. PICK v \in {0, issued'} : token' = TokenFor("REQUEST", v, "NONE")
    BY <1>2 DEF GetRequestToken
  <2>3. /\ token' \in Records /\ token'.type = "REQUEST" /\ token'.key = key
        /\ token'.value = v
    BY <2>1, <2>2, Issue
  <2>4. TypeOK'
    BY <1>1, <1>2, <2>1, <2>3, <2>10
  <2>5. TokenInv' /\ SaveInv'
    BY <1>1, <1>2, <2>1, <2>3
  <2>6. flash \notin {Erased, Torn} => flash.value \in Nat
    BY DEF Records
  <2>7. FlashInv'
    BY <1>1, <2>1, <2>6
  <2>8. StoredIsPersistent'
    BY <1>1, <2>1
  <2>9. QED
    BY <2>4, <2>5, <2>7, <2>8
<1>3. CASE WriteFails /\ pc' \in {"connect", "ended"}
  BY <1>1, <1>3 DEF WriteFails, serverVars
<1> QED
  BY <1>2, <1>3 DEF Request

LEMMA OtherSteps ==
  ASSUME Inv, DialFailsOrPaused \/ Connect \/ SessionEnds \/ RevokeCall \/ ConnectAgain \/ Rest
              \/ UNCHANGED vars
  PROVE  Inv'
<1> USE Constants, FaultAssumption
    DEF Inv, TypeOK, TokenInv, FlashInv, SaveInv, StoredIsPersistent, serverVars, Fault, NoFault
<1>1. CASE DialFailsOrPaused
  BY <1>1 DEF DialFailsOrPaused
<1>2. CASE Connect
  BY <1>2 DEF Connect
<1>3. CASE SessionEnds
  BY <1>3 DEF SessionEnds
<1>4. CASE RevokeCall
  BY <1>4 DEF RevokeCall, Revoked
<1>5. CASE ConnectAgain
  BY <1>5 DEF ConnectAgain
<1>6. CASE Rest \/ UNCHANGED vars
  BY <1>6 DEF Rest, vars
<1> QED
  BY <1>1, <1>2, <1>3, <1>4, <1>5, <1>6

LEMMA StepInv == Inv /\ [Next]_vars => Inv'
BY StoreSteps, LoadStep, ExchangeSteps, RequestStep, OtherSteps DEF Next, TaskStep

LEMMA Invariance == Spec => []Inv
<1> QED
  BY InitInv, StepInv, PTL DEF Spec

(* The variables keep their types; in particular the authority has issued    *)
(* every token that it still exchanges or accepts.                           *)
THEOREM TypeCorrect == Spec => []TypeOK
<1>1. Inv => TypeOK
  BY DEF Inv
<1> QED
  BY <1>1, Invariance, PTL

(* The task connects only with a token issued for the key of its firmware    *)
(* (AuthClient.c:90), whatever power losses left in flash.                   *)
THEOREM OwnToken == Spec => []TokenIsOurs
<1>1. Inv => TokenIsOurs
  BY DEF Inv, TypeOK, TokenInv, TokenIsOurs, Records
<1> QED
  BY <1>1, Invariance, PTL

(* What stays in flash is a persistent access token or a request token       *)
(* (AuthClient.c:101).                                                       *)
THEOREM PersistentInFlash == Spec => []StoredIsPersistent
<1>1. Inv => StoredIsPersistent
  BY DEF Inv
<1> QED
  BY <1>1, Invariance, PTL

-----------------------------------------------------------------------------
(* Nearer, one lemma for each part of a round.                               *)

LEMMA NothingFails ==
  ASSUME Inv, NoFault PROVE ~Fault
<1>1. faults \in Nat
  BY FaultAssumption DEF Inv, TypeOK
<1> QED
  BY <1>1 DEF NoFault, Fault

LEMMA LoadNearer ==
  ASSUME Inv, Load, NoFault, ~LoadsSpent PROVE StepsToSession' < StepsToSession
<1>1. pc = "load" /\ UNCHANGED <<key, flash, pendingRequests>> /\ key \in Key
  BY DEF Load, Inv, TypeOK
<1>2. StepsToSession = AfterLoad
  BY <1>1 DEF StepsToSession
<1>3. loadToken = Empty \/ (loadToken = flash /\ flash \notin {Erased, Torn})
  BY DEF loadToken
<1>4. Empty.key # key /\ Erased.key # key /\ Torn.key # key
  BY <1>1, KeyAssumption DEF Empty, Erased, Torn, Record
<1>5. CASE loadToken.key # key
  <2>1. pc' = "request"
    BY <1>5 DEF Load
  <2>2. flash.key # key
    BY <1>3, <1>4, <1>5 DEF loadToken
  <2>3. AfterLoad = 10
    BY <2>2 DEF AfterLoad
  <2>4. StepsToSession' = 9
    BY <2>1 DEF StepsToSession
  <2> QED
    BY <1>2, <2>3, <2>4
<1>6. CASE loadToken.key = key
  <2>1. /\ loadToken = flash /\ flash \notin {Erased, Torn} /\ flash.key = key
        /\ token' = flash /\ granted' = granted
        /\ pc' = IF flash.type = "ACCESS" THEN "connect" ELSE "upgrade"
    BY <1>3, <1>4, <1>6 DEF Load
  <2>2. CASE flash.type = "ACCESS"
    <3>1. token'.value # NoValue
      BY <2>1, <2>2 DEF Inv, TypeOK, StoredIsPersistent
    <3>2. StepsToSession' = IF Accepted(flash.value) THEN 3 ELSE 12
      BY <2>1, <2>2, <3>1 DEF StepsToSession, Accepted
    <3>3. AfterLoad = IF Accepted(flash.value) THEN 4 ELSE 13
      BY <2>1, <2>2 DEF AfterLoad
    <3> QED
      BY <1>2, <3>2, <3>3
  <2>3. CASE flash.type # "ACCESS"
    <3>1. flash.type = "REQUEST"
      BY <2>1, <2>3 DEF Inv, TypeOK, FlashInv, Records
    <3>2. token'.value \in pendingRequests'
      BY <1>1, <2>1, <3>1 DEF LoadsSpent, SpentRequest
    <3>3. StepsToSession' = 8
      BY <2>1, <2>3, <3>2 DEF StepsToSession
    <3>4. AfterLoad = 9
      BY <2>1, <2>3 DEF AfterLoad
    <3> QED
      BY <1>2, <3>3, <3>4
  <2> QED
    BY <2>2, <2>3
<1> QED
  BY <1>5, <1>6

LEMMA ExchangeNearer ==
  ASSUME Inv, Request \/ Upgrade \/ Access, NoFault
  PROVE  StepsToSession' < StepsToSession
<1>0. ~Fault
  BY NothingFails
<1>t. issued \in Nat /\ key \in Key /\ token.value \in Nat
  BY DEF Inv, TypeOK, Records
<1>1. CASE Request
  <2>1. /\ pc = "request" /\ pc' = "access" /\ issued' = issued + 1
        /\ token' = TokenFor("REQUEST", issued', "NONE")
        /\ pendingRequests' = pendingRequests \cup {issued'}
    BY <1>0, <1>1 DEF Request, GetRequestToken, WriteFails
  <2>2. token'.value = issued'
    BY <2>1 DEF TokenFor, Record
  <2>3. StepsToSession = 9 /\ StepsToSession' = 8
    BY <2>1, <2>2 DEF StepsToSession
  <2> QED
    BY <2>3
<1>2. CASE Upgrade \/ Access
  <2>1. pc \in {"upgrade", "access"} /\ GetAccessToken /\ SaveOrConnect
    BY <1>0, <1>2 DEF Upgrade, Access, WriteFails
  <2>2. StepsToSession = IF token.value \in pendingRequests THEN 8 ELSE 15
    BY <2>1 DEF StepsToSession
  <2>3. CASE token.value \in pendingRequests
    <3>1. PICK f \in {"P", "S"} :
            /\ issued' = issued + 1 /\ granted' = granted \cup {issued'}
            /\ token' = TokenFor("ACCESS", issued', f)
      BY <1>0, <2>1, <2>3 DEF GetAccessToken
    <3>2. token'.value = issued' /\ token'.value # NoValue /\ token'.flag = f
      BY <1>t, <3>1 DEF TokenFor, Record
    <3>3. pc' \in {"save", "connect"}
      BY <2>1 DEF SaveOrConnect
    <3>4. StepsToSession' \in {3, 5}
      BY <3>1, <3>2, <3>3 DEF StepsToSession, Accepted
    <3> QED
      BY <2>2, <2>3, <3>4
  <2>4. CASE token.value \notin pendingRequests
    <3>1. token' = TokenFor("ACCESS", NoValue, "NONE")
      BY <2>1, <2>4 DEF GetAccessToken
    <3>2. token'.value = NoValue /\ token'.flag = "NONE"
      BY <3>1 DEF TokenFor, Record
    <3>3. pc' = "connect"
      BY <2>1, <3>2 DEF SaveOrConnect
    <3>4. StepsToSession' = 14
      BY <3>2, <3>3 DEF StepsToSession
    <3> QED
      BY <2>2, <2>4, <3>4
  <2> QED
    BY <2>3, <2>4
<1> QED
  BY <1>1, <1>2

LEMMA SaveNearer ==
  ASSUME Inv, SaveErase \/ SaveWrite, NoFault
  PROVE  StepsToSession' < StepsToSession
<1>1. CASE SaveErase
  <2>1. /\ \/ pc = "save" /\ pc' = "write"
           \/ pc = "saveAndEnd" /\ pc' = "writeAndEnd"
        /\ token' = token /\ granted' = granted
    BY <1>1 DEF SaveErase, Erase, serverVars
  <2> QED
    BY <2>1 DEF StepsToSession, Accepted
<1>2. CASE SaveWrite
  <2>1. /\ \/ pc = "write" /\ pc' = "connect"
           \/ pc = "writeAndEnd" /\ pc' = "ended"
        /\ token' = token /\ granted' = granted
    BY <1>2 DEF SaveWrite, serverVars
  <2>2. pc = "write" => token.value # NoValue
    BY DEF Inv, SaveInv
  <2> QED
    BY <2>1, <2>2 DEF StepsToSession, Accepted
<1> QED
  BY <1>1, <1>2

LEMMA ConnectNearer ==
  ASSUME Inv, DialFailsOrPaused \/ Connect \/ Refused, NoFault
  PROVE  StepsToSession' < StepsToSession
<1>0. ~Fault
  BY NothingFails
<1>1. CASE DialFailsOrPaused
  <2>1. pc = "connect" /\ pc' = "load" /\ token.value = NoValue
    BY <1>0, <1>1 DEF DialFailsOrPaused
  <2>2. StepsToSession = 14 /\ StepsToSession' = AfterLoad'
    BY <2>1 DEF StepsToSession
  <2>3. AfterLoad' \in {4, 9, 10, 13}
    BY DEF AfterLoad
  <2> QED
    BY <2>2, <2>3
<1>2. CASE Connect
  <2>1. /\ pc = "connect" /\ token.value # NoValue
        /\ pc' = IF Accepted(token.value) THEN "online" ELSE "refused"
    BY <1>0, <1>2 DEF Connect, Accepted
  <2>2. StepsToSession = IF Accepted(token.value) THEN 3 ELSE 12
    BY <2>1 DEF StepsToSession
  <2>3. StepsToSession' = IF Accepted(token.value) THEN 0 ELSE 11
    BY <2>1 DEF StepsToSession
  <2> QED
    BY <2>2, <2>3
<1>3. CASE Refused
  <2>1. pc = "refused" /\ pc' = "load" /\ flash' = Erased /\ key' = key /\ key \in Key
    BY <1>3 DEF Refused, Inv, TypeOK
  <2>2. flash'.key # key'
    BY <2>1, KeyAssumption DEF Erased, Record
  <2>3. AfterLoad' = 10
    BY <2>2 DEF AfterLoad
  <2>4. StepsToSession = 11 /\ StepsToSession' = 10
    BY <2>1, <2>3 DEF StepsToSession
  <2> QED
    BY <2>4
<1> QED
  BY <1>1, <1>2, <1>3

(* Whatever failures left in the token and in flash, and for any number of   *)
(* them: once they stop every step of the task brings it nearer to a         *)
(* session, but for the loading of a request token that was exchanged.       *)
THEOREM EveryStepNearer == Spec => Nearer
<1>1. Inv /\ TaskStep /\ NoFault => StepsToSession' < StepsToSession \/ LoadsSpent
  BY LoadNearer, ExchangeNearer, SaveNearer, ConnectNearer DEF TaskStep
<1>2. Inv /\ [Next]_vars =>
        [TaskStep /\ NoFault => StepsToSession' < StepsToSession \/ LoadsSpent]_vars
  BY <1>1
<1> QED
  BY <1>2, Invariance, PTL DEF Spec, Nearer
=============================================================================
