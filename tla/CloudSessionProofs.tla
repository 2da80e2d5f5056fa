------------------------- MODULE CloudSessionProofs -------------------------
(***************************************************************************)
(* Proofs about CloudSession, for any number of calls and expiries: what   *)
(* is retried was not done, a call logs in at most once, its caller is     *)
(* asked for the credentials only when the session cannot log in, and a    *)
(* list leaves out only what its page, its parser or its failure hides.    *)
(***************************************************************************)
EXTENDS CloudSession, FiniteSetTheorems, TLAPS

-----------------------------------------------------------------------------
(* The inductive invariant *)

Fns == {"created", "shared", "changing"}

\* A list is never a change.
Kinds(t) ==
  /\ pc[t] = "changing" => t \in Changing
  /\ pc[t] \in {"created", "shared"} => t \in Listing

\* A change not yet answered, or turned down, is not made; an "ok" says it was.
Made(t) ==
  /\ pc[t] \in {"idle", "login", "created", "shared"} => executed[t] = 0
  /\ pc[t] = "changing" /\ answer[t] \in {"none", "expired"} => executed[t] = 0
  /\ pc[t] = "changing" /\ answer[t] = "ok" => executed[t] = 1
  /\ outcome[t] = "ok" /\ t \in Changing => executed[t] = 1
  /\ outcome[t] = "expired" /\ t \in Changing => executed[t] = 0
  /\ pc[t] # "done" => outcome[t] = "none"
  /\ executed[t] <= 1

\* retried remembers the one login.
Asked(t) ==
  /\ pc[t] = "idle" => logins[t] = 0 /\ ~retried[t]
  /\ pc[t] = "login" => logins[t] = 1 /\ ~retried[t]
  /\ pc[t] \in Fns => logins[t] = IF retried[t] THEN 1 ELSE 0
  /\ logins[t] <= 1

\* The token minted for the call is the one it is retried with, and good until it
\* is withdrawn.
Good(t) ==
  /\ (pc[t] = "login" /\ answer[t] = "ok") \/ (pc[t] \in Fns /\ retried[t]) =>
       fresh[t] # 0 /\ (lapsed[t] \/ fresh[t] \in valid)
  /\ pc[t] \in Fns /\ retried[t] => sentWith[t] = fresh[t]
  /\ pc[t] \in Fns /\ retried[t] /\ answer[t] = "expired" => lapsed[t]
  /\ outcome[t] = "expired" => ~password \/ lapsed[t]

PerCall(t) == Kinds(t) /\ Made(t) /\ Asked(t) /\ Good(t)

IInv == TypeOK /\ \A t \in Calls : PerCall(t)

-----------------------------------------------------------------------------
(* Types *)

LEMMA TypeInit == Init => TypeOK
  BY CloudAssumption DEF Init, TypeOK, Requests, Answers, Outcomes

LEMMA TypeCall ==
  ASSUME TypeOK, NEW t \in Calls, Call(t)
  PROVE  TypeOK'
  BY CloudAssumption DEF Call, CallFn, Await, TypeOK, Requests, Answers, serverVars

LEMMA TypeFails ==
  ASSUME TypeOK, NEW t \in Calls, Fails(t)
  PROVE  /\ pc' \in [Calls -> Requests \union {"idle", "done"}]
         /\ answer' \in [Calls -> Answers]
         /\ outcome' \in [Calls -> Outcomes]
         /\ logins' \in [Calls -> Nat]
  BY DEF Fails, Await, End, TypeOK, Requests, Answers, Outcomes

LEMMA TypeChanged ==
  ASSUME TypeOK, NEW t \in Calls, Changed(t)
  PROVE  TypeOK'
<1>1. CASE answer[t] \in Success /\ End(t, "ok") /\ UNCHANGED logins
  BY <1>1 DEF Changed, End, TypeOK, Requests, Answers, Outcomes, serverVars
<1>2. CASE Fails(t)
  BY <1>2, TypeFails DEF Changed, TypeOK, serverVars
<1> QED BY <1>1, <1>2 DEF Changed

LEMMA TypeCreated ==
  ASSUME TypeOK, NEW t \in Calls, Created(t)
  PROVE  TypeOK'
<1>1. CASE /\ mine' = [mine EXCEPT ![t] = Parsed(t)]
           /\ Await(t, "shared") /\ UNCHANGED <<outcome, logins>>
  BY <1>1 DEF Created, Parsed, Await, TypeOK, Requests, Answers, serverVars
<1>2. CASE Fails(t) /\ UNCHANGED mine
  BY <1>2, TypeFails DEF Created, TypeOK, serverVars
<1> QED BY <1>1, <1>2 DEF Created

LEMMA TypeShared ==
  ASSUME TypeOK, NEW t \in Calls, Shared(t)
  PROVE  TypeOK'
<1>1. CASE /\ End(t, "ok") /\ UNCHANGED logins
           /\ \E shown \in SUBSET Changing : result' = [result EXCEPT ![t] = shown]
           /\ omitted' = [omitted EXCEPT ![t] = answer[t] # "ok"]
  BY <1>1 DEF Shared, End, TypeOK, Requests, Answers, Outcomes, serverVars
<1>2. CASE Fails(t) /\ UNCHANGED <<result, omitted>>
  BY <1>2, TypeFails DEF Shared, TypeOK, serverVars
<1>3. mine[t] \union (IF answer[t] = "ok" THEN Parsed(t) ELSE {}) \in SUBSET Changing
  BY DEF Parsed, TypeOK
<1> QED BY <1>1, <1>2, <1>3 DEF Shared

LEMMA TypeLoggedIn ==
  ASSUME TypeOK, NEW t \in Calls, LoggedIn(t)
  PROVE  TypeOK'
<1> USE DEF LoggedIn, TypeOK, Requests, Answers, Outcomes, serverVars, historyVars
<1>1. CASE answer[t] = "ok"
  <2>1. CallFn(t, fresh[t])
    BY <1>1 DEF RetryToken
  <2>2. /\ pc' \in [Calls -> Requests \union {"idle", "done"}]
        /\ answer' \in [Calls -> Answers]
        /\ sentWith' \in [Calls -> Nat]
    BY <2>1 DEF CallFn, Await
  <2>3. /\ token' = fresh[t] /\ persisted' = fresh[t] /\ outcome' = outcome
        /\ retried' = [retried EXCEPT ![t] = TRUE]
    BY <1>1
  <2>4. token' \in Nat /\ persisted' \in Nat /\ retried' \in [Calls -> BOOLEAN]
    BY <2>3
  <2>5. UNCHANGED <<password, fresh, page, mine, result, omitted, serverVars, historyVars>>
    OBVIOUS
  <2> QED BY <2>2, <2>3, <2>4, <2>5
<1>2. CASE answer[t] # "ok"
  <2>1. LoginFailed(t)
    BY <1>2
  <2>2. /\ pc' \in [Calls -> Requests \union {"idle", "done"}]
        /\ outcome' \in [Calls -> Outcomes]
        /\ answer' \in [Calls -> Answers]
    BY <2>1 DEF LoginFailed, End
  <2> QED BY <1>2, <2>2
<1> QED BY <1>1, <1>2

LEMMA TypeServe ==
  ASSUME TypeOK, NEW t \in Calls, Kinds(t), Serve(t)
  PROVE  TypeOK'
<1> USE DEF TypeOK, Answered, Answers, historyVars, serverVars
<1>1. CASE Handle(t)
  <2>1. t \in Calls /\ library' \subseteq Changing /\ executed' \in [Calls -> Nat]
           /\ answer' \in [Calls -> Answers]
    <3>1. CASE sentWith[t] \in valid
      <4>1. PICK what \in {"ok", "error", "timeout"} : Answered(t, what)
        BY <1>1, <3>1 DEF Handle
      <4>2. t \in Changing
        BY <1>1 DEF Handle, Kinds
      <4> QED BY <1>1, <3>1, <4>1, <4>2 DEF Handle
    <3>2. CASE sentWith[t] \notin valid
      BY <1>1, <3>2 DEF Handle
    <3> QED BY <3>1, <3>2
  <2> QED BY <1>1, <2>1 DEF Handle
<1>2. CASE Read(t)
  <2>1. Listed(t) \subseteq Changing
    BY DEF Listed
  <2>2. page' \in [Calls -> SUBSET Changing] /\ answer' \in [Calls -> Answers]
    BY <1>2, <2>1 DEF Read
  <2> QED BY <1>2, <2>2 DEF Read
<1>3. CASE Mint(t)
  BY <1>3, CloudAssumption DEF Mint
<1>4. CASE Lose(t)
  BY <1>4 DEF Lose
<1> QED BY <1>1, <1>2, <1>3, <1>4 DEF Serve

LEMMA TypeLapse == TypeOK /\ Lapse => TypeOK'
  BY DEF Lapse, TypeOK, clientVars

-----------------------------------------------------------------------------
(* The steps of a call *)

\* What a step of another call leaves alone.
Same(u) ==
  /\ pc'[u] = pc[u] /\ answer'[u] = answer[u] /\ outcome'[u] = outcome[u]
  /\ executed'[u] = executed[u] /\ logins'[u] = logins[u] /\ retried'[u] = retried[u]
  /\ sentWith'[u] = sentWith[u] /\ fresh'[u] = fresh[u] /\ password' = password

LEMMA OthersKeep ==
  ASSUME NEW u \in Calls, PerCall(u), Same(u), lapsed'[u] = lapsed[u], valid' = valid
  PROVE  PerCall(u)'
  BY DEF PerCall, Kinds, Made, Asked, Good, Same

\* The tokens the server accepts may change beside a call.
LEMMA TokensKeep ==
  ASSUME NEW u \in Calls, PerCall(u), Same(u), lapsed'[u] = (lapsed[u] \/ Withdrawn(u))
  PROVE  PerCall(u)'
<1>1. Good(u)'
  BY DEF PerCall, Good, Same, Withdrawn
<1> QED BY <1>1 DEF PerCall, Kinds, Made, Asked, Same

LEMMA CallKeeps ==
  ASSUME IInv, NEW t \in Calls, Call(t), NEW u \in Calls
  PROVE  PerCall(u)'
<1>0. TypeOK /\ PerCall(u)
  BY DEF IInv
<1>1. CASE u = t
  <2>1. pc' = [pc EXCEPT ![t] = IF t \in Listing THEN "created" ELSE "changing"]
    BY DEF Call, CallFn, Await
  <2>2. answer' = [answer EXCEPT ![t] = "none"]
    BY DEF Call, CallFn, Await
  <2> QED BY <1>0, <1>1, <2>1, <2>2, CloudAssumption
      DEF Call, PerCall, Kinds, Made, Asked, Good, TypeOK, Fns, serverVars
<1>2. CASE u # t
  <2>1. Same(u)
    BY <1>0, <1>2 DEF Call, CallFn, Await, Same, TypeOK, serverVars
  <2> QED BY <1>0, <2>1, OthersKeep DEF Call, serverVars
<1> QED BY <1>1, <1>2

LEMMA FailsKeeps ==
  ASSUME IInv, NEW t \in Calls, Fails(t), pc[t] \in Fns, answer[t] # "none", answer[t] # "ok",
         UNCHANGED <<password, sentWith, retried, fresh, valid, executed, lapsed>>
  PROVE  PerCall(t)'
<1>0. TypeOK /\ PerCall(t)
  BY DEF IInv
<1> USE <1>0 DEF PerCall, Kinds, Made, Asked, Good, TypeOK, Fns
<1>1. CASE answer[t] \in MeansExpired /\ MayRelogin(t) /\ password
  <2>1. /\ pc' = [pc EXCEPT ![t] = "login"] /\ answer' = [answer EXCEPT ![t] = "none"]
        /\ logins' = [logins EXCEPT ![t] = @ + 1] /\ UNCHANGED outcome
    BY <1>1 DEF Fails, Await
  <2> QED BY <1>1, <2>1 DEF MeansExpired, MayRelogin
<1>2. CASE answer[t] \in MeansExpired /\ MayRelogin(t) /\ ~password
  <2>1. /\ pc' = [pc EXCEPT ![t] = "done"] /\ answer' = [answer EXCEPT ![t] = "none"]
        /\ logins' = logins /\ outcome' = [outcome EXCEPT ![t] = "expired"]
    BY <1>2 DEF Fails, End
  <2>2. answer[t] = "expired"
    BY <1>2 DEF MeansExpired
  <2>3. t \in Changing => executed[t] = 0
    BY <2>2
  <2>4. /\ pc'[t] = "done" /\ answer'[t] = "none" /\ outcome'[t] = "expired"
        /\ logins'[t] = logins[t] /\ executed' = executed /\ ~password'
    BY <1>2, <2>1
  <2>5. Kinds(t)' /\ Asked(t)' /\ Good(t)'
    BY <2>4
  <2>6. Made(t)'
    BY <2>3, <2>4
  <2> QED BY <2>5, <2>6
<1>3. CASE ~(answer[t] \in MeansExpired /\ MayRelogin(t))
  <2>1. /\ pc' = [pc EXCEPT ![t] = "done"] /\ answer' = [answer EXCEPT ![t] = "none"] /\ logins' = logins
        /\ outcome' = [outcome EXCEPT ![t] = IF answer[t] = "expired" THEN "expired" ELSE "failed"]
    BY <1>3 DEF Fails, End
  <2>2. answer[t] = "expired" => lapsed[t]
    BY <1>3 DEF MeansExpired, MayRelogin
  <2> QED BY <2>1, <2>2
<1> QED BY <1>1, <1>2, <1>3

LEMMA FailsOthers ==
  ASSUME TypeOK, NEW t \in Calls, Fails(t), NEW u \in Calls, u # t
  PROVE  /\ pc'[u] = pc[u] /\ answer'[u] = answer[u]
         /\ outcome'[u] = outcome[u] /\ logins'[u] = logins[u]
  BY DEF Fails, Await, End, TypeOK

LEMMA ChangedKeeps ==
  ASSUME IInv, NEW t \in Calls, Changed(t), NEW u \in Calls
  PROVE  PerCall(u)'
<1>0. TypeOK /\ PerCall(u) /\ PerCall(t)
  BY DEF IInv
<1>1. CASE Fails(t) /\ answer[t] # "ok"
  <2>1. CASE u = t
    BY <1>1, <2>1, FailsKeeps DEF Changed, Fns, serverVars
  <2>2. CASE u # t
    BY <1>0, <1>1, <2>2, FailsOthers, OthersKeep DEF Changed, Same, serverVars
  <2> QED BY <2>1, <2>2
<1>2. CASE answer[t] = "ok" /\ End(t, "ok") /\ UNCHANGED logins
  <2>1. /\ pc' = [pc EXCEPT ![t] = "done"] /\ outcome' = [outcome EXCEPT ![t] = "ok"]
        /\ answer' = [answer EXCEPT ![t] = "none"]
    BY <1>2 DEF End
  <2>2. CASE u = t
    BY <1>0, <1>2, <2>1, <2>2 DEF Changed, PerCall, Kinds, Made, Asked, Good, TypeOK, Fns, serverVars
  <2>3. CASE u # t
    BY <1>0, <1>2, <2>1, <2>3, OthersKeep DEF Changed, Same, TypeOK, serverVars
  <2> QED BY <2>2, <2>3
<1> QED BY <1>1, <1>2 DEF Changed, Success

LEMMA CreatedKeeps ==
  ASSUME IInv, NEW t \in Calls, Created(t), NEW u \in Calls
  PROVE  PerCall(u)'
<1>0. TypeOK /\ PerCall(u) /\ PerCall(t)
  BY DEF IInv
<1>1. CASE Fails(t) /\ answer[t] # "ok"
  <2>1. CASE u = t
    BY <1>1, <2>1, FailsKeeps DEF Created, Fns, serverVars
  <2>2. CASE u # t
    BY <1>0, <1>1, <2>2, FailsOthers, OthersKeep DEF Created, Same, serverVars
  <2> QED BY <2>1, <2>2
<1>2. CASE answer[t] = "ok" /\ Await(t, "shared") /\ UNCHANGED <<outcome, logins>>
  <2>1. pc' = [pc EXCEPT ![t] = "shared"] /\ answer' = [answer EXCEPT ![t] = "none"]
    BY <1>2 DEF Await
  <2>2. CASE u = t
    BY <1>0, <1>2, <2>1, <2>2 DEF Created, PerCall, Kinds, Made, Asked, Good, TypeOK, Fns, serverVars
  <2>3. CASE u # t
    BY <1>0, <1>2, <2>1, <2>3, OthersKeep DEF Created, Same, TypeOK, serverVars
  <2> QED BY <2>2, <2>3
<1> QED BY <1>1, <1>2 DEF Created

LEMMA SharedKeeps ==
  ASSUME IInv, NEW t \in Calls, Shared(t), NEW u \in Calls
  PROVE  PerCall(u)'
<1>0. TypeOK /\ PerCall(u) /\ PerCall(t)
  BY DEF IInv
<1>1. CASE Fails(t) /\ answer[t] # "ok"
  <2>1. CASE u = t
    BY <1>1, <2>1, FailsKeeps DEF Shared, Fns, serverVars
  <2>2. CASE u # t
    BY <1>0, <1>1, <2>2, FailsOthers, OthersKeep DEF Shared, Same, serverVars
  <2> QED BY <2>1, <2>2
<1>2. CASE End(t, "ok") /\ UNCHANGED logins
  <2>1. /\ pc' = [pc EXCEPT ![t] = "done"] /\ outcome' = [outcome EXCEPT ![t] = "ok"]
        /\ answer' = [answer EXCEPT ![t] = "none"]
    BY <1>2 DEF End
  <2>2. CASE u = t
    BY <1>0, <1>2, <2>1, <2>2, CloudAssumption
       DEF Shared, PerCall, Kinds, Made, Asked, Good, TypeOK, Fns, serverVars
  <2>3. CASE u # t
    BY <1>0, <1>2, <2>1, <2>3, OthersKeep DEF Shared, Same, TypeOK, serverVars
  <2> QED BY <2>2, <2>3
<1> QED BY <1>1, <1>2 DEF Shared

LEMMA LoggedInKeeps ==
  ASSUME IInv, NEW t \in Calls, LoggedIn(t), NEW u \in Calls
  PROVE  PerCall(u)'
<1>0. TypeOK /\ PerCall(u)
  BY DEF IInv
<1>1. CASE answer[t] = "ok"
  <2>1. /\ pc' = [pc EXCEPT ![t] = IF t \in Listing THEN "created" ELSE "changing"]
        /\ answer' = [answer EXCEPT ![t] = "none"] /\ outcome' = outcome
        /\ sentWith' = [sentWith EXCEPT ![t] = fresh[t]] /\ retried' = [retried EXCEPT ![t] = TRUE]
    BY <1>1 DEF LoggedIn, CallFn, Await, RetryToken
  <2>2. CASE u = t
    BY <1>0, <1>1, <2>1, <2>2, CloudAssumption
       DEF LoggedIn, PerCall, Kinds, Made, Asked, Good, TypeOK, Fns, serverVars, historyVars
  <2>3. CASE u # t
    BY <1>0, <1>1, <2>1, <2>3, OthersKeep DEF LoggedIn, Same, TypeOK, serverVars, historyVars
  <2> QED BY <2>2, <2>3
<1>2. CASE answer[t] # "ok"
  <2>1. /\ pc' = [pc EXCEPT ![t] = "done"] /\ outcome' = [outcome EXCEPT ![t] = "failed"]
        /\ answer' = [answer EXCEPT ![t] = "none"] /\ UNCHANGED <<sentWith, retried>>
    BY <1>2 DEF LoggedIn, LoginFailed, End
  <2>2. CASE u = t
    BY <1>0, <1>2, <2>1, <2>2
       DEF LoggedIn, PerCall, Kinds, Made, Asked, Good, TypeOK, Fns, serverVars, historyVars
  <2>3. CASE u # t
    BY <1>0, <1>2, <2>1, <2>3, OthersKeep DEF LoggedIn, Same, TypeOK, serverVars, historyVars
  <2> QED BY <2>2, <2>3
<1> QED BY <1>1, <1>2

-----------------------------------------------------------------------------
(* The steps of the server *)

LEMMA HandleKeeps ==
  ASSUME IInv, NEW t \in Calls, Handle(t), NEW u \in Calls
  PROVE  PerCall(u)'
<1>0. TypeOK /\ PerCall(u)
  BY DEF IInv
<1>1. CASE sentWith[t] \in valid
  <2>1. PICK what \in {"ok", "error", "timeout"} : answer' = [answer EXCEPT ![t] = what]
    BY <1>1 DEF Handle, Answered
  <2>2. executed' = [executed EXCEPT ![t] = @ + 1]
    BY <1>1 DEF Handle
  <2>3. CASE u = t
    BY <1>0, <2>1, <2>2, <2>3 DEF Handle, PerCall, Kinds, Made, Asked, Good, TypeOK, Fns, historyVars
  <2>4. CASE u # t
    BY <1>0, <2>1, <2>2, <2>4, OthersKeep DEF Handle, Same, TypeOK, historyVars
  <2> QED BY <2>3, <2>4
<1>2. CASE sentWith[t] \notin valid
  <2>1. answer' = [answer EXCEPT ![t] = "expired"] /\ executed' = executed
    BY <1>2 DEF Handle, Answered
  <2>2. CASE u = t
    BY <1>0, <1>2, <2>1, <2>2 DEF Handle, PerCall, Kinds, Made, Asked, Good, TypeOK, Fns, historyVars
  <2>3. CASE u # t
    BY <1>0, <2>1, <2>3, OthersKeep DEF Handle, Same, TypeOK, historyVars
  <2> QED BY <2>2, <2>3
<1> QED BY <1>1, <1>2

LEMMA ReadKeeps ==
  ASSUME IInv, NEW t \in Calls, Read(t), NEW u \in Calls
  PROVE  PerCall(u)'
<1>0. TypeOK /\ PerCall(u)
  BY DEF IInv
<1>1. \/ answer' = [answer EXCEPT ![t] = "ok"]
      \/ sentWith[t] \notin valid /\ answer' = [answer EXCEPT ![t] = "expired"]
  BY DEF Read, Answered
<1>2. CASE u = t
  BY <1>0, <1>1, <1>2 DEF Read, PerCall, Kinds, Made, Asked, Good, TypeOK, Fns, serverVars, historyVars
<1>3. CASE u # t
  BY <1>0, <1>1, <1>3, OthersKeep DEF Read, Same, TypeOK, serverVars, historyVars
<1> QED BY <1>2, <1>3

LEMMA MintKeeps ==
  ASSUME IInv, NEW t \in Calls, Mint(t), NEW u \in Calls
  PROVE  PerCall(u)'
<1>0. TypeOK /\ PerCall(u)
  BY DEF IInv
<1>1. /\ minted + 1 \in valid'
      /\ \/ answer' = [answer EXCEPT ![t] = "ok"] /\ fresh' = [fresh EXCEPT ![t] = minted + 1]
         \/ answer' = [answer EXCEPT ![t] = "error"] /\ fresh' = fresh
  BY DEF Mint, Answered
<1>2. CASE u = t
  <2>1. minted + 1 # 0
    BY <1>0 DEF TypeOK
  <2> QED BY <1>0, <1>1, <1>2, <2>1 DEF Mint, PerCall, Kinds, Made, Asked, Good, TypeOK, Fns
<1>3. CASE u # t
  <2>1. Same(u)
    BY <1>0, <1>1, <1>3 DEF Mint, Same, TypeOK
  <2>2. lapsed'[u] = (lapsed[u] \/ Withdrawn(u))
    BY DEF Mint
  <2> QED BY <1>0, <2>1, <2>2, TokensKeep
<1> QED BY <1>2, <1>3

LEMMA LoseKeeps ==
  ASSUME IInv, NEW t \in Calls, Lose(t), NEW u \in Calls
  PROVE  PerCall(u)'
<1>0. TypeOK /\ PerCall(u)
  BY DEF IInv
<1>1. PICK what \in {"error", "timeout"} : answer' = [answer EXCEPT ![t] = what]
  BY DEF Lose, Answered
<1>2. CASE u = t
  BY <1>0, <1>1, <1>2 DEF Lose, PerCall, Kinds, Made, Asked, Good, TypeOK, Fns, serverVars, historyVars
<1>3. CASE u # t
  BY <1>0, <1>1, <1>3, OthersKeep DEF Lose, Same, TypeOK, serverVars, historyVars
<1> QED BY <1>2, <1>3

LEMMA LapseKeeps ==
  ASSUME IInv, Lapse, NEW u \in Calls
  PROVE  PerCall(u)'
<1>0. PerCall(u)
  BY DEF IInv
<1>1. Same(u)
  BY DEF Lapse, Same, clientVars
<1>2. lapsed'[u] = (lapsed[u] \/ Withdrawn(u))
  BY DEF Lapse
<1> QED BY <1>0, <1>1, <1>2, TokensKeep

-----------------------------------------------------------------------------
(* Theorems *)

LEMMA InitIInv == Init => IInv
<1> SUFFICES ASSUME Init, NEW t \in Calls PROVE PerCall(t)
  BY TypeInit DEF IInv
<1> QED BY DEF Init, PerCall, Kinds, Made, Asked, Good, Fns

LEMMA StepIInv == IInv /\ [Next]_vars => IInv'
<1> SUFFICES ASSUME IInv, [Next]_vars PROVE IInv'
  OBVIOUS
<1>0. TypeOK /\ \A t \in Calls : Kinds(t)
  BY DEF IInv, PerCall
<1>1. CASE Lapse
  BY <1>0, <1>1, TypeLapse, LapseKeeps DEF IInv
<1>2. ASSUME NEW t \in Calls, Run(t) PROVE IInv'
  <2>1. TypeOK'
    BY <1>0, <1>2, TypeCall, TypeChanged, TypeCreated, TypeShared, TypeLoggedIn DEF Run
  <2>2. ASSUME NEW u \in Calls PROVE PerCall(u)'
    BY <1>2, CallKeeps, ChangedKeeps, CreatedKeeps, SharedKeeps, LoggedInKeeps DEF Run
  <2> QED BY <2>1, <2>2 DEF IInv
<1>3. ASSUME NEW t \in Calls, Serve(t) PROVE IInv'
  <2>1. TypeOK'
    BY <1>0, <1>3, TypeServe
  <2>2. ASSUME NEW u \in Calls PROVE PerCall(u)'
    BY <1>3, HandleKeeps, ReadKeeps, MintKeeps, LoseKeeps DEF Serve
  <2> QED BY <2>1, <2>2 DEF IInv
<1>4. CASE UNCHANGED vars
  BY <1>4 DEF IInv, TypeOK, PerCall, Kinds, Made, Asked, Good, vars, clientVars, serverVars, historyVars
<1> QED BY <1>1, <1>2, <1>3, <1>4 DEF Next

THEOREM Invariant == Spec => []IInv
  BY InitIInv, StepIInv, PTL DEF Spec

\* XBloomCloudSession._call: a recipe is created, updated or deleted once, and a
\* call that returns did it, whatever its retries and those of the other calls.
THEOREM NothingTwice == Spec => []MadeAtMostOnce
<1>1. IInv => MadeAtMostOnce
  BY CloudAssumption DEF IInv, PerCall, Made, MadeAtMostOnce
<1> QED BY <1>1, Invariant, PTL

\* _call: no call asks for a second token.
THEOREM LogsInOnce == Spec => []OneLogin
<1>1. IInv => OneLogin
  BY DEF IInv, PerCall, Asked, OneLogin
<1> QED BY <1>1, Invariant, PTL

\* _call: XBloomAuthError of an expired session means that nothing was changed, so
\* that the host may repeat the change once it has the credentials.
THEOREM ExpiredIsUndone == Spec => []ExpiredMeansUndone
<1>1. IInv => ExpiredMeansUndone
  BY CloudAssumption DEF IInv, PerCall, Made, ExpiredMeansUndone
<1> QED BY <1>1, Invariant, PTL

\* _relogin: with a stored password only the loss of the very token that the call
\* was given brings XBloomAuthError to the caller.
THEOREM AsksForPassword == Spec => []AskedOnlyWithoutPassword
<1>1. IInv => AskedOnlyWithoutPassword
  BY DEF IInv, PerCall, Good, AskedOnlyWithoutPassword
<1> QED BY <1>1, Invariant, PTL
-----------------------------------------------------------------------------
(* What a list holds *)

\* What was made, and what had returned before a call, is in the library.
Kept ==
  /\ \A u \in Changing : executed[u] = 1 => u \in library
  /\ \A t \in Calls : before[t] \subseteq library

\* The list of c passes c over, on the server or in the client.
Hidden(c) == c \in garbled \/ Crowded(c)

\* Each list shows what had returned before the call, but for what is hidden, and
\* the client gathers what the two show.
Gathered(t) ==
  /\ pc[t] \in {"created", "shared"} /\ answer[t] = "ok" =>
       /\ page[t] \subseteq library
       /\ \A c \in before[t] : (c \in shares <=> pc[t] = "shared") => c \in page[t] \/ Crowded(c)
  /\ pc[t] = "shared" =>
       mine[t] \subseteq library /\ \A c \in before[t] \ shares : c \in mine[t] \/ Hidden(c)
  /\ t \in Listing /\ outcome[t] = "ok" =>
       /\ result[t] \subseteq library
       /\ \A c \in before[t] \ result[t] : Hidden(c) \/ (c \in shares /\ omitted[t])

LInv == Kept /\ \A t \in Calls : Gathered(t)

LEMMA KeptInit == Init => LInv
  BY CloudAssumption DEF Init, LInv, Kept, Gathered

\* Only Handle touches the library, only Call fixes what had returned before.
LEMMA KeptNext ==
  ASSUME IInv, Kept, [Next]_vars
  PROVE  Kept'
<1>0. TypeOK /\ \A u \in Calls : PerCall(u)
  BY DEF IInv
<1>1. ASSUME UNCHANGED <<executed, library, before>> PROVE Kept'
  BY <1>1 DEF Kept
<1>2. ASSUME NEW t \in Calls, Call(t) PROVE Kept'
  <2>1. UNCHANGED <<executed, library>>
    BY <1>2 DEF Call, serverVars
  <2>2. before' = [before EXCEPT ![t] = {u \in Changing : outcome[u] = "ok"}]
    BY <1>2 DEF Call
  <2>3. {u \in Changing : outcome[u] = "ok"} \subseteq library
    BY <1>0, CloudAssumption DEF Kept, PerCall, Made
  <2> QED BY <1>0, <2>1, <2>2, <2>3 DEF Kept, TypeOK
<1>3. ASSUME NEW t \in Calls, Handle(t) PROVE Kept'
  <2>1. CASE UNCHANGED <<library, executed>>
    BY <1>1, <1>3, <2>1 DEF Handle, historyVars
  <2>2. CASE library' = library \union {t} /\ executed' = [executed EXCEPT ![t] = @ + 1]
    BY <1>0, <1>3, <2>2 DEF Handle, Kept, TypeOK, historyVars
  <2> QED BY <1>3, <2>1, <2>2 DEF Handle
<1>4. CASE Lapse
  BY <1>1, <1>4 DEF Lapse
<1>5. ASSUME NEW t \in Calls, Run(t), ~Call(t) PROVE Kept'
  BY <1>1, <1>5 DEF Run, Changed, Created, Shared, LoggedIn, serverVars, historyVars
<1>6. ASSUME NEW t \in Calls, Serve(t), ~Handle(t) PROVE Kept'
  BY <1>1, <1>6 DEF Serve, Read, Mint, Lose, serverVars, historyVars
<1>7. CASE UNCHANGED vars
  BY <1>1, <1>7 DEF vars, serverVars, historyVars
<1> QED BY <1>2, <1>3, <1>4, <1>5, <1>6, <1>7 DEF Next, Run, Serve

\* The library grows, and a list that has more than its page shows keeps having it.
Grows ==
  /\ library \subseteq library' /\ shares' = shares /\ garbled' = garbled
  /\ \A c \in Changing : Hidden(c) => Hidden(c)'
  /\ \A c \in Changing : Crowded(c) => Crowded(c)'

LEMMA LibraryGrows ==
  ASSUME TypeOK, TypeOK', [Next]_vars
  PROVE  Grows
<1>1. library \subseteq library' /\ shares' = shares /\ garbled' = garbled
  BY DEF Next, Run, Serve, Call, Changed, Created, Shared, LoggedIn, Handle, Read, Mint, Lose, Lapse,
         vars, serverVars
<1>2. ASSUME NEW c \in Changing, Crowded(c) PROVE Crowded(c)'
  <2> DEFINE half == IF c \in shares THEN shares ELSE Changing \ shares
  <2>1. IsFiniteSet(library' \intersect half)
    BY CloudAssumption, FS_Subset DEF TypeOK
  <2>2. library \intersect half \subseteq library' \intersect half
    BY <1>1
  <2>3. Cardinality(library \intersect half) <= Cardinality(library' \intersect half)
    BY <2>1, <2>2, FS_Subset
  <2>4. Cardinality(library \intersect half) \in Nat /\ Cardinality(library' \intersect half) \in Nat
    BY <2>1, <2>2, FS_Subset, FS_CardinalityType
  <2>5. Cardinality(library \intersect half) > Room
    BY <1>2 DEF Crowded
  <2>6. Cardinality(library' \intersect half) > Room
    BY <2>3, <2>4, <2>5, CloudAssumption
  <2> QED BY <1>1, <2>6 DEF Crowded
<1> QED BY <1>1, <1>2 DEF Grows, Hidden

\* What a call that is not the step's own keeps.
SameList(u) ==
  /\ pc'[u] = pc[u] /\ answer'[u] = answer[u] /\ outcome'[u] = outcome[u]
  /\ page'[u] = page[u] /\ mine'[u] = mine[u] /\ result'[u] = result[u]
  /\ omitted'[u] = omitted[u] /\ before'[u] = before[u]

LEMMA SameGathered ==
  ASSUME TypeOK, NEW u \in Calls, Gathered(u), SameList(u), Grows
  PROVE  Gathered(u)'
<1>1. \A c \in before[u] : c \in Changing
  BY DEF TypeOK
<1>2. CASE pc[u] \in {"created", "shared"} /\ answer[u] = "ok"
  BY <1>1, <1>2 DEF Gathered, SameList, Grows
<1>3. CASE ~(pc[u] \in {"created", "shared"} /\ answer[u] = "ok")
  BY <1>1, <1>3 DEF Gathered, SameList, Grows
<1> QED BY <1>2, <1>3

\* A call that awaits its first answer, a token or nothing, and was no success.
LEMMA NothingGathered ==
  ASSUME NEW t \in Calls, pc'[t] # "shared", answer'[t] = "none", outcome'[t] # "ok"
  PROVE  Gathered(t)'
  BY DEF Gathered

\* The ends of a handler that are not a success gather nothing.
LEMMA FailsGathers ==
  ASSUME IInv, NEW t \in Calls, pc[t] \in Fns, Fails(t), Grows,
         UNCHANGED <<page, mine, result, omitted, before>>
  PROVE  \A u \in Calls : Gathered(u) => Gathered(u)'
<1>0. TypeOK /\ PerCall(t)
  BY DEF IInv
<1>1. /\ answer' = [answer EXCEPT ![t] = "none"]
      /\ \/ pc' = [pc EXCEPT ![t] = "login"] /\ UNCHANGED outcome
         \/ /\ pc' = [pc EXCEPT ![t] = "done"]
            /\ \E how \in {"expired", "failed"} : outcome' = [outcome EXCEPT ![t] = how]
  BY DEF Fails, Await, End
<1>2. ASSUME NEW u \in Calls, Gathered(u) PROVE Gathered(u)'
  <2>1. CASE u = t
    <3>1. outcome[t] = "none"
      BY <1>0 DEF PerCall, Made, Fns
    <3>2. pc'[t] \in {"login", "done"} /\ answer'[t] = "none" /\ outcome'[t] # "ok"
      BY <1>0, <1>1, <3>1 DEF TypeOK
    <3> QED BY <2>1, <3>2, NothingGathered
  <2>2. CASE u # t
    <3>1. SameList(u)
      BY <1>0, <1>1, <2>2 DEF SameList, TypeOK
    <3> QED BY <1>0, <1>2, <3>1, SameGathered
  <2> QED BY <2>1, <2>2
<1> QED BY <1>2

LEMMA CallGathers ==
  ASSUME IInv, LInv, NEW t \in Calls, Call(t), Grows, NEW u \in Calls
  PROVE  Gathered(u)'
<1>0. TypeOK /\ PerCall(t) /\ Gathered(u)
  BY DEF IInv, LInv
<1>1. /\ pc' = [pc EXCEPT ![t] = IF t \in Listing THEN "created" ELSE "changing"]
      /\ answer' = [answer EXCEPT ![t] = "none"]
      /\ before' = [before EXCEPT ![t] = {v \in Changing : outcome[v] = "ok"}]
      /\ UNCHANGED <<outcome, page, mine, result, omitted>> /\ pc[t] = "idle"
  BY DEF Call, CallFn, Await
<1>2. CASE u = t
  <2>1. outcome[t] = "none"
    BY <1>0, <1>1 DEF PerCall, Made
  <2>2. pc'[t] \in {"created", "changing"} /\ answer'[t] = "none" /\ outcome'[t] = "none"
    BY <1>0, <1>1, <2>1 DEF TypeOK
  <2> QED BY <1>2, <2>2, NothingGathered
<1>3. CASE u # t
  <2>1. SameList(u)
    BY <1>0, <1>1, <1>3 DEF SameList, TypeOK
  <2> QED BY <1>0, <2>1, SameGathered
<1> QED BY <1>2, <1>3

LEMMA ChangedGathers ==
  ASSUME IInv, LInv, NEW t \in Calls, Changed(t), Grows, NEW u \in Calls
  PROVE  Gathered(u)'
<1>0. TypeOK /\ PerCall(t) /\ Gathered(u)
  BY DEF IInv, LInv
<1>1. CASE End(t, "ok")
  <2>1. /\ outcome' = [outcome EXCEPT ![t] = "ok"] /\ pc' = [pc EXCEPT ![t] = "done"]
        /\ answer' = [answer EXCEPT ![t] = "none"] /\ UNCHANGED <<page, mine, result, omitted, before>>
    BY <1>1 DEF End, Changed
  <2>2. CASE u = t
    <3>1. t \notin Listing
      BY <1>0, CloudAssumption DEF Changed, PerCall, Kinds
    <3>2. pc'[t] = "done"
      BY <1>0, <2>1 DEF TypeOK
    <3> QED BY <2>2, <3>1, <3>2 DEF Gathered
  <2>3. CASE u # t
    <3>1. SameList(u)
      BY <1>0, <2>1, <2>3 DEF SameList, TypeOK
    <3> QED BY <1>0, <3>1, SameGathered
  <2> QED BY <2>2, <2>3
<1>2. CASE Fails(t)
  <2>1. pc[t] \in Fns /\ UNCHANGED <<page, mine, result, omitted, before>>
    BY DEF Changed, Fns
  <2> QED BY <1>0, <1>2, <2>1, FailsGathers
<1> QED BY <1>1, <1>2 DEF Changed

LEMMA CreatedGathers ==
  ASSUME IInv, LInv, NEW t \in Calls, Created(t), Grows, NEW u \in Calls
  PROVE  Gathered(u)'
<1>0. TypeOK /\ PerCall(t) /\ Gathered(t) /\ Gathered(u)
  BY DEF IInv, LInv
<1>1. CASE /\ answer[t] = "ok" /\ mine' = [mine EXCEPT ![t] = Parsed(t)]
           /\ Await(t, "shared") /\ UNCHANGED outcome
  <2>1. /\ pc' = [pc EXCEPT ![t] = "shared"] /\ answer' = [answer EXCEPT ![t] = "none"]
        /\ UNCHANGED <<page, result, omitted, before, library, shares, garbled>>
    BY <1>1 DEF Await, Created, serverVars
  <2>2. CASE u = t
    <3>1. /\ pc'[t] = "shared" /\ answer'[t] = "none" /\ outcome'[t] = "none"
          /\ mine'[t] = page[t] \ garbled /\ before'[t] = before[t]
      BY <1>0, <1>1, <2>1 DEF Created, PerCall, Made, TypeOK, Parsed
    <3>2. /\ page[t] \subseteq library
          /\ \A c \in before[t] \ shares : c \in page[t] \/ Crowded(c)
      BY <1>0, <1>1 DEF Created, Gathered
    <3>3. \A c \in before[t] \ shares : c \in mine'[t] \/ Hidden(c)
      BY <3>1, <3>2 DEF Hidden
    <3>4. \A c \in before[t] \ shares : c \in mine'[t] \/ Hidden(c)'
      BY <1>0, <3>3 DEF Grows, TypeOK
    <3> QED BY <2>1, <2>2, <3>1, <3>2, <3>4 DEF Gathered
  <2>3. CASE u # t
    <3>1. SameList(u)
      BY <1>0, <1>1, <2>1, <2>3 DEF SameList, TypeOK
    <3> QED BY <1>0, <3>1, SameGathered
  <2> QED BY <2>2, <2>3
<1>2. CASE Fails(t) /\ UNCHANGED mine
  <2>1. pc[t] \in Fns /\ UNCHANGED <<page, mine, result, omitted, before>>
    BY <1>2 DEF Created, Fns
  <2> QED BY <1>0, <1>2, <2>1, FailsGathers
<1> QED BY <1>1, <1>2 DEF Created

LEMMA SharedGathers ==
  ASSUME IInv, LInv, NEW t \in Calls, Shared(t), Grows, NEW u \in Calls
  PROVE  Gathered(u)'
<1>0. TypeOK /\ PerCall(t) /\ Gathered(t) /\ Gathered(u)
  BY DEF IInv, LInv
<1> DEFINE shown == IF answer[t] = "ok" THEN Parsed(t) ELSE {}
<1>1. CASE /\ End(t, "ok")
           /\ result' = [result EXCEPT ![t] = mine[t] \union shown]
           /\ omitted' = [omitted EXCEPT ![t] = answer[t] # "ok"]
  <2>1. /\ outcome' = [outcome EXCEPT ![t] = "ok"] /\ pc' = [pc EXCEPT ![t] = "done"]
        /\ answer' = [answer EXCEPT ![t] = "none"]
        /\ UNCHANGED <<page, mine, before, library, shares, garbled>>
    BY <1>1 DEF End, Shared, serverVars
  <2>2. CASE u = t
    <3>1. /\ pc'[t] = "done" /\ result'[t] = mine[t] \union shown
          /\ omitted'[t] = (answer[t] # "ok") /\ before'[t] = before[t]
      BY <1>0, <1>1, <2>1 DEF TypeOK
    <3>2. mine[t] \subseteq library /\ \A c \in before[t] \ shares : c \in mine[t] \/ Hidden(c)
      BY <1>0 DEF Shared, Gathered
    <3>3. answer[t] = "ok" =>
            page[t] \subseteq library /\ \A c \in before[t] \intersect shares : c \in page[t] \/ Crowded(c)
      BY <1>0 DEF Shared, Gathered
    <3>4. shown \subseteq library
      BY <3>3 DEF Parsed
    <3>5. ASSUME NEW c \in before[t], c \notin mine[t] \union shown
          PROVE  Hidden(c) \/ (c \in shares /\ answer[t] # "ok")
      BY <3>2, <3>3, <3>5 DEF Parsed, Hidden
    <3>6. \A c \in before[t] : Hidden(c) => Hidden(c)'
      BY <1>0 DEF Grows, TypeOK
    <3>7. \A c \in before'[t] \ result'[t] : Hidden(c)' \/ (c \in shares' /\ omitted'[t])
      BY <2>1, <3>1, <3>5, <3>6
    <3>8. result'[t] \subseteq library'
      BY <2>1, <3>1, <3>2, <3>4
    <3> QED BY <2>2, <3>1, <3>7, <3>8 DEF Gathered
  <2>3. CASE u # t
    <3>1. SameList(u)
      BY <1>0, <1>1, <2>1, <2>3 DEF SameList, TypeOK
    <3> QED BY <1>0, <3>1, SameGathered
  <2> QED BY <2>2, <2>3
<1>2. CASE Fails(t) /\ UNCHANGED <<result, omitted>>
  <2>1. pc[t] \in Fns /\ UNCHANGED <<page, mine, result, omitted, before>>
    BY <1>2 DEF Shared, Fns
  <2> QED BY <1>0, <1>2, <2>1, FailsGathers
<1> QED BY <1>1, <1>2 DEF Shared

LEMMA LoggedInGathers ==
  ASSUME IInv, LInv, NEW t \in Calls, LoggedIn(t), Grows, NEW u \in Calls
  PROVE  Gathered(u)'
<1>0. TypeOK /\ PerCall(t) /\ Gathered(u)
  BY DEF IInv, LInv
<1>1. /\ answer' = [answer EXCEPT ![t] = "none"]
      /\ \/ /\ pc' = [pc EXCEPT ![t] = IF t \in Listing THEN "created" ELSE "changing"]
            /\ UNCHANGED outcome
         \/ /\ pc' = [pc EXCEPT ![t] = "done"]
            /\ outcome' = [outcome EXCEPT ![t] = "failed"]
  BY DEF LoggedIn, CallFn, Await, LoginFailed, End
<1>2. UNCHANGED <<page, mine, result, omitted, before>> /\ pc[t] = "login"
  BY DEF LoggedIn, historyVars
<1>3. CASE u = t
  <2>1. outcome[t] = "none"
    BY <1>0, <1>2 DEF PerCall, Made
  <2>2. outcome'[t] # "ok" /\ pc'[t] # "shared" /\ answer'[t] = "none"
    BY <1>0, <1>1, <2>1 DEF TypeOK
  <2> QED BY <1>3, <2>2, NothingGathered
<1>4. CASE u # t
  <2>1. SameList(u)
    BY <1>0, <1>1, <1>2, <1>4 DEF SameList, TypeOK
  <2> QED BY <1>0, <2>1, SameGathered
<1> QED BY <1>3, <1>4

\* Read sends all of a list, or as much as the page takes of one that has more.
LEMMA ReadGathers ==
  ASSUME IInv, LInv, NEW t \in Calls, Read(t), Grows, NEW u \in Calls
  PROVE  Gathered(u)'
<1>0. TypeOK /\ PerCall(t) /\ Gathered(t) /\ Gathered(u) /\ before[t] \subseteq library
  BY DEF IInv, LInv, Kept
<1>1. /\ UNCHANGED <<pc, outcome, mine, result, omitted, before, library, shares, garbled>>
      /\ pc[t] \in {"created", "shared"} /\ answer[t] = "none"
  BY DEF Read, serverVars, historyVars
<1>2. CASE answer' = [answer EXCEPT ![t] = "expired"] /\ page' = page
  <2>1. CASE u = t
    <3>1. answer'[t] = "expired" /\ outcome'[t] = "none"
      BY <1>0, <1>1, <1>2 DEF TypeOK, PerCall, Made
    <3>2. pc[t] = "shared" => \A c \in before[t] \ shares : c \in mine[t] \/ Hidden(c)'
      BY <1>0 DEF Gathered, Grows, TypeOK
    <3> QED BY <1>0, <1>1, <2>1, <3>1, <3>2 DEF Gathered
  <2>2. CASE u # t
    <3>1. SameList(u)
      BY <1>0, <1>1, <1>2, <2>2 DEF SameList, TypeOK
    <3> QED BY <1>0, <3>1, SameGathered
  <2> QED BY <2>1, <2>2
<1>3. ASSUME NEW entries \in SUBSET Listed(t),
             entries = Listed(t) \/ Cardinality(entries) >= Room,
             answer' = [answer EXCEPT ![t] = "ok"], page' = [page EXCEPT ![t] = entries]
      PROVE  Gathered(u)'
  <2>1. ASSUME NEW c \in before[t], c \in shares <=> pc[t] = "shared", c \notin entries
        PROVE  Crowded(c)
    <3>1. Listed(t) = library \intersect (IF c \in shares THEN shares ELSE Changing \ shares)
      BY <2>1, Zenon DEF Listed
    <3>2. c \in Listed(t)
      BY <1>0, <2>1, <3>1 DEF TypeOK
    <3>3. IsFiniteSet(Listed(t))
      BY <1>0, <3>1, CloudAssumption, FS_Subset DEF TypeOK
    <3>4. entries # Listed(t)
      BY <2>1, <3>2
    <3>5. /\ Cardinality(entries) \in Nat /\ Cardinality(Listed(t)) \in Nat
          /\ Cardinality(entries) <= Cardinality(Listed(t))
          /\ Cardinality(entries) # Cardinality(Listed(t))
      BY <3>3, <3>4, FS_Subset, FS_CardinalityType
    <3>6. Cardinality(Listed(t)) > Room
      BY <1>3, <3>4, <3>5, CloudAssumption
    <3> QED BY <3>1, <3>6 DEF Crowded
  <2>2. entries \subseteq library
    BY DEF Listed
  <2>3. CASE u = t
    <3>1. answer'[t] = "ok" /\ page'[t] = entries /\ outcome'[t] = "none"
      BY <1>0, <1>1, <1>3 DEF TypeOK, PerCall, Made
    <3>2. \A c \in before[t] : (c \in shares <=> pc[t] = "shared") => c \in entries \/ Crowded(c)'
      BY <1>0, <2>1 DEF Grows, TypeOK
    <3>3. pc[t] = "shared" =>
            mine[t] \subseteq library /\ \A c \in before[t] \ shares : c \in mine[t] \/ Hidden(c)'
      BY <1>0 DEF Gathered, Grows, TypeOK
    <3> QED BY <1>1, <2>2, <2>3, <3>1, <3>2, <3>3 DEF Gathered
  <2>4. CASE u # t
    <3>1. SameList(u)
      BY <1>0, <1>1, <1>3, <2>4 DEF SameList, TypeOK
    <3> QED BY <1>0, <3>1, SameGathered
  <2> QED BY <2>3, <2>4
<1> QED BY <1>2, <1>3 DEF Read, Answered

\* The other answers of the server bring no list.
LEMMA ServeGathers ==
  ASSUME IInv, LInv, NEW t \in Calls, Handle(t) \/ Mint(t) \/ Lose(t), Grows, NEW u \in Calls
  PROVE  Gathered(u)'
<1>0. TypeOK /\ PerCall(t) /\ Gathered(t) /\ Gathered(u)
  BY DEF IInv, LInv
<1>1. /\ UNCHANGED <<pc, outcome, page, mine, result, omitted, before>>
      /\ pc[t] \in Requests
      /\ \E what \in Answers : answer' = [answer EXCEPT ![t] = what]
      /\ pc[t] \in {"created", "shared"} => answer'[t] # "ok"
  <2>1. CASE Handle(t)
    BY <2>1 DEF Handle, Answered, Answers, Requests, historyVars
  <2>2. CASE Mint(t)
    BY <2>2 DEF Mint, Answered, Answers, Requests
  <2>3. CASE Lose(t)
    <3>1. PICK what \in {"error", "timeout"} : answer' = [answer EXCEPT ![t] = what]
      BY <2>3 DEF Lose, Answered
    <3> QED BY <1>0, <2>3, <3>1 DEF Lose, Answers, historyVars, TypeOK
  <2> QED BY <2>1, <2>2, <2>3
<1>2. CASE u = t
  <2>1. outcome'[t] = "none"
    BY <1>0, <1>1 DEF PerCall, Made, Requests
  <2>2. pc[t] = "shared" =>
          mine[t] \subseteq library' /\ \A c \in before[t] \ shares : c \in mine[t] \/ Hidden(c)'
    BY <1>0 DEF Gathered, Grows, TypeOK
  <2> QED BY <1>1, <1>2, <2>1, <2>2 DEF Gathered, Grows
<1>3. CASE u # t
  <2>1. SameList(u)
    BY <1>0, <1>1, <1>3 DEF SameList, TypeOK
  <2> QED BY <1>0, <2>1, SameGathered
<1> QED BY <1>2, <1>3

LEMMA StepLInv == IInv /\ IInv' /\ LInv /\ [Next]_vars => LInv'
<1> SUFFICES ASSUME IInv, IInv', LInv, [Next]_vars PROVE LInv'
  OBVIOUS
<1>1. Kept'
  BY KeptNext DEF LInv
<1>2. Grows
  BY LibraryGrows DEF IInv
<1>3. ASSUME NEW u \in Calls PROVE Gathered(u)'
  <2>0. TypeOK /\ Gathered(u)
    BY DEF IInv, LInv
  <2>1. CASE Lapse
    <3>1. SameList(u)
      BY <2>1 DEF Lapse, SameList, clientVars
    <3> QED BY <1>2, <2>0, <3>1, SameGathered
  <2>2. CASE UNCHANGED vars
    <3>1. SameList(u)
      BY <2>2 DEF SameList, vars, clientVars, historyVars
    <3> QED BY <1>2, <2>0, <3>1, SameGathered
  <2>3. ASSUME NEW t \in Calls, Run(t) PROVE Gathered(u)'
    BY <1>2, <2>3, CallGathers, ChangedGathers, CreatedGathers, SharedGathers, LoggedInGathers DEF Run
  <2>4. ASSUME NEW t \in Calls, Serve(t) PROVE Gathered(u)'
    BY <1>2, <2>4, ReadGathers, ServeGathers DEF Serve
  <2> QED BY <2>1, <2>2, <2>3, <2>4 DEF Next
<1> QED BY <1>1, <1>3 DEF LInv

LEMMA Lists == Spec => []LInv
  BY KeptInit, StepLInv, Invariant, PTL DEF Spec

\* XBloomCloudClient.list_recipes: the recipes returned show nothing that was not
\* made, and leave out of what had returned before the call only what does not
\* parse, what is beyond the page and, if their request failed, the shared recipes.
THEOREM ListIsCurrent == Spec => []ListsOwnWrites
<1>1. LInv => ListsOwnWrites
  BY CloudAssumption DEF LInv, Gathered, Hidden, ListsOwnWrites
<1> QED BY <1>1, Lists, PTL
=============================================================================
