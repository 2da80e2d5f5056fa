---------------------------- MODULE CloudSession ----------------------------
(***************************************************************************)
(* XBloomCloudSession over XBloomCloudClient: calls that run at once over  *)
(* one stored token, each of which logs in again by itself when the token  *)
(* has expired.  The server is external.  A request is handled by it at    *)
(* some moment and answered at a later one, so that answers can come in    *)
(* another order than that in which the requests were handled.             *)
(***************************************************************************)
EXTENDS Naturals, FiniteSets

CONSTANTS
  Calls,         \* the calls of the session, each made once
  Listing,       \* those of list_recipes; the others create, update or delete
  Changing,      \* those of create_recipe, update_recipe or delete_recipe
  Layouts,       \* pairs: the changes of shared recipes, those of recipes that do not parse
  Room,          \* how many changes the one page asked for shows, beside older recipes
  SingleSession, \* TRUE: the server forgets the other tokens of a member at a login
  MaxLapses      \* bound: tokens the server lets expire

ASSUME CloudAssumption ==
  /\ Listing \union Changing = Calls
  /\ Listing \intersect Changing = {}
  /\ IsFiniteSet(Changing)
  /\ Layouts \subseteq (SUBSET Changing) \X (SUBSET Changing)
  /\ Room \in Nat
  /\ SingleSession \in BOOLEAN
  /\ MaxLapses \in Nat

VARIABLES
  password,  \* the session stores a password
  token,     \* token: the one of the session; tokens are numbered as minted
  persisted, \* what on_token_refreshed was last given
  pc,        \* pc[t]: the request call t awaits
  sentWith,  \* sentWith[t]: the token fn was called with
  retried,   \* retried[t]: it logged in and calls fn again
  answer,    \* answer[t]: what the server answered, "none" if nothing is to be read
  fresh,     \* fresh[t]: the token in the answer to its login
  page,      \* page[t]: the changes shown by the list last answered to it
  mine,      \* mine[t]: those of them, in the created list, that parsed
  result,    \* result[t]: those shown by the recipes returned
  omitted,   \* omitted[t]: the shared list was left out
  outcome,   \* outcome[t]: how it returned or raised
  valid,     \* external: the tokens the server accepts
  minted,    \* external: the token it minted last
  lapses,    \* external: the tokens it let expire
  library,   \* external: the changes it made
  shares,    \* external: the changes of recipes on the shared list
  garbled,   \* external: the changes of recipes _parse_recipe raises for
  executed,  \* history: executed[t], how often it made the change of t
  logins,    \* history: logins[t], how often t asked for a token
  lapsed,    \* history: lapsed[t], the token minted for t was withdrawn
  before     \* history: before[t], the changes that had returned when t was called

clientVars == <<password, token, persisted, pc, sentWith, retried, answer, fresh, page, mine, result,
                omitted, outcome>>
serverVars == <<valid, minted, lapses, library, shares, garbled, executed>>
historyVars == <<logins, lapsed, before>>
vars == <<clientVars, serverVars, historyVars>>

Answers  == {"none", "ok", "expired", "error", "timeout"}
Outcomes == {"none", "ok", "expired", "failed"}
Requests == {"created", "shared", "changing", "login"}

Init ==
  /\ password \in BOOLEAN
  /\ token = 0
  /\ persisted = 0
  /\ pc = [t \in Calls |-> "idle"]
  /\ sentWith = [t \in Calls |-> 0]
  /\ retried = [t \in Calls |-> FALSE]
  /\ answer = [t \in Calls |-> "none"]
  /\ fresh = [t \in Calls |-> 0]
  /\ page = [t \in Calls |-> {}]
  /\ mine = [t \in Calls |-> {}]
  /\ result = [t \in Calls |-> {}]
  /\ omitted = [t \in Calls |-> FALSE]
  /\ outcome = [t \in Calls |-> "none"]
  /\ valid = {0}
  /\ minted = 0
  /\ lapses = 0
  /\ library = {}
  /\ \E layout \in Layouts : shares = layout[1] /\ garbled = layout[2]
  /\ executed = [t \in Calls |-> 0]
  /\ logins = [t \in Calls |-> 0]
  /\ lapsed = [t \in Calls |-> FALSE]
  /\ before = [t \in Calls |-> {}]

-----------------------------------------------------------------------------
(* The calls *)

Await(t, request) ==
  /\ pc' = [pc EXCEPT ![t] = request]
  /\ answer' = [answer EXCEPT ![t] = "none"]

End(t, how) ==
  /\ pc' = [pc EXCEPT ![t] = "done"]
  /\ answer' = [answer EXCEPT ![t] = "none"]
  /\ outcome' = [outcome EXCEPT ![t] = how]

\* fn(member_id, token): the token is read when fn is called, and both
\* requests of a list are sent with it.
CallFn(t, tok) ==
  /\ sentWith' = [sentWith EXCEPT ![t] = tok]
  /\ Await(t, IF t \in Listing THEN "created" ELSE "changing")

Call(t) ==
  /\ pc[t] = "idle"
  /\ CallFn(t, token)
  /\ before' = [before EXCEPT ![t] = {u \in Changing : outcome[u] = "ok"}]
  /\ UNCHANGED <<password, token, persisted, retried, fresh, page, mine, result, omitted, outcome,
                 serverVars, logins, lapsed>>

\* Faulty variant: every failure is taken for an expired token.
AnyFailure == {"expired", "error", "timeout"}

\* The answers that make _call log in again: _raise_for_result found one of the
\* two codes of an expired token.
MeansExpired == {"expired"}

\* The second fn is outside the try of _call.
MayRelogin(t) == ~retried[t]

\* The other members of Answers: an XBloomAPIError, a ClientError or a
\* TimeoutError, which go through to the caller.
Fails(t) ==
  IF answer[t] \in MeansExpired /\ MayRelogin(t)
  THEN IF password
       THEN /\ Await(t, "login")
            /\ logins' = [logins EXCEPT ![t] = @ + 1]
            /\ UNCHANGED outcome
       ELSE End(t, "expired") /\ UNCHANGED logins
  ELSE /\ End(t, IF answer[t] = "expired" THEN "expired" ELSE "failed")
       /\ UNCHANGED logins

\* Faulty variant: a change without a clear answer is taken for made.
AnyAnswer == {"ok", "error", "timeout"}

\* The answers after which a change returns.
Success == {"ok"}

Changed(t) ==
  /\ pc[t] = "changing" /\ answer[t] # "none"
  /\ \/ answer[t] \in Success /\ End(t, "ok") /\ UNCHANGED logins
     \/ answer[t] \notin Success /\ Fails(t)
  /\ UNCHANGED <<password, token, persisted, sentWith, retried, fresh, page, mine, result, omitted,
                 serverVars, lapsed, before>>

\* _list_endpoint: an entry that does not parse is skipped.
Parsed(t) == page[t] \ garbled

Created(t) ==
  /\ pc[t] = "created" /\ answer[t] # "none"
  /\ \/ /\ answer[t] = "ok"
        /\ mine' = [mine EXCEPT ![t] = Parsed(t)]
        /\ Await(t, "shared")
        /\ UNCHANGED <<outcome, logins>>
     \/ answer[t] # "ok" /\ Fails(t) /\ UNCHANGED mine
  /\ UNCHANGED <<password, token, persisted, sentWith, retried, fresh, page, result, omitted,
                 serverVars, lapsed, before>>

\* The failures of the second request that only leave the shared list out.
Omittable == {"error"}

Shared(t) ==
  /\ pc[t] = "shared" /\ answer[t] # "none"
  /\ \/ /\ answer[t] \in {"ok"} \union Omittable
        /\ End(t, "ok")
        /\ result' = [result EXCEPT ![t] = mine[t] \union (IF answer[t] = "ok" THEN Parsed(t) ELSE {})]
        /\ omitted' = [omitted EXCEPT ![t] = answer[t] # "ok"]
        /\ UNCHANGED logins
     \/ /\ answer[t] \notin {"ok"} \union Omittable
        /\ Fails(t)
        /\ UNCHANGED <<result, omitted>>
  /\ UNCHANGED <<password, token, persisted, sentWith, retried, fresh, page, mine, serverVars, lapsed, before>>

\* Faulty variant: the retry uses the token the call began with.
OldToken(t) == sentWith[t]

\* What the retry is called with.
RetryToken(t) == fresh[t]

\* Faulty variant: the login is repeated until it succeeds.
LoginAgain(t) == Await(t, "login") /\ UNCHANGED outcome

\* What login raises goes through to the caller.
LoginFailed(t) == End(t, "failed")

\* _relogin's await is over: the token is stored and handed to the host, and fn
\* is called again; or the login failed, which is never "expired".
LoggedIn(t) ==
  /\ pc[t] = "login" /\ answer[t] # "none"
  /\ \/ /\ answer[t] = "ok"
        /\ token' = fresh[t]
        /\ persisted' = fresh[t]
        /\ retried' = [retried EXCEPT ![t] = TRUE]
        /\ CallFn(t, RetryToken(t))
        /\ UNCHANGED outcome
     \/ /\ answer[t] # "ok"
        /\ LoginFailed(t)
        /\ UNCHANGED <<token, persisted, sentWith, retried>>
  /\ UNCHANGED <<password, fresh, page, mine, result, omitted, serverVars, historyVars>>

-----------------------------------------------------------------------------
(* External: the server *)

Answered(t, what) == answer' = [answer EXCEPT ![t] = what]

\* It handles a change; the answer to one it made may be lost on its way.
Handle(t) ==
  /\ pc[t] = "changing" /\ answer[t] = "none"
  /\ \/ /\ sentWith[t] \in valid
        /\ library' = library \union {t}
        /\ executed' = [executed EXCEPT ![t] = @ + 1]
        /\ \E what \in {"ok", "error", "timeout"} : Answered(t, what)
     \/ /\ sentWith[t] \notin valid
        /\ Answered(t, "expired")
        /\ UNCHANGED <<library, executed>>
  /\ UNCHANGED <<password, token, persisted, pc, sentWith, retried, fresh, page, mine, result, omitted,
                 outcome, valid, minted, lapses, shares, garbled, historyVars>>

\* The changes of the list that t asks for.
Listed(t) == library \intersect (IF pc[t] = "shared" THEN shares ELSE Changing \ shares)

\* It reads a list and sends a page of it: the whole list if there is room, else
\* which entries is up to it.
Read(t) ==
  /\ pc[t] \in {"created", "shared"} /\ answer[t] = "none"
  /\ \/ /\ sentWith[t] \in valid
        /\ Answered(t, "ok")
        /\ \E entries \in SUBSET Listed(t) :
             /\ entries = Listed(t) \/ Cardinality(entries) >= Room
             /\ page' = [page EXCEPT ![t] = entries]
     \/ /\ sentWith[t] \notin valid
        /\ Answered(t, "expired")
        /\ UNCHANGED page
  /\ UNCHANGED <<password, token, persisted, pc, sentWith, retried, fresh, mine, result, omitted, outcome,
                 serverVars, historyVars>>

\* With the new valid, the token minted for t, and no other, is good no longer.
Withdrawn(t) == fresh[t] # 0 /\ fresh[t] \in valid /\ fresh[t] \notin valid'

\* It mints a token; the answer may be lost.
Mint(t) ==
  /\ pc[t] = "login" /\ answer[t] = "none"
  /\ minted' = minted + 1
  /\ valid' = IF SingleSession THEN {minted + 1} ELSE valid \union {minted + 1}
  /\ lapsed' = [u \in Calls |-> lapsed[u] \/ Withdrawn(u)]
  /\ \/ Answered(t, "ok") /\ fresh' = [fresh EXCEPT ![t] = minted + 1]
     \/ Answered(t, "error") /\ UNCHANGED fresh
  /\ UNCHANGED <<password, token, persisted, pc, sentWith, retried, page, mine, result, omitted, outcome,
                 lapses, library, shares, garbled, executed, logins, before>>

\* A request never reaches it.
Lose(t) ==
  /\ pc[t] \in Requests /\ answer[t] = "none"
  /\ \E what \in {"error", "timeout"} : Answered(t, what)
  /\ UNCHANGED <<password, token, persisted, pc, sentWith, retried, fresh, page, mine, result, omitted,
                 outcome, serverVars, historyVars>>

\* It lets a token expire.
Lapse ==
  /\ lapses < MaxLapses
  /\ lapses' = lapses + 1
  /\ \E tok \in valid : valid' = valid \ {tok}
  /\ lapsed' = [t \in Calls |-> lapsed[t] \/ Withdrawn(t)]
  /\ UNCHANGED <<clientVars, minted, library, shares, garbled, executed, logins, before>>

-----------------------------------------------------------------------------
Run(t) == Call(t) \/ Changed(t) \/ Created(t) \/ Shared(t) \/ LoggedIn(t)
Serve(t) == Handle(t) \/ Read(t) \/ Mint(t) \/ Lose(t)

Next == Lapse \/ \E t \in Calls : Run(t) \/ Serve(t)

Spec == Init /\ [][Next]_vars

\* Every request is answered, or fails at its transport's timeout.
FairSpec ==
  Spec /\ \A t \in Calls :
    WF_vars(Changed(t) \/ Created(t) \/ Shared(t) \/ LoggedIn(t)) /\ WF_vars(Serve(t))

-----------------------------------------------------------------------------
(* Properties *)

TypeOK ==
  /\ password \in BOOLEAN /\ token \in Nat /\ persisted \in Nat
  /\ pc \in [Calls -> Requests \union {"idle", "done"}]
  /\ sentWith \in [Calls -> Nat]
  /\ retried \in [Calls -> BOOLEAN]
  /\ answer \in [Calls -> Answers]
  /\ fresh \in [Calls -> Nat]
  /\ page \in [Calls -> SUBSET Changing]
  /\ mine \in [Calls -> SUBSET Changing]
  /\ result \in [Calls -> SUBSET Changing]
  /\ omitted \in [Calls -> BOOLEAN]
  /\ outcome \in [Calls -> Outcomes]
  /\ valid \subseteq Nat /\ minted \in Nat /\ lapses \in Nat
  /\ library \subseteq Changing /\ shares \subseteq Changing /\ garbled \subseteq Changing
  /\ executed \in [Calls -> Nat]
  /\ logins \in [Calls -> Nat]
  /\ lapsed \in [Calls -> BOOLEAN]
  /\ before \in [Calls -> SUBSET Changing]

\* However a call is retried, a recipe is not created twice: what _call sends
\* again the server had turned down.  And what returns was made.
MadeAtMostOnce ==
  \A t \in Changing : executed[t] <= 1 /\ (outcome[t] = "ok" => executed[t] = 1)

\* A caller told that the session expired, who asks for the credentials and makes
\* the change again, does not make it twice: the server had turned down all it got.
ExpiredMeansUndone ==
  \A t \in Changing : outcome[t] = "expired" => executed[t] = 0

\* The caller is asked for the credentials again only when the session has no
\* password: not if it has one, unless the very token minted for the call was
\* let expire, or displaced by the login of another call.
AskedOnlyWithoutPassword ==
  \A t \in Calls : outcome[t] = "expired" => ~password \/ lapsed[t]

\* The list with the change c holds more than its page shows.
Crowded(c) ==
  Cardinality(library \intersect (IF c \in shares THEN shares ELSE Changing \ shares)) > Room

\* list_recipes shows what was made, and every change that had returned before
\* it was called, however the three calls were retried; only these are missing
\* without a word: what does not parse, what is beyond the page of 100, and the
\* shared recipes when their request failed.
ListsOwnWrites ==
  \A t \in Listing : outcome[t] = "ok" =>
    /\ result[t] \subseteq library
    /\ \A c \in before[t] \ result[t] :
         c \in garbled \/ Crowded(c) \/ (c \in shares /\ omitted[t])

\* "Re-logging-in once on expiry": every call ends, and asks for one token.
OneLogin == \A t \in Calls : logins[t] <= 1
CallsEnd == \A t \in Calls : pc[t] \in Requests ~> pc[t] = "done"
=============================================================================
