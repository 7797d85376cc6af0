---------------------------- MODULE KisReadOnlySmoke ----------------------------
(***************************************************************************)
(* The manual read-only smoke of the broker's HTTP interface: what the      *)
(* script asks for before it calls, the client's cached token, the calls    *)
(* one after the other, and how their failures are collected.  The server   *)
(* answers every call as it likes.  A failure the client knows is collected *)
(* and the smoke goes on; any other exception ends it.                      *)
(***************************************************************************)
EXTENDS Integers, Sequences, SequencesExt, FiniteSets

CONSTANTS
    None,
    Runs,           \* command lines with configuration and environment
    Responses       \* what the server may answer

VARIABLES
    run,            \* the command line
    pc,             \* "main", the next check, "summary" or "end"
    token,          \* whether the client has cached a token
    calls,          \* the requests sent, with their answers
    result,         \* what the checks found
    report          \* the summary printed: outcome, stage and exit code

vars == <<run, pc, token, calls, result, report>>

-----------------------------------------------------------------------------
(* Before any call.                                                          *)

ValidTimeout(t) == t \in {None, "positive"}
Modes(r) == {m \in {"run", "dry-run", "check-config-only"} : m \in r.flags}
ResolveMode(r) == IF Cardinality(Modes(r)) > 1 THEN None ELSE IF Modes(r) = {} THEN "none" ELSE CHOOSE m \in Modes(r) : TRUE

EnvPresent(r, name) == name \in r.environ

(* The keys, and the account where the balance will be asked for. *)
BuildEnvPreflight(r) ==
    /\ EnvPresent(r, "app_key") /\ EnvPresent(r, "app_secret")
    /\ r.useIsa => EnvPresent(r, "isa_account")

Printed(outcome, stage, http) ==
    [outcome |-> outcome, stage |-> stage, http |-> http, code |-> IF outcome = "PASS" THEN 0 ELSE 1]

Ended(r) == pc' = "end" /\ report' = r /\ UNCHANGED <<run, token, calls, result>>

Main ==
    /\ pc = "main"
    /\ IF ~ValidTimeout(run.timeout) \/ ResolveMode(run) = None THEN Ended(Printed("FAIL", "input", FALSE))
       ELSE IF ~run.configOk THEN Ended(Printed("FAIL", "config", FALSE))
       ELSE IF ResolveMode(run) = "none" THEN Ended(Printed("PASS", None, FALSE))
       ELSE IF ~BuildEnvPreflight(run) THEN Ended(Printed("FAIL", "env", FALSE))
       ELSE IF ResolveMode(run) # "run" THEN Ended(Printed("PASS", None, FALSE))
       ELSE pc' = "token" /\ UNCHANGED <<run, token, calls, result, report>>

-----------------------------------------------------------------------------
(* One request and what becomes of its answer: "ok", "known" for an error of *)
(* the client's, "escapes" for any other exception.                          *)

EnsureSuccessResponse(a) ==
    IF ~a.success \/ a.json = "none" THEN "known"
    ELSE IF a.json = "object" /\ a.rt \notin {None, "0"} THEN "known"
    ELSE "ok"

(* What every parser does with a body that passed: a list fails an           *)
(* assertion, an absent field is an error of the client's, a value that is   *)
(* no number escapes.                                                        *)
ParseBody(a) ==
    IF a.json # "object" THEN "escapes"
    ELSE IF a.field = "missing" THEN "known" ELSE IF a.field = "unreadable" THEN "escapes" ELSE "ok"

ParseAccessTokenResponse(a) == IF a.json # "object" THEN "escapes" ELSE IF a.field = "missing" THEN "known" ELSE "ok"
ParseBalanceCash(a) == ParseBody(a)
ParseDomesticPrice(a) == ParseBody(a)
ParseDomesticOrderbook(a) == ParseBody(a)

Parse(step, a) ==
    CASE step = "token" -> ParseAccessTokenResponse(a) [] step = "balance" -> ParseBalanceCash(a)
      [] step = "quote" -> ParseDomesticPrice(a) [] step = "orderbook" -> ParseDomesticOrderbook(a)

(* A transport that cannot connect raises past the client. *)
Outcome(step, a) ==
    IF ~a.reached THEN "escapes"
    ELSE IF EnsureSuccessResponse(a) # "ok" THEN "known" ELSE Parse(step, a)

(* The account number must be long enough to be split. *)
SplitAccountNumber == run.accountLong

-----------------------------------------------------------------------------
(* The checks of the smoke, in order.                                        *)

Following(step) == CASE step = "token" -> "balance" [] step = "balance" -> "quote" [] step = "quote" -> "orderbook" [] step = "orderbook" -> "summary"

NoResult == [ok |-> {}, errors |-> <<>>, isa |-> "UNKNOWN"]

(* The result after a check that was answered with outcome o. *)
Collected(step, o) ==
    [ok |-> IF o = "ok" THEN result.ok \cup {step} ELSE result.ok,
     errors |-> IF o = "known" THEN Append(result.errors, step) ELSE result.errors,
     isa |-> IF step # "balance" THEN result.isa ELSE IF o = "ok" THEN "SUPPORTED" ELSE "UNSUPPORTED"]

(* An exception the client does not know leaves the smoke check. *)
Escaped == pc' = "end" /\ report' = Printed("FAIL", "http", TRUE)

IssueAccessToken ==
    /\ pc = "token"
    /\ \E a \in Responses :
        /\ calls' = Append(calls, [step |-> "token", answer |-> a])
        /\ token' = (Outcome("token", a) = "ok")
        /\ IF Outcome("token", a) = "escapes" THEN Escaped /\ UNCHANGED result
           ELSE /\ result' = Collected("token", Outcome("token", a))
                /\ pc' = IF Outcome("token", a) = "ok" THEN "balance" ELSE "summary"
                /\ UNCHANGED report
    /\ UNCHANGED run

(* The cached token is used as long as the process lives. *)
EnsureToken(answered) == IF token THEN answered ELSE answered \o <<[step |-> "token", answer |-> None]>>

(* The balance is left out without the tax-advantaged account; an account    *)
(* number that cannot be split is an error before the request.               *)
GetBalance ==
    /\ pc = "balance"
    /\ IF ~run.useIsa
       THEN pc' = "quote" /\ result' = [result EXCEPT !.isa = "SKIPPED"] /\ UNCHANGED <<calls, report>>
       ELSE IF ~SplitAccountNumber
       THEN pc' = "quote" /\ result' = Collected("balance", "known") /\ calls' = EnsureToken(calls) /\ UNCHANGED report
       ELSE \E a \in Responses :
            /\ calls' = Append(EnsureToken(calls), [step |-> "balance", answer |-> a])
            /\ IF Outcome("balance", a) = "escapes" THEN Escaped /\ UNCHANGED result
               ELSE pc' = "quote" /\ result' = Collected("balance", Outcome("balance", a)) /\ UNCHANGED report
    /\ UNCHANGED <<run, token>>

(* The current price, then the order book. *)
GetMarketData(step) ==
    /\ pc = step
    /\ \E a \in Responses :
        /\ calls' = Append(EnsureToken(calls), [step |-> step, answer |-> a])
        /\ IF Outcome(step, a) = "escapes" THEN Escaped /\ UNCHANGED result
           ELSE pc' = Following(step) /\ result' = Collected(step, Outcome(step, a)) /\ UNCHANGED report
    /\ UNCHANGED <<run, token>>

(* Mutant: the balance does not count. *)
SmokePassedMarket(res, r) == {"token", "quote", "orderbook"} \subseteq res.ok

SmokePassed(res, r) ==
    /\ {"token", "quote", "orderbook"} \subseteq res.ok
    /\ r.useIsa => res.isa = "SKIPPED" \/ "balance" \in res.ok

Summary ==
    /\ pc = "summary"
    /\ pc' = "end"
    /\ report' = IF SmokePassed(result, run) THEN Printed("PASS", None, TRUE) ELSE Printed("FAIL", "http", TRUE)
    /\ UNCHANGED <<run, token, calls, result>>

Init ==
    /\ run \in Runs /\ pc = "main" /\ token = FALSE /\ calls = <<>> /\ result = NoResult /\ report = None

Next == Main \/ IssueAccessToken \/ GetBalance \/ (\E step \in {"quote", "orderbook"} : GetMarketData(step)) \/ Summary

Spec == Init /\ [][Next]_vars

-----------------------------------------------------------------------------
Answered(step) == \E i \in DOMAIN calls : calls[i].step = step /\ Outcome(step, calls[i].answer) = "ok"

(* A run that exits with 0 after calling out got a good answer to every call *)
(* it needed, the balance included where the account is used, and collected  *)
(* no error (run_read_only_smoke_check, _smoke_passed).                      *)
PassMeansAnswered ==
    report # None => (report.code = 0 /\ report.http =>
        /\ \A step \in {"token", "quote", "orderbook"} : Answered(step)
        /\ run.useIsa => Answered("balance")
        /\ result.errors = <<>>)

(* A run that fails in its summary says why: there is a collected error.     *)
FailIsExplained == pc = "summary" /\ ~SmokePassed(result, run) => result.errors # <<>>

(* The token is asked for once, before everything else, whatever fails after *)
(* it, and nothing is asked for without one.                                 *)
OneTokenFirst ==
    /\ Cardinality({i \in DOMAIN calls : calls[i].step = "token"}) <= 1
    /\ calls # <<>> => calls[1].step = "token"
    /\ Len(calls) > 1 => Outcome("token", calls[1].answer) = "ok"

(* The report never hides a call, and no call is made for a command line     *)
(* that did not ask for one or lacks a credential the calls need.            *)
CallsAsReported ==
    /\ report # None => (report.http <=> calls # <<>>)
    /\ calls # <<>> => Modes(run) = {"run"} /\ (run.useIsa => "isa_account" \in run.environ)
==============================================================================
