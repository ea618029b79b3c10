------------------------------- MODULE Captcha -------------------------------
(***************************************************************************)
(* The captcha: challenges and their single use on the server              *)
(* (altcha.service.ts, altcha.guard.ts, replay-store.ts), the widget of    *)
(* the forms (altcha-widget.tsx: sign-in, registration, forgotten          *)
(* password, photos) and the solver the other forms call when they send    *)
(* (use-altcha-auto.ts: comments, corrections, events, local information). *)
(*                                                                         *)
(* A form shows its widget, which fetches a challenge and solves it; the   *)
(* solution goes with the request, which the guard verifies, then claims.  *)
(* A request may be repeated on its way, and its answer may be lost.       *)
(***************************************************************************)
EXTENDS Integers, FiniteSets

CONSTANTS
    Form,       \* forms open at once
    Challenge,  \* challenges, each signed with a salt of its own
    Slot,       \* requests under way at once
    NoSolution, \* no payload
    Life,       \* ALTCHA_CHALLENGE_TTL_SECONDS
    Margin,     \* how much longer a claim is kept
    MaxWait,    \* how long a request may take from verification to claim
    MaxNow      \* bound on time

ASSUME NoSolutionAssumption == NoSolution \notin Form \cup Challenge
ASSUME MarginAssumption == {Life, Margin, MaxWait, MaxNow} \subseteq Nat /\ MaxWait < Margin

VARIABLES
    now,
    born,      \* when each challenge was made, 0 if it was not
    claimed,   \* altcha:used:<signature>: when the key expires
    request,   \* the requests that carry a solution
    form,      \* what each form shows and holds
    passed,    \* history: how many requests each solution let in
    repeated,  \* history: solutions whose request was repeated on its way
    turned     \* history: solutions a form was refused as used already

captchaVars == <<now, born, claimed, request, form, passed, repeated, turned>>

NoRequest == [step |-> "none", of |-> NoSolution, at |-> 0, from |-> NoSolution]

\* The widget checks, has verified or falls back to the one to click on; "auto" is
\* a form without widget that solves before it sends.  payload is what the widget
\* holds, copy what its form was told of.
Closed == [mode |-> "closed", fetched |-> NoSolution, payload |-> NoSolution,
           copy |-> NoSolution, sending |-> FALSE]

Checking == [Closed EXCEPT !.mode = "checking"]

CaptchaInit ==
    /\ now = 1
    /\ born = [c \in Challenge |-> 0]
    /\ claimed = [c \in Challenge |-> 0]
    /\ request = [q \in Slot |-> NoRequest]
    /\ form = [f \in Form |-> Closed]
    /\ passed = [c \in Challenge |-> 0]
    /\ repeated = {} /\ turned = {}

server == <<born, claimed, request, passed, repeated, turned>>

-----------------------------------------------------------------------------
(* The widget and the solver *)

\* The form is shown, or a file is chosen: the widget begins at once.
OpenForm(f) ==
    /\ form[f].mode = "closed"
    /\ form' = [form EXCEPT ![f] = Checking]
    /\ UNCHANGED now /\ UNCHANGED server

\* A form without widget is sent.
SolveThenSend(f) ==
    /\ form[f].mode = "closed"
    /\ form' = [form EXCEPT ![f] = [Closed EXCEPT !.mode = "auto"]]
    /\ UNCHANGED now /\ UNCHANGED server

FetchChallenge(f, c) ==
    /\ form[f].mode \in {"checking", "fallback", "auto"} /\ ~form[f].sending
    /\ form[f].fetched = NoSolution /\ born[c] = 0
    /\ form' = [form EXCEPT ![f].fetched = c]
    /\ born' = [born EXCEPT ![c] = now]
    /\ UNCHANGED <<now, claimed, request, passed, repeated, turned>>

\* By the solver or by the element of the fallback.
Solved(f) ==
    /\ form[f].mode \in {"checking", "fallback"} /\ form[f].fetched # NoSolution
    /\ form' = [form EXCEPT ![f] = [Closed EXCEPT !.mode = "verified",
                                        !.payload = form[f].fetched, !.copy = form[f].fetched]]
    /\ UNCHANGED now /\ UNCHANGED server

\* No worker, no answer, or no solution in 8 s.  Without a solution the request of a
\* form without widget is refused ("Captcha requis").
NotSolved(f) ==
    /\ form[f].mode \in {"checking", "auto"} /\ ~form[f].sending
    /\ form' = [form EXCEPT ![f] = IF form[f].mode = "auto" THEN Closed
                                   ELSE [Closed EXCEPT !.mode = "fallback"]]
    /\ UNCHANGED now /\ UNCHANGED server

\* The button under the fallback.
RetrySolving(f) ==
    /\ form[f].mode = "fallback"
    /\ form' = [form EXCEPT ![f] = Checking]
    /\ UNCHANGED now /\ UNCHANGED server

\* The member leaves, or drops his file, which unmounts the widget but leaves the
\* form its copy.
CancelForm(f) ==
    /\ form[f].mode \in {"checking", "verified", "fallback"} /\ ~form[f].sending
    /\ form' = [form EXCEPT ![f] = [Closed EXCEPT !.copy = form[f].copy]]
    /\ UNCHANGED now /\ UNCHANGED server

-----------------------------------------------------------------------------
(* Requests *)

GetPayload(f) == IF form[f].mode = "auto" THEN form[f].fetched
                 ELSE IF form[f].payload # NoSolution THEN form[f].payload ELSE form[f].copy

SendForm(f, q) ==
    /\ form[f].mode # "closed" /\ ~form[f].sending
    /\ GetPayload(f) # NoSolution
    /\ request[q] = NoRequest
    /\ request' = [request EXCEPT ![q] = [step |-> "sent", of |-> GetPayload(f),
                                          at |-> 0, from |-> f]]
    /\ form' = [form EXCEPT ![f].sending = TRUE]
    /\ UNCHANGED <<now, born, claimed, passed, repeated, turned>>

\* The same request arrives twice.
Repeat(q, twin) ==
    /\ request[q].step = "sent" /\ request[twin] = NoRequest
    /\ request' = [request EXCEPT ![twin] = [request[q] EXCEPT !.from = NoSolution]]
    /\ repeated' = repeated \cup {request[q].of}
    /\ UNCHANGED <<now, born, claimed, form, passed, turned>>

\* What a form becomes when its request fails: reset() has the widget solve another
\* challenge.
ShownAgain(f) == {IF form[f].mode = "auto" THEN Closed ELSE Checking}

\* A form that is through is closed; a forgotten password always is, unless the
\* answer was 403.
Over == {Closed}

AnswerForm(f, becomes) ==
    IF f = NoSolution THEN UNCHANGED form
    ELSE \E s \in becomes : form' = [form EXCEPT ![f] = s]

\* verifySolution: the signature and the age of the challenge.
VerifySolution(q) ==
    /\ request[q].step = "sent"
    /\ IF now <= born[request[q].of] + Life
       THEN /\ request' = [request EXCEPT ![q].step = "verified", ![q].at = now]
            /\ UNCHANGED form
       ELSE /\ request' = [request EXCEPT ![q] = NoRequest]
            /\ AnswerForm(request[q].from, ShownAgain(request[q].from))
    /\ UNCHANGED <<now, born, claimed, passed, repeated, turned>>

\* Mutant: the mark lives as long as a challenge.
ClaimForLife == now + Life

ClaimedUntil == now + Life + Margin

\* claimOnce, then the handler, which may refuse the rest of the form.
Claim(q) ==
    /\ request[q].step = "verified"
    /\ LET c == request[q].of
           f == request[q].from
       IN IF claimed[c] <= now
          THEN /\ claimed' = [claimed EXCEPT ![c] = ClaimedUntil]
               /\ passed' = [passed EXCEPT ![c] = @ + 1]
               /\ AnswerForm(f, ShownAgain(f) \cup Over)
               /\ UNCHANGED turned
          ELSE /\ turned' = IF f = NoSolution THEN turned ELSE turned \cup {c}
               /\ AnswerForm(f, ShownAgain(f))
               /\ UNCHANGED <<claimed, passed>>
    /\ request' = [request EXCEPT ![q] = NoRequest]
    /\ UNCHANGED <<now, born, repeated>>

\* The connection breaks: the request goes on, its form does not hear of it.
LoseAnswer(q) ==
    /\ request[q].from \in Form
    /\ request' = [request EXCEPT ![q].from = NoSolution]
    /\ AnswerForm(request[q].from, ShownAgain(request[q].from))
    /\ UNCHANGED <<now, born, claimed, passed, repeated, turned>>

\* A request is claimed soon after it was verified.
CaptchaTick ==
    /\ now < MaxNow
    /\ \A q \in Slot : request[q].step = "verified" => now - request[q].at < MaxWait
    /\ now' = now + 1
    /\ UNCHANGED form /\ UNCHANGED server

CaptchaNext ==
    \/ \E f \in Form :
          \/ OpenForm(f) \/ SolveThenSend(f) \/ Solved(f) \/ NotSolved(f)
          \/ RetrySolving(f) \/ CancelForm(f)
          \/ \E c \in Challenge : FetchChallenge(f, c)
          \/ \E q \in Slot : SendForm(f, q)
    \/ \E q \in Slot : VerifySolution(q) \/ Claim(q) \/ LoseAnswer(q)
    \/ \E q, twin \in Slot : Repeat(q, twin)
    \/ CaptchaTick

CaptchaSpec == CaptchaInit /\ [][CaptchaNext]_captchaVars

-----------------------------------------------------------------------------
(* Properties *)

\* "A solution is accepted once" (altcha.service.ts:46): a claim outlives the
\* challenge, whenever two requests with one solution are verified and claimed.
SolutionsServeOnce == \A c \in Challenge : passed[c] <= 1

\* No form sends a solution a second time, however its requests end: it is refused
\* as used only when its request was repeated on the way.
FormsSendFreshSolutions == turned \subseteq repeated

\* A solution is good for one request, and every request has one of its own.
SolutionsWorkOnce == SolutionsServeOnce /\ FormsSendFreshSolutions

=============================================================================
