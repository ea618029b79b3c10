------------------------- MODULE ContributionsProofs -------------------------
(***************************************************************************)
(* Proofs about what members contribute: a solution of a captcha is good   *)
(* for one request (Captcha), local information is public only once it was *)
(* approved, and copies and proposals are no more than the calls at once   *)
(* (Community), the default list stays (Lists), and the administrators'    *)
(* pages offer what is done and told (AdminPages).  Each part has its      *)
(* types, an inductive invariant in named conjuncts, a lemma for each      *)
(* conjunct with one step per action, and the theorems at its end.         *)
(***************************************************************************)
EXTENDS AdminPages, Captcha, Community, Lists, FiniteSetTheorems, TLAPS

-----------------------------------------------------------------------------
(* Captcha *)

Solution == Challenge \cup {NoSolution}

FormState == [mode : {"closed", "checking", "fallback", "verified", "auto"},
              fetched : Solution, payload : Solution, copy : Solution, sending : BOOLEAN]

RequestState == [step : {"none", "sent", "verified"}, of : Solution,
                 at : Nat, from : Form \cup {NoSolution}]

CaptchaTypeOK ==
    /\ now \in Nat
    /\ born \in [Challenge -> Nat]
    /\ claimed \in [Challenge -> Nat]
    /\ passed \in [Challenge -> Nat]
    /\ request \in [Slot -> RequestState]
    /\ form \in [Form -> FormState]

\* A request that is not under way carries nothing; one that was verified was so
\* recently, while its challenge was good.
RequestInv(q) ==
    /\ request[q].step = "none" => request[q] = NoRequest
    /\ request[q].step # "none" => request[q].of \in Challenge /\ born[request[q].of] > 0
    /\ request[q].step = "verified" =>
        /\ request[q].at <= now /\ now - request[q].at <= MaxWait
        /\ request[q].at <= born[request[q].of] + Life

\* A claim outlives its challenge by the margin.
ClaimsInv ==
    /\ now > 0
    /\ \A c \in Challenge :
        /\ born[c] <= now
        /\ claimed[c] > 0 => born[c] > 0
        /\ passed[c] <= 1
        /\ passed[c] = 1 => born[c] > 0 /\ claimed[c] >= born[c] + Life + Margin
    /\ \A q \in Slot : RequestInv(q)

Carries(q, c) == request[q].step # "none" /\ request[q].of = c
Holds(f, c) == c \in {form[f].fetched, form[f].payload, form[f].copy}

\* What a form may hold in each of its modes.
ModesInv ==
    \A f \in Form :
        /\ form[f].sending => form[f].mode \in {"auto", "verified"}
        /\ form[f].mode \in {"checking", "fallback"} => form[f].payload = NoSolution
           /\ form[f].copy = NoSolution

\* What a form that is not sending holds never left it, and no other form holds it.
FormsHold ==
    \A f \in Form, c \in Challenge : Holds(f, c) =>
        /\ born[c] > 0
        /\ \A g \in Form : Holds(g, c) => f = g
        /\ ~form[f].sending => claimed[c] = 0 /\ \A q \in Slot : ~Carries(q, c)

\* A request whose form waits is the only one of its form.
FormsWait ==
    \A q \in Slot : request[q].step # "none" /\ request[q].from # NoSolution =>
        /\ form[request[q].from].sending
        /\ Holds(request[q].from, request[q].of)
        /\ \A p \in Slot : request[p].step # "none" /\ request[p].from = request[q].from
           => p = q

\* A solution that was not repeated is in one request, and nobody has claimed it.
CarriedOnce ==
    \A c \in Challenge \ repeated, q \in Slot : Carries(q, c) =>
        /\ claimed[c] = 0
        /\ \A p \in Slot : Carries(p, c) => p = q

HoldersInv == FormsHold /\ FormsWait /\ CarriedOnce

CaptchaInv == CaptchaTypeOK /\ ClaimsInv /\ ModesInv /\ HoldersInv /\ FormsSendFreshSolutions

\* The form whose request has ended holds nothing, and the others are as they were.
Released(f) ==
    /\ form' \in [Form -> FormState]
    /\ \A g \in Form : IF g = f THEN form'[g] \in {Closed, Checking} ELSE form'[g] = form[g]

\* A form that is closed or checks holds nothing.
LEMMA FormStates ==
    /\ Closed \in FormState /\ Checking \in FormState
    /\ \A s \in {Closed, Checking} : /\ s.mode \in {"closed", "checking"} /\ ~s.sending
                                     /\ s.fetched = NoSolution /\ s.payload = NoSolution
                                        /\ s.copy = NoSolution
<1>1. /\ Closed \in FormState
      /\ Closed.mode = "closed" /\ ~Closed.sending
      /\ Closed.fetched = NoSolution /\ Closed.payload = NoSolution /\ Closed.copy = NoSolution
  BY DEF Closed, FormState, Solution
<1>2. /\ Checking \in FormState
      /\ Checking.mode = "checking" /\ ~Checking.sending
      /\ Checking.fetched = NoSolution /\ Checking.payload = NoSolution
         /\ Checking.copy = NoSolution
  BY <1>1 DEF Checking, FormState, Solution
<1> QED
  BY <1>1, <1>2

\* An answer releases the form it is for.
LEMMA AnswersRelease ==
    ASSUME CaptchaTypeOK, NEW f \in Form \cup {NoSolution},
           NEW becomes \in SUBSET {Closed, Checking},
           AnswerForm(f, becomes)
    PROVE  Released(f)
<1> USE NoSolutionAssumption DEF CaptchaTypeOK, Released, AnswerForm
<1>1. CASE f = NoSolution
  BY <1>1
<1>2. CASE f \in Form
  <2>1. PICK s \in {Closed, Checking} : form' = [form EXCEPT ![f] = s]
    BY <1>2
  <2> QED
    BY <1>2, <2>1, FormStates
<1> QED
  BY <1>1, <1>2

\* The requests that end, or are no longer waited for, release their form.
LEMMA RequestsRelease ==
    ASSUME CaptchaTypeOK, NEW q \in Slot
    PROVE  /\ VerifySolution(q) /\ ~(now <= born[request[q].of] + Life)
              => Released(request[q].from)
           /\ Claim(q) => Released(request[q].from)
           /\ LoseAnswer(q) => Released(request[q].from)
<1>1. request[q].from \in Form \cup {NoSolution}
  BY DEF CaptchaTypeOK, RequestState
<1>2. \A f : ShownAgain(f) \in SUBSET {Closed, Checking}
      /\ (ShownAgain(f) \cup Over) \in SUBSET {Closed, Checking}
  BY DEF ShownAgain, Over
<1>3. \A S \in SUBSET {Closed, Checking} : AnswerForm(request[q].from, S)
      => Released(request[q].from)
  BY <1>1, AnswersRelease
<1>4. ASSUME VerifySolution(q), ~(now <= born[request[q].of] + Life)
      PROVE  Released(request[q].from)
  BY <1>2, <1>3, <1>4 DEF VerifySolution
<1>5. ASSUME Claim(q) PROVE Released(request[q].from)
  BY <1>2, <1>3, <1>5 DEF Claim
<1>6. ASSUME LoseAnswer(q) PROVE Released(request[q].from)
  BY <1>2, <1>3, <1>6 DEF LoseAnswer
<1> QED
  BY <1>4, <1>5, <1>6

\* No step leaves the types of the captcha.
LEMMA CaptchaTypesKept == CaptchaTypeOK /\ [CaptchaNext]_captchaVars => CaptchaTypeOK'
<1> SUFFICES ASSUME CaptchaTypeOK, [CaptchaNext]_captchaVars PROVE CaptchaTypeOK'
  OBVIOUS
<1> USE MarginAssumption, FormStates
        DEF CaptchaTypeOK, FormState, RequestState, Solution, server, NoRequest
<1>1. ASSUME NEW f \in Form, OpenForm(f) PROVE CaptchaTypeOK'
  BY <1>1 DEF OpenForm
<1>2. ASSUME NEW f \in Form, SolveThenSend(f) PROVE CaptchaTypeOK'
  BY <1>2 DEF SolveThenSend
<1>3. ASSUME NEW f \in Form, Solved(f) PROVE CaptchaTypeOK'
  BY <1>3 DEF Solved
<1>4. ASSUME NEW f \in Form, NotSolved(f) PROVE CaptchaTypeOK'
  BY <1>4 DEF NotSolved
<1>5. ASSUME NEW f \in Form, RetrySolving(f) PROVE CaptchaTypeOK'
  BY <1>5 DEF RetrySolving
<1>6. ASSUME NEW f \in Form, CancelForm(f) PROVE CaptchaTypeOK'
  BY <1>6 DEF CancelForm
<1>7. ASSUME NEW f \in Form, NEW c \in Challenge, FetchChallenge(f, c) PROVE CaptchaTypeOK'
  <2>1. form' \in [Form -> FormState]
    <3> DEFINE held == [form[f] EXCEPT !.fetched = c]
    <3>1. form[f] \in FormState
      OBVIOUS
    <3>2. held \in FormState
      BY <3>1
    <3>3. form' = [form EXCEPT ![f] = held]
      BY <1>7 DEF FetchChallenge
    <3> HIDE DEF held
    <3> QED
      BY <3>2, <3>3
  <2>2. born' \in [Challenge -> Nat] /\ UNCHANGED <<now, claimed, request, passed, repeated, turned>>
    BY <1>7 DEF FetchChallenge
  <2> QED
    BY <2>1, <2>2
<1>8. ASSUME NEW f \in Form, NEW q \in Slot, SendForm(f, q) PROVE CaptchaTypeOK'
  BY <1>8 DEF SendForm, GetPayload
<1>9. ASSUME NEW q \in Slot, VerifySolution(q) PROVE CaptchaTypeOK'
  <2>1. CASE now <= born[request[q].of] + Life
    BY <1>9, <2>1 DEF VerifySolution
  <2>2. CASE ~(now <= born[request[q].of] + Life)
    <3>1. Released(request[q].from)
      BY <1>9, <2>2, RequestsRelease
    <3>2. /\ request' = [request EXCEPT ![q] = NoRequest]
          /\ UNCHANGED <<now, born, claimed, passed>>
      BY <1>9, <2>2 DEF VerifySolution
    <3> QED
      BY <3>1, <3>2 DEF Released
  <2> QED
    BY <2>1, <2>2
<1>10. ASSUME NEW q \in Slot, Claim(q) PROVE CaptchaTypeOK'
  <2>1. Released(request[q].from)
    BY <1>10, RequestsRelease
  <2> QED
    BY <1>10, <2>1 DEF Claim, Released, ClaimedUntil
<1>11. ASSUME NEW q \in Slot, LoseAnswer(q) PROVE CaptchaTypeOK'
  <2>1. Released(request[q].from)
    BY <1>11, RequestsRelease
  <2> QED
    BY <1>11, <2>1 DEF LoseAnswer, Released
<1>12. ASSUME NEW q \in Slot, NEW twin \in Slot, Repeat(q, twin) PROVE CaptchaTypeOK'
  BY <1>12 DEF Repeat
<1>13. CASE CaptchaTick
  BY <1>13 DEF CaptchaTick
<1>14. CASE UNCHANGED captchaVars
  BY <1>14 DEF captchaVars
<1> QED
  BY <1>1, <1>2, <1>3, <1>4, <1>5, <1>6, <1>7, <1>8, <1>9, <1>10, <1>11, <1>12, <1>13, <1>14
     DEF CaptchaNext

\* The widget and its form agree: only what has a solution is sent, and a widget that
\* checks again holds none.
LEMMA ModesKept == CaptchaTypeOK /\ ModesInv /\ [CaptchaNext]_captchaVars => ModesInv'
<1> SUFFICES ASSUME CaptchaTypeOK /\ ModesInv, [CaptchaNext]_captchaVars PROVE ModesInv'
  OBVIOUS
<1> USE FormStates DEF CaptchaTypeOK, FormState, Solution, server, ModesInv
<1>1. ASSUME NEW f \in Form, OpenForm(f) PROVE ModesInv'
  BY <1>1 DEF OpenForm
<1>2. ASSUME NEW f \in Form, SolveThenSend(f) PROVE ModesInv'
  BY <1>2 DEF SolveThenSend
<1>3. ASSUME NEW f \in Form, Solved(f) PROVE ModesInv'
  BY <1>3 DEF Solved
<1>4. ASSUME NEW f \in Form, NotSolved(f) PROVE ModesInv'
  BY <1>4 DEF NotSolved
<1>5. ASSUME NEW f \in Form, RetrySolving(f) PROVE ModesInv'
  BY <1>5 DEF RetrySolving
<1>6. ASSUME NEW f \in Form, CancelForm(f) PROVE ModesInv'
  BY <1>6 DEF CancelForm, Closed
<1>7. ASSUME NEW f \in Form, NEW c \in Challenge, FetchChallenge(f, c) PROVE ModesInv'
  BY <1>7 DEF FetchChallenge
<1>8. ASSUME NEW f \in Form, NEW q \in Slot, SendForm(f, q) PROVE ModesInv'
  BY <1>8 DEF SendForm, GetPayload
<1>9. ASSUME NEW q \in Slot, VerifySolution(q) PROVE ModesInv'
  <2>1. CASE now <= born[request[q].of] + Life
    BY <1>9, <2>1 DEF VerifySolution
  <2>2. CASE ~(now <= born[request[q].of] + Life)
    <3>1. Released(request[q].from)
      BY <1>9, <2>2, RequestsRelease
    <3> QED
      BY <1>9, <2>2, <3>1 DEF VerifySolution, Released
  <2> QED
    BY <2>1, <2>2
<1>10. ASSUME NEW q \in Slot, Claim(q) PROVE ModesInv'
  <2>1. Released(request[q].from)
    BY <1>10, RequestsRelease
  <2> QED
    BY <1>10, <2>1 DEF Claim, Released, ClaimedUntil
<1>11. ASSUME NEW q \in Slot, LoseAnswer(q) PROVE ModesInv'
  <2>1. Released(request[q].from)
    BY <1>11, RequestsRelease
  <2> QED
    BY <1>11, <2>1 DEF LoseAnswer, Released
<1>12. ASSUME NEW q \in Slot, NEW twin \in Slot, Repeat(q, twin) PROVE ModesInv'
  BY <1>12 DEF Repeat
<1>13. CASE CaptchaTick
  BY <1>13 DEF CaptchaTick
<1>14. CASE UNCHANGED captchaVars
  BY <1>14 DEF captchaVars
<1> QED
  BY <1>1, <1>2, <1>3, <1>4, <1>5, <1>6, <1>7, <1>8, <1>9, <1>10, <1>11, <1>12, <1>13, <1>14
     DEF CaptchaNext

\* A claim lives longer than the requests verified with it: whoever claims after the
\* first finds the key, since the margin exceeds the time from verification to claim.
LEMMA ClaimsKept ==
    CaptchaTypeOK /\ ClaimsInv /\ HoldersInv /\ [CaptchaNext]_captchaVars
        => ClaimsInv'
<1> SUFFICES ASSUME CaptchaTypeOK /\ ClaimsInv /\ HoldersInv, [CaptchaNext]_captchaVars
             PROVE  ClaimsInv'
  OBVIOUS
<1> USE MarginAssumption, NoSolutionAssumption
        DEF CaptchaTypeOK, RequestState, Solution, server, NoRequest, ClaimsInv, RequestInv
<1>1. ASSUME NEW f \in Form, OpenForm(f) PROVE ClaimsInv'
  BY <1>1 DEF OpenForm
<1>2. ASSUME NEW f \in Form, SolveThenSend(f) PROVE ClaimsInv'
  BY <1>2 DEF SolveThenSend
<1>3. ASSUME NEW f \in Form, Solved(f) PROVE ClaimsInv'
  BY <1>3 DEF Solved
<1>4. ASSUME NEW f \in Form, NotSolved(f) PROVE ClaimsInv'
  BY <1>4 DEF NotSolved
<1>5. ASSUME NEW f \in Form, RetrySolving(f) PROVE ClaimsInv'
  BY <1>5 DEF RetrySolving
<1>6. ASSUME NEW f \in Form, CancelForm(f) PROVE ClaimsInv'
  BY <1>6 DEF CancelForm
<1>7. ASSUME NEW f \in Form, NEW c \in Challenge, FetchChallenge(f, c) PROVE ClaimsInv'
  BY <1>7 DEF FetchChallenge
<1>8. ASSUME NEW f \in Form, NEW q \in Slot, SendForm(f, q) PROVE ClaimsInv'
  <2>1. GetPayload(f) \in Challenge /\ Holds(f, GetPayload(f))
    BY <1>8 DEF SendForm, GetPayload, Holds, CaptchaTypeOK, FormState, Solution
  <2>2. born[GetPayload(f)] > 0
    BY <2>1 DEF HoldersInv, FormsHold
  <2> HIDE DEF HoldersInv
  <2> QED
    BY <1>8, <2>1, <2>2 DEF SendForm
<1>9. ASSUME NEW q \in Slot, VerifySolution(q) PROVE ClaimsInv'
  <2>1. \A p \in Slot : p # q => request'[p] = request[p]
    BY <1>9 DEF VerifySolution
  <2>2. RequestInv(q)'
    <3>1. CASE now <= born[request[q].of] + Life
      BY <1>9, <3>1 DEF VerifySolution
    <3>2. CASE ~(now <= born[request[q].of] + Life)
      BY <1>9, <3>2 DEF VerifySolution
    <3> QED
      BY <3>1, <3>2
  <2>3. UNCHANGED <<now, born, claimed, passed>>
    BY <1>9 DEF VerifySolution
  <2> QED
    BY <2>1, <2>2, <2>3
<1>10. ASSUME NEW q \in Slot, Claim(q) PROVE ClaimsInv'
  <2>1. \A p \in Slot : RequestInv(p)'
    BY <1>10 DEF Claim
  <2>2. CASE claimed[request[q].of] <= now
    <3> DEFINE c == request[q].of
    <3>1. /\ c \in Challenge
          /\ born[c] > 0
          /\ now <= born[c] + Life + MaxWait
      BY <1>10 DEF Claim
    <3>2. passed[c] = 0
      <4>1. ~(claimed[c] >= born[c] + Life + Margin)
        BY <2>2, <3>1
      <4> QED
        BY <3>1, <4>1
    <3>3. /\ passed' = [passed EXCEPT ![c] = @ + 1]
          /\ claimed' = [claimed EXCEPT ![c] = now + Life + Margin]
          /\ UNCHANGED <<now, born>>
      BY <1>10, <2>2 DEF Claim, ClaimedUntil
    <3> HIDE DEF c
    <3> QED
      BY <2>1, <3>1, <3>2, <3>3
  <2>3. CASE ~(claimed[request[q].of] <= now)
    BY <1>10, <2>1, <2>3 DEF Claim
  <2> QED
    BY <2>2, <2>3
<1>11. ASSUME NEW q \in Slot, LoseAnswer(q) PROVE ClaimsInv'
  <2>1. /\ request' = [request EXCEPT ![q].from = NoSolution]
        /\ UNCHANGED <<now, born, claimed, passed>>
    BY <1>11 DEF LoseAnswer
  <2>2. request[q].step # "none"
    BY <1>11 DEF LoseAnswer
  <2> QED
    BY <2>1, <2>2
<1>12. ASSUME NEW q \in Slot, NEW twin \in Slot, Repeat(q, twin) PROVE ClaimsInv'
  BY <1>12 DEF Repeat
<1>13. CASE CaptchaTick
  BY <1>13 DEF CaptchaTick
<1>14. CASE UNCHANGED captchaVars
  BY <1>14 DEF captchaVars
<1> QED
  BY <1>1, <1>2, <1>3, <1>4, <1>5, <1>6, <1>7, <1>8, <1>9, <1>10, <1>11, <1>12, <1>13, <1>14
     DEF CaptchaNext

\* What a form holds stays its own until it sends it, the request it waits for carries what it holds,
\* and what was not repeated is carried once.
LEMMA HoldersKept ==
    CaptchaTypeOK /\ ClaimsInv /\ ModesInv /\ HoldersInv /\ [CaptchaNext]_captchaVars
        => HoldersInv'
<1> SUFFICES ASSUME CaptchaTypeOK /\ ClaimsInv /\ ModesInv
                    /\ HoldersInv, [CaptchaNext]_captchaVars
             PROVE  HoldersInv'
  OBVIOUS
<1> USE FormStates, NoSolutionAssumption
        DEF CaptchaTypeOK, RequestState, Solution, server, NoRequest, ClaimsInv, RequestInv,
            ModesInv, HoldersInv, FormsHold, FormsWait, CarriedOnce, Holds, Carries
<1>1. ASSUME NEW f \in Form, OpenForm(f) PROVE HoldersInv'
  BY <1>1 DEF OpenForm
<1>2. ASSUME NEW f \in Form, SolveThenSend(f) PROVE HoldersInv'
  BY <1>2 DEF SolveThenSend
<1>3. ASSUME NEW f \in Form, Solved(f) PROVE HoldersInv'
  BY <1>3 DEF Solved
<1>4. ASSUME NEW f \in Form, NotSolved(f) PROVE HoldersInv'
  BY <1>4 DEF NotSolved
<1>5. ASSUME NEW f \in Form, RetrySolving(f) PROVE HoldersInv'
  BY <1>5 DEF RetrySolving
<1>6. ASSUME NEW f \in Form, CancelForm(f) PROVE HoldersInv'
  BY <1>6 DEF CancelForm
<1>7. ASSUME NEW f \in Form, NEW c \in Challenge, FetchChallenge(f, c) PROVE HoldersInv'
  <2>1. /\ \A g \in Form : ~Holds(g, c)
        /\ \A q \in Slot : ~Carries(q, c)
        /\ claimed[c] = 0
    BY <1>7 DEF FetchChallenge, ClaimsInv, RequestInv, HoldersInv, FormsHold
  <2>2. /\ form' = [form EXCEPT ![f].fetched = c]
        /\ ~form[f].sending /\ form[f].fetched = NoSolution
        /\ born' = [born EXCEPT ![c] = now] /\ now > 0
        /\ UNCHANGED <<request, claimed, repeated>>
    BY <1>7 DEF FetchChallenge, ClaimsInv
  <2> QED
    BY <2>1, <2>2 DEF FormState
<1>8. ASSUME NEW f \in Form, NEW q \in Slot, SendForm(f, q) PROVE HoldersInv'
  <2>1. GetPayload(f) \in Challenge /\ Holds(f, GetPayload(f))
    BY <1>8 DEF SendForm, GetPayload, FormState
  <2>2. /\ request' = [request EXCEPT ![q] = [step |-> "sent", of |-> GetPayload(f), at |-> 0, from |-> f]]
        /\ form' = [form EXCEPT ![f].sending = TRUE]
        /\ ~form[f].sending /\ request[q] = NoRequest
        /\ UNCHANGED <<born, claimed, repeated>>
    BY <1>8 DEF SendForm
  <2>3. /\ claimed[GetPayload(f)] = 0
        /\ \A p \in Slot : ~Carries(p, GetPayload(f))
        /\ \A p \in Slot : request[p].step # "none" => request[p].from # f
    BY <2>1, <2>2 DEF HoldersInv, FormsHold, FormsWait
  <2> HIDE DEF GetPayload
  <2> QED
    BY <2>1, <2>2, <2>3 DEF FormState
<1>9. ASSUME NEW q \in Slot, VerifySolution(q) PROVE HoldersInv'
  <2>1. CASE now <= born[request[q].of] + Life
    <3>1. /\ request' = [request EXCEPT ![q].step = "verified", ![q].at = now]
          /\ request[q].step = "sent"
          /\ UNCHANGED <<form, born, claimed, repeated>>
      BY <1>9, <2>1 DEF VerifySolution
    <3> QED
      BY <3>1
  <2>2. CASE ~(now <= born[request[q].of] + Life)
    <3>1. Released(request[q].from)
      BY <1>9, <2>2, RequestsRelease
    <3>2. /\ request' = [request EXCEPT ![q] = NoRequest]
          /\ request[q].step = "sent"
          /\ UNCHANGED <<born, claimed, repeated>>
      BY <1>9, <2>2 DEF VerifySolution
    <3>3. \A p \in Slot, c \in Challenge : Carries(p, c)' => Carries(p, c)
      BY <3>2
    <3>4. \A g \in Form, c \in Challenge : Holds(g, c)' => Holds(g, c) /\ form'[g] = form[g]
      BY <3>1 DEF Released
    <3> QED
      BY <3>1, <3>2, <3>3, <3>4 DEF Released
  <2> QED
    BY <2>1, <2>2
<1>10. ASSUME NEW q \in Slot, Claim(q) PROVE HoldersInv'
  <2>1. Released(request[q].from)
    BY <1>10, RequestsRelease
  <2>2. /\ request' = [request EXCEPT ![q] = NoRequest]
        /\ request[q].step = "verified"
        /\ \A c \in Challenge : c # request[q].of => claimed'[c] = claimed[c]
        /\ UNCHANGED <<born, repeated>>
    BY <1>10 DEF Claim
  <2>3. \A p \in Slot, c \in Challenge : Carries(p, c)' => Carries(p, c) /\ p # q
    BY <2>2
  <2>4. \A g \in Form, c \in Challenge : Holds(g, c)' =>
            Holds(g, c) /\ form'[g] = form[g] /\ g # request[q].from
    BY <2>1 DEF Released
  <2>5. FormsHold'
    BY <2>2, <2>3, <2>4
  <2>6. FormsWait'
    BY <2>1, <2>2 DEF Released
  <2>7. CarriedOnce'
    BY <2>2, <2>3
  <2> QED
    BY <2>5, <2>6, <2>7
<1>11. ASSUME NEW q \in Slot, LoseAnswer(q) PROVE HoldersInv'
  <2>1. Released(request[q].from)
    BY <1>11, RequestsRelease
  <2>2. /\ request' = [request EXCEPT ![q].from = NoSolution]
        /\ request[q].from \in Form
        /\ UNCHANGED <<born, claimed, repeated>>
    BY <1>11 DEF LoseAnswer
  <2>3. \A p \in Slot : /\ request'[p].step = request[p].step /\ request'[p].of = request[p].of
                       /\ request'[p].from = IF p = q THEN NoSolution ELSE request[p].from
    BY <2>2
  <2>4. \A p \in Slot, c \in Challenge : Carries(p, c)' <=> Carries(p, c)
    BY <2>3
  <2>5. \A g \in Form, c \in Challenge : Holds(g, c)' =>
            Holds(g, c) /\ form'[g] = form[g] /\ g # request[q].from
    BY <2>1 DEF Released
  <2>6. \A g \in Form : g # request[q].from => form'[g] = form[g]
    BY <2>1 DEF Released
  <2>7. FormsHold'
    BY <2>2, <2>4, <2>5
  <2>8. FormsWait'
    BY <2>2, <2>3, <2>6
  <2>9. CarriedOnce'
    BY <2>2, <2>4
  <2> QED
    BY <2>7, <2>8, <2>9
<1>12. ASSUME NEW q \in Slot, NEW twin \in Slot, Repeat(q, twin) PROVE HoldersInv'
  BY <1>12 DEF Repeat
<1>13. CASE CaptchaTick
  BY <1>13 DEF CaptchaTick
<1>14. CASE UNCHANGED captchaVars
  BY <1>14 DEF captchaVars
<1> QED
  BY <1>1, <1>2, <1>3, <1>4, <1>5, <1>6, <1>7, <1>8, <1>9, <1>10, <1>11, <1>12, <1>13, <1>14
     DEF CaptchaNext

\* A form is refused as used only when its request was repeated: a claimed solution
\* that is still carried by a request is in repeated.
LEMMA FreshKept ==
    CaptchaTypeOK /\ ClaimsInv /\ HoldersInv /\ FormsSendFreshSolutions
        /\ [CaptchaNext]_captchaVars
        => FormsSendFreshSolutions'
<1> SUFFICES ASSUME CaptchaTypeOK, ClaimsInv, HoldersInv,
                    FormsSendFreshSolutions, [CaptchaNext]_captchaVars
             PROVE  FormsSendFreshSolutions'
  OBVIOUS
<1> USE DEF FormsSendFreshSolutions
<1>1. ASSUME NEW q \in Slot, Claim(q) PROVE FormsSendFreshSolutions'
  <2>1. CASE claimed[request[q].of] <= now
    BY <1>1, <2>1 DEF Claim
  <2>2. CASE ~(claimed[request[q].of] <= now)
    <3>1. /\ request[q].of \in Challenge
          /\ Carries(q, request[q].of)
      BY <1>1 DEF Claim, ClaimsInv, RequestInv, Carries
    <3>2. claimed[request[q].of] # 0
      BY <2>2, <3>1 DEF CaptchaTypeOK
    <3>3. request[q].of \in repeated
      BY <3>1, <3>2 DEF HoldersInv, CarriedOnce
    <3> QED
      BY <1>1, <2>2, <3>3 DEF Claim
  <2> QED
    BY <2>1, <2>2
<1>2. ASSUME NEW q \in Slot, NEW twin \in Slot, Repeat(q, twin) PROVE FormsSendFreshSolutions'
  BY <1>2 DEF Repeat
<1>3. ASSUME UNCHANGED <<turned, repeated>> PROVE FormsSendFreshSolutions'
  BY <1>3
<1> QED
  BY <1>1, <1>2, <1>3
     DEF CaptchaNext, OpenForm, SolveThenSend, Solved, NotSolved, RetrySolving, CancelForm,
     FetchChallenge, SendForm, VerifySolution, LoseAnswer, CaptchaTick, captchaVars, server

\* The first state is one of them.
LEMMA CaptchaStarts == CaptchaInit => CaptchaInv
<1> SUFFICES ASSUME CaptchaInit PROVE CaptchaInv
  OBVIOUS
<1> USE NoSolutionAssumption DEF CaptchaInit
<1>1. CaptchaTypeOK
  BY FormStates DEF CaptchaTypeOK, RequestState, NoRequest, Solution
<1>2. ClaimsInv
  BY DEF ClaimsInv, RequestInv, NoRequest
<1>3. ModesInv
  BY FormStates DEF ModesInv
<1>4. HoldersInv
  BY FormStates DEF HoldersInv, FormsHold, FormsWait, CarriedOnce, Holds, Carries, NoRequest
<1> QED
  BY <1>1, <1>2, <1>3, <1>4 DEF CaptchaInv, FormsSendFreshSolutions

\* The invariant holds of every behaviour of the captcha, with its type invariant.
THEOREM CaptchaIsInvariant == CaptchaSpec => []CaptchaInv
<1>1. CaptchaInv /\ [CaptchaNext]_captchaVars => CaptchaInv'
  BY CaptchaTypesKept, ModesKept, ClaimsKept, HoldersKept, FreshKept
     DEF CaptchaInv, HoldersInv
<1> QED
  BY CaptchaStarts, <1>1, PTL DEF CaptchaSpec

\* A solution lets one request in at most (altcha.service.ts, claimOnce), and a form is
\* refused as used only when its request was repeated on the way, whatever the number
\* of forms, challenges and requests, and whatever the lifetimes, if a request is
\* claimed within the margin of its verification.
THEOREM SolutionsAreGoodOnce == CaptchaSpec => []SolutionsWorkOnce
<1>1. CaptchaInv => SolutionsWorkOnce
  BY DEF CaptchaInv, ClaimsInv, SolutionsWorkOnce, SolutionsServeOnce
<1> QED
  BY CaptchaIsInvariant, <1>1, PTL

-----------------------------------------------------------------------------
(* A set of what is there, and the set of those who may still add to it *)

\* Two sets that only lose elements stay as small together as they were.
LEMMA FewStayFew ==
    ASSUME NEW D, NEW L, NEW V, NEW D2, NEW L2, IsFiniteSet(D), IsFiniteSet(L), IsFiniteSet(V),
           Cardinality(D) + Cardinality(L) <= Cardinality(V), D2 \subseteq D, L2 \subseteq L
    PROVE  IsFiniteSet(D2) /\ IsFiniteSet(L2)
        /\ Cardinality(D2) + Cardinality(L2) <= Cardinality(V)
<1>1. /\ IsFiniteSet(D2) /\ Cardinality(D2) <= Cardinality(D)
      /\ IsFiniteSet(L2) /\ Cardinality(L2) <= Cardinality(L)
  BY FS_Subset
<1>2. {Cardinality(D), Cardinality(L), Cardinality(V), Cardinality(D2), Cardinality(L2)} \subseteq Nat
  BY <1>1, FS_CardinalityType
<1> QED
  BY <1>1, <1>2

\* What the one gains the other has lost.
LEMMA FewChangePlaces ==
    ASSUME NEW D, NEW L, NEW V, NEW d, NEW l, l \in L, IsFiniteSet(D), IsFiniteSet(L),
           IsFiniteSet(V),
           Cardinality(D) + Cardinality(L) <= Cardinality(V)
    PROVE  /\ IsFiniteSet(D \cup {d}) /\ IsFiniteSet(L \ {l})
           /\ Cardinality(D \cup {d}) + Cardinality(L \ {l}) <= Cardinality(V)
<1>1. /\ IsFiniteSet(D \cup {d})
      /\ Cardinality(D \cup {d}) \in {Cardinality(D), Cardinality(D) + 1}
  BY FS_AddElement
<1>2. /\ IsFiniteSet(L \ {l})
      /\ Cardinality(L \ {l}) = Cardinality(L) - 1
  BY FS_RemoveElement
<1>3. {Cardinality(D), Cardinality(L), Cardinality(V), Cardinality(D \cup {d}), Cardinality(L \ {l})} \subseteq Nat
  BY <1>1, <1>2, FS_CardinalityType
<1> QED
  BY <1>1, <1>2, <1>3

-----------------------------------------------------------------------------
(* Lists *)

Row == [name : Label, isDefault : BOOLEAN]

Steps == {"idle", "create", "oldest", "mark", "answer", "rename", "check", "delete", "add", "remove"}

Known == {made[i] : i \in DOMAIN made}

ListsTypeOK ==
    /\ list \in [List -> Row \cup {Nothing}]
    /\ made \in Seq(List)
    /\ items \in [List -> SUBSET Place]
    /\ task \in [Visitor -> [step : Steps, on : List \cup {Nothing}]]
    /\ rescued \subseteq List
    /\ seen \in BOOLEAN

\* Ids are given once, and what a request has read was there.
IdsInv ==
    /\ \A l \in List : There(l) => l \in Known
    /\ \A r \in Visitor : task[r].step \in {"mark", "rename", "check", "delete", "add", "remove"} => task[r].on \in Known

\* A request that found no default list may make one.
Looking == {r \in Visitor : task[r].step \in {"create", "oldest", "mark"}}

FewDefaultsInv ==
    /\ IsFiniteSet(Defaults)
    /\ Cardinality(Defaults) + Cardinality(Looking) <= Cardinality(Visitor)

\* As long as no list was marked, the default one stays.
DefaultInv ==
    rescued = {} =>
        /\ ~seen
        /\ \A r \in Visitor :
            /\ task[r].step = "answer" => Defaults # {}
            /\ task[r].step = "delete" /\ There(task[r].on) => ~list[task[r].on].isDefault

ListsInv == ListsTypeOK /\ IdsInv /\ FewDefaultsInv /\ DefaultInv

\* What a request has read is a list.
LEMMA IdsAreLists ==
    ASSUME ListsTypeOK, IdsInv, NEW r \in Visitor,
           task[r].step \in {"mark", "rename", "check", "delete", "add", "remove"}
    PROVE  task[r].on \in Known /\ task[r].on \in List
BY DEF ListsTypeOK, IdsInv, Known

\* A list that is made has a new id.
LEMMA MakingALists ==
    ASSUME ListsTypeOK, NEW l \in List, NEW n \in Label, NEW default \in BOOLEAN,
           Make(l, n, default)
    PROVE  /\ ~There(l) /\ l \notin Known /\ Known' = Known \cup {l}
           /\ list' \in [List -> Row \cup {Nothing}] /\ made' \in Seq(List)
           /\ There(l)' /\ list'[l].isDefault = default
           /\ \A k \in List \ {l} : list'[k] = list[k]
<1> USE NothingAssumption DEF ListsTypeOK, Make, Row, There, Known
<1>1. Known' = Known \cup {l}
  <2>1. /\ made' \in Seq(List)
        /\ DOMAIN made' = DOMAIN made \cup {Len(made) + 1}
        /\ \A i \in DOMAIN made : made'[i] = made[i]
        /\ made'[Len(made) + 1] = l
    OBVIOUS
  <2> QED
    BY <2>1
<1> QED
  BY <1>1
\* No step leaves the types of the lists.
LEMMA ListsTypesKept == ListsTypeOK /\ IdsInv /\ [ListsNext]_listsVars => ListsTypeOK'
<1> SUFFICES ASSUME ListsTypeOK /\ IdsInv, [ListsNext]_listsVars PROVE ListsTypeOK'
  OBVIOUS
<1> USE FavorisAssumption DEF ListsTypeOK, Steps, Row, About, Proceed, Leave
<1>1. ASSUME NEW r \in Visitor, FindDefault(r) PROVE ListsTypeOK'
  BY <1>1 DEF FindDefault
<1>2. ASSUME NEW r \in Visitor, FavorisRefused(r) PROVE ListsTypeOK'
  BY <1>2 DEF FavorisRefused
<1>3. ASSUME NEW r \in Visitor, FindOldest(r) PROVE ListsTypeOK'
  BY <1>3 DEF FindOldest, Oldest
<1>4. ASSUME NEW r \in Visitor, MarkDefault(r) PROVE ListsTypeOK'
  <2> DEFINE l == task[r].on
  <2>1. CASE There(l)
    <3>1. l \in List => list[l] \in Row
      BY <2>1 DEF There, Row
    <3>2. /\ list' = [list EXCEPT ![l].isDefault = TRUE]
          /\ rescued' = rescued \cup {l}
          /\ l \in List
          /\ UNCHANGED <<made, items, seen>>
      BY <1>4, <2>1, IdsAreLists DEF MarkDefault
    <3>3. task' \in [Visitor -> [step : Steps, on : List \cup {Nothing}]]
      BY <1>4, <2>1 DEF MarkDefault
    <3> QED
      BY <3>1, <3>2, <3>3
  <2>2. CASE ~There(l)
    BY <1>4, <2>2 DEF MarkDefault
  <2> QED
    BY <2>1, <2>2
<1>5. ASSUME NEW r \in Visitor, AnswerLists(r) PROVE ListsTypeOK'
  BY <1>5 DEF AnswerLists
<1>6. ASSUME NEW r \in Visitor, CheckDefault(r) PROVE ListsTypeOK'
  BY <1>6 DEF CheckDefault
<1>7. ASSUME NEW r \in Visitor, DeleteList(r) PROVE ListsTypeOK'
  BY <1>7 DEF DeleteList
<1>8. ASSUME NEW r \in Visitor, Gone(r) PROVE ListsTypeOK'
  BY <1>8 DEF Gone
<1>9. ASSUME NEW r \in Visitor, NEW l \in List, CreateFavoris(r, l) PROVE ListsTypeOK'
  <2>1. Make(l, Favoris, TRUE)
    BY <1>9 DEF CreateFavoris
  <2> QED
    BY <1>9, <2>1, MakingALists DEF CreateFavoris
<1>10. ASSUME NEW r \in Visitor, NEW l \in List, NEW s \in {"rename", "check", "add", "remove"},
              ReadList(r, l, s)
       PROVE  ListsTypeOK'
  BY <1>10 DEF ReadList
<1>11. ASSUME NEW r \in Visitor, NEW n \in Label, UpdateList(r, n) PROVE ListsTypeOK'
  <2> DEFINE l == task[r].on
  <2>1. list[l] \in Row /\ l \in List
    BY <1>11, IdsAreLists DEF UpdateList, There, Row
  <2>2. list' \in {list, [list EXCEPT ![l].name = n]} /\ UNCHANGED <<made, items, rescued,
        seen>>
    BY <1>11 DEF UpdateList
  <2>3. list' \in [List -> Row \cup {Nothing}]
    BY <2>1, <2>2
  <2> QED
    BY <1>11, <2>2, <2>3 DEF UpdateList
<1>12. ASSUME NEW r \in Visitor, NEW p \in Place, AddItem(r, p) PROVE ListsTypeOK'
  BY <1>12 DEF AddItem
<1>13. ASSUME NEW r \in Visitor, NEW p \in Place, RemoveItem(r, p) PROVE ListsTypeOK'
  BY <1>13 DEF RemoveItem
<1>14. ASSUME NEW l \in List, NEW n \in Label, CreateList(l, n) PROVE ListsTypeOK'
  <2>1. Make(l, n, FALSE)
    BY <1>14 DEF CreateList
  <2> QED
    BY <1>14, <2>1, MakingALists DEF CreateList
<1>15. CASE UNCHANGED listsVars
  BY <1>15 DEF listsVars, Known
<1> QED
  BY <1>1, <1>2, <1>3, <1>4, <1>5, <1>6, <1>7, <1>8, <1>9, <1>10, <1>11, <1>12, <1>13, <1>14, <1>15
     DEF ListsNext

\* Ids are given once.
LEMMA IdsKept == ListsTypeOK /\ IdsInv /\ [ListsNext]_listsVars => IdsInv'
<1> SUFFICES ASSUME ListsTypeOK /\ IdsInv, [ListsNext]_listsVars PROVE IdsInv'
  OBVIOUS
<1> USE FavorisAssumption, NothingAssumption
        DEF ListsTypeOK, IdsInv, Steps, Row, There, About, Proceed, Leave
<1>1. ASSUME NEW r \in Visitor, FindDefault(r) PROVE IdsInv'
  BY <1>1 DEF FindDefault, Known
<1>2. ASSUME NEW r \in Visitor, FavorisRefused(r) PROVE IdsInv'
  BY <1>2 DEF FavorisRefused, Known
<1>3. ASSUME NEW r \in Visitor, FindOldest(r) PROVE IdsInv'
  <2>1. /\ task' \in {[task EXCEPT ![r] = [step |-> "idle", on |-> Nothing]]}
               \cup {[task EXCEPT ![r] = [step |-> "mark", on |-> l]] : l \in Known}
        /\ UNCHANGED <<list, made>>
    BY <1>3 DEF FindOldest, Oldest, Known
  <2> QED
    BY <2>1 DEF Known
<1>4. ASSUME NEW r \in Visitor, MarkDefault(r) PROVE IdsInv'
  BY <1>4 DEF MarkDefault, Known
<1>5. ASSUME NEW r \in Visitor, AnswerLists(r) PROVE IdsInv'
  BY <1>5 DEF AnswerLists, Known
<1>6. ASSUME NEW r \in Visitor, CheckDefault(r) PROVE IdsInv'
  BY <1>6 DEF CheckDefault, Known
<1>7. ASSUME NEW r \in Visitor, DeleteList(r) PROVE IdsInv'
  BY <1>7 DEF DeleteList, Known
<1>8. ASSUME NEW r \in Visitor, Gone(r) PROVE IdsInv'
  BY <1>8 DEF Gone, Known
<1>9. ASSUME NEW r \in Visitor, NEW l \in List, CreateFavoris(r, l) PROVE IdsInv'
  <2>1. Make(l, Favoris, TRUE)
    BY <1>9 DEF CreateFavoris
  <2> QED
    BY <1>9, <2>1, MakingALists DEF CreateFavoris
<1>10. ASSUME NEW r \in Visitor, NEW l \in List, NEW s \in {"rename", "check", "add", "remove"},
              ReadList(r, l, s)
       PROVE  IdsInv'
  BY <1>10 DEF ReadList, Known
<1>11. ASSUME NEW r \in Visitor, NEW n \in Label, UpdateList(r, n) PROVE IdsInv'
  BY <1>11 DEF UpdateList, Known
<1>12. ASSUME NEW r \in Visitor, NEW p \in Place, AddItem(r, p) PROVE IdsInv'
  BY <1>12 DEF AddItem, Known
<1>13. ASSUME NEW r \in Visitor, NEW p \in Place, RemoveItem(r, p) PROVE IdsInv'
  BY <1>13 DEF RemoveItem, Known
<1>14. ASSUME NEW l \in List, NEW n \in Label, CreateList(l, n) PROVE IdsInv'
  <2>1. Make(l, n, FALSE)
    BY <1>14 DEF CreateList
  <2> QED
    BY <1>14, <2>1, MakingALists DEF CreateList
<1>15. CASE UNCHANGED listsVars
  BY <1>15 DEF listsVars, Known
<1> QED
  BY <1>1, <1>2, <1>3, <1>4, <1>5, <1>6, <1>7, <1>8, <1>9, <1>10, <1>11, <1>12, <1>13, <1>14, <1>15
     DEF ListsNext

\* A list becomes the default one for a request that was looking.
LEMMA FewDefaultsKept ==
    ListsTypeOK /\ IdsInv /\ FewDefaultsInv /\ [ListsNext]_listsVars
        => FewDefaultsInv'
<1> SUFFICES ASSUME ListsTypeOK, IdsInv, FewDefaultsInv, [ListsNext]_listsVars
             PROVE  FewDefaultsInv'
  OBVIOUS
<1>a. IsFiniteSet(Looking) /\ IsFiniteSet(Looking') /\ IsFiniteSet(Defaults)
  BY VisitorAssumption, FS_Subset DEF Looking, FewDefaultsInv
<1>b. ASSUME Defaults' \subseteq Defaults, Looking' \subseteq Looking PROVE FewDefaultsInv'
  BY <1>a, <1>b, VisitorAssumption, FewStayFew DEF FewDefaultsInv
<1>c. ASSUME NEW l, NEW r \in Looking, Defaults' \subseteq Defaults \cup {l},
             Looking' \subseteq Looking \ {r}
      PROVE  FewDefaultsInv'
  <2>1. Cardinality(Defaults) + Cardinality(Looking) <= Cardinality(Visitor)
    BY DEF FewDefaultsInv
  <2>2. /\ IsFiniteSet(Defaults')
        /\ Cardinality(Defaults') + Cardinality(Looking') <= Cardinality(Visitor)
    <3>1. /\ IsFiniteSet(Defaults \cup {l}) /\ IsFiniteSet(Looking \ {r})
          /\ Cardinality(Defaults \cup {l}) + Cardinality(Looking \ {r}) <= Cardinality(Visitor)
      BY <1>a, <1>c, <2>1, VisitorAssumption, FewChangePlaces
    <3> QED
      BY <1>c, <3>1, VisitorAssumption, FewStayFew
  <2> QED
    BY <2>2 DEF FewDefaultsInv
<1>d. ASSUME Defaults' = {} PROVE FewDefaultsInv'
  <2>1. Looking' \subseteq Visitor
    BY DEF Looking
  <2>2. Cardinality(Looking') <= Cardinality(Visitor)
    BY <2>1, VisitorAssumption, FS_Subset
  <2>3. Cardinality(Defaults') = 0 /\ IsFiniteSet(Defaults')
    BY <1>d, FS_EmptySet
  <2> QED
    BY <1>a, <2>2, <2>3, FS_CardinalityType DEF FewDefaultsInv
<1> USE DEF ListsTypeOK, About, Proceed, Leave
<1>1. ASSUME NEW r \in Visitor, FindDefault(r) PROVE FewDefaultsInv'
  <2>1. Defaults' = Defaults
    BY <1>1 DEF FindDefault, Defaults, There
  <2>2. CASE Defaults = {}
    BY <1>d, <2>1, <2>2
  <2>3. CASE Defaults # {}
    BY <1>1, <1>b, <2>1, <2>3 DEF FindDefault, Looking
  <2> QED
    BY <2>2, <2>3
<1>2. ASSUME NEW r \in Visitor, FavorisRefused(r) PROVE FewDefaultsInv'
  <2>1. Defaults' \subseteq Defaults
    BY <1>2 DEF FavorisRefused, Defaults, There
  <2>2. Looking' \subseteq Looking
    BY <1>2 DEF FavorisRefused, Looking
  <2> QED
    BY <1>b, <2>1, <2>2
<1>3. ASSUME NEW r \in Visitor, FindOldest(r) PROVE FewDefaultsInv'
  <2>1. Defaults' \subseteq Defaults
    BY <1>3 DEF FindOldest, Defaults, There
  <2>2. Looking' \subseteq Looking
    BY <1>3 DEF FindOldest, Looking
  <2> QED
    BY <1>b, <2>1, <2>2
<1>4. ASSUME NEW r \in Visitor, MarkDefault(r) PROVE FewDefaultsInv'
  <2>1. r \in Looking /\ Looking' \subseteq Looking \ {r}
    BY <1>4 DEF MarkDefault, Looking
  <2>2. Defaults' \subseteq Defaults \cup {task[r].on}
    BY <1>4 DEF MarkDefault, Defaults, There
  <2> QED
    BY <1>c, <2>1, <2>2
<1>5. ASSUME NEW r \in Visitor, AnswerLists(r) PROVE FewDefaultsInv'
  <2>1. Defaults' \subseteq Defaults
    BY <1>5 DEF AnswerLists, Defaults, There
  <2>2. Looking' \subseteq Looking
    BY <1>5 DEF AnswerLists, Looking
  <2> QED
    BY <1>b, <2>1, <2>2
<1>6. ASSUME NEW r \in Visitor, CheckDefault(r) PROVE FewDefaultsInv'
  <2>1. Defaults' \subseteq Defaults
    BY <1>6 DEF CheckDefault, Defaults, There
  <2>2. /\ task'[r].step \in {"idle", "delete"}
        /\ \A q \in Visitor \ {r} : task'[q] = task[q]
    BY <1>6 DEF CheckDefault
  <2>3. Looking' \subseteq Looking
    BY <2>2 DEF Looking
  <2> QED
    BY <1>b, <2>1, <2>3
<1>7. ASSUME NEW r \in Visitor, DeleteList(r) PROVE FewDefaultsInv'
  <2>1. Defaults' \subseteq Defaults
    BY <1>7 DEF DeleteList, Defaults, There
  <2>2. Looking' \subseteq Looking
    BY <1>7 DEF DeleteList, Looking
  <2> QED
    BY <1>b, <2>1, <2>2
<1>8. ASSUME NEW r \in Visitor, Gone(r) PROVE FewDefaultsInv'
  <2>1. Defaults' \subseteq Defaults
    BY <1>8 DEF Gone, Defaults, There
  <2>2. Looking' \subseteq Looking
    BY <1>8 DEF Gone, Looking
  <2> QED
    BY <1>b, <2>1, <2>2
<1>9. ASSUME NEW r \in Visitor, NEW l \in List, CreateFavoris(r, l) PROVE FewDefaultsInv'
  <2>1. r \in Looking /\ Looking' \subseteq Looking \ {r}
    BY <1>9 DEF CreateFavoris, Looking
  <2>2. Defaults' \subseteq Defaults \cup {l}
    BY <1>9, FavorisAssumption, MakingALists DEF CreateFavoris, Defaults, There
  <2> QED
    BY <1>c, <2>1, <2>2
<1>10. ASSUME NEW r \in Visitor, NEW l \in List, NEW s \in {"rename", "check", "add", "remove"},
              ReadList(r, l, s)
       PROVE  FewDefaultsInv'
  <2>1. Defaults' \subseteq Defaults
    BY <1>10 DEF ReadList, Defaults, There
  <2>2. Looking' \subseteq Looking
    BY <1>10 DEF ReadList, Looking
  <2> QED
    BY <1>b, <2>1, <2>2
<1>11. ASSUME NEW r \in Visitor, NEW n \in Label, UpdateList(r, n) PROVE FewDefaultsInv'
  <2>1. Defaults' \subseteq Defaults
    <3>1. \A l \in List : list'[l] # list[l] => list[l] # Nothing
          /\ list'[l].isDefault = list[l].isDefault
      BY <1>11 DEF UpdateList, There, Row
    <3> QED
      BY <3>1 DEF Defaults, There
  <2>2. Looking' \subseteq Looking
    BY <1>11 DEF UpdateList, Looking
  <2> QED
    BY <1>b, <2>1, <2>2
<1>12. ASSUME NEW r \in Visitor, NEW p \in Place, AddItem(r, p) PROVE FewDefaultsInv'
  <2>1. Defaults' \subseteq Defaults
    BY <1>12 DEF AddItem, Defaults, There
  <2>2. Looking' \subseteq Looking
    BY <1>12 DEF AddItem, Looking
  <2> QED
    BY <1>b, <2>1, <2>2
<1>13. ASSUME NEW r \in Visitor, NEW p \in Place, RemoveItem(r, p) PROVE FewDefaultsInv'
  <2>1. Defaults' \subseteq Defaults
    BY <1>13 DEF RemoveItem, Defaults, There
  <2>2. Looking' \subseteq Looking
    BY <1>13 DEF RemoveItem, Looking
  <2> QED
    BY <1>b, <2>1, <2>2
<1>14. ASSUME NEW l \in List, NEW n \in Label, CreateList(l, n) PROVE FewDefaultsInv'
  <2>1. Make(l, n, FALSE) /\ Looking' = Looking
    BY <1>14 DEF CreateList, Looking
  <2>2. Defaults' \subseteq Defaults
    BY <2>1, MakingALists DEF Defaults, There
  <2> QED
    BY <1>b, <2>1, <2>2
<1>15. CASE UNCHANGED listsVars
  BY <1>15, <1>b DEF listsVars, Defaults, Looking, There
<1> QED
  BY <1>1, <1>2, <1>3, <1>4, <1>5, <1>6, <1>7, <1>8, <1>9, <1>10, <1>11, <1>12, <1>13, <1>14, <1>15
     DEF ListsNext

\* As long as no list is marked, the default one is not deleted.
LEMMA DefaultKept == ListsTypeOK /\ IdsInv /\ DefaultInv /\ [ListsNext]_listsVars => DefaultInv'
<1> SUFFICES ASSUME ListsTypeOK /\ IdsInv /\ DefaultInv, [ListsNext]_listsVars PROVE DefaultInv'
  OBVIOUS
<1> USE FavorisAssumption, NothingAssumption
        DEF ListsTypeOK, DefaultInv, There, About, Proceed, Leave
<1>1. ASSUME NEW r \in Visitor, FindDefault(r) PROVE DefaultInv'
  BY <1>1 DEF FindDefault, Defaults
<1>2. ASSUME NEW r \in Visitor, FavorisRefused(r) PROVE DefaultInv'
  BY <1>2 DEF FavorisRefused, Defaults
<1>3. ASSUME NEW r \in Visitor, FindOldest(r) PROVE DefaultInv'
  BY <1>3 DEF FindOldest, Defaults
<1>4. ASSUME NEW r \in Visitor, MarkDefault(r) PROVE DefaultInv'
  <2>1. CASE There(task[r].on)
    <3>1. rescued' # {}
      BY <1>4, <2>1 DEF MarkDefault
    <3> QED
      BY <3>1
  <2>2. CASE ~There(task[r].on)
    BY <1>4, <2>2 DEF MarkDefault, Defaults
  <2> QED
    BY <2>1, <2>2
<1>5. ASSUME NEW r \in Visitor, AnswerLists(r) PROVE DefaultInv'
  BY <1>5 DEF AnswerLists, Defaults
<1>6. ASSUME NEW r \in Visitor, CheckDefault(r) PROVE DefaultInv'
  BY <1>6 DEF CheckDefault, Defaults
<1>7. ASSUME NEW r \in Visitor, DeleteList(r) PROVE DefaultInv'
  <2>1. ASSUME rescued = {} PROVE Defaults' = Defaults
    BY <1>7, <2>1 DEF DeleteList, Defaults
  <2> QED
    BY <1>7, <2>1 DEF DeleteList
<1>8. ASSUME NEW r \in Visitor, Gone(r) PROVE DefaultInv'
  BY <1>8 DEF Gone, Defaults
<1>9. ASSUME NEW r \in Visitor, NEW l \in List, CreateFavoris(r, l) PROVE DefaultInv'
  <2>1. Make(l, Favoris, TRUE)
    BY <1>9 DEF CreateFavoris
  <2>2. l \in Defaults'
    BY <2>1, FavorisAssumption, MakingALists DEF Defaults
  <2>3. \A q \in Visitor : task'[q].step = "delete" =>
            task'[q] = task[q] /\ task[q].on \in List /\ task[q].on # l
    BY <1>9, <2>1, FavorisAssumption, MakingALists, IdsAreLists DEF CreateFavoris
  <2>4. \A k \in List \ {l} : list'[k] = list[k]
    BY <2>1, FavorisAssumption, MakingALists
  <2> QED
    BY <1>9, <2>2, <2>3, <2>4 DEF CreateFavoris
<1>10. ASSUME NEW r \in Visitor, NEW l \in List, NEW s \in {"rename", "check", "add", "remove"},
              ReadList(r, l, s)
       PROVE  DefaultInv'
  BY <1>10 DEF ReadList, Defaults
<1>11. ASSUME NEW r \in Visitor, NEW n \in Label, UpdateList(r, n) PROVE DefaultInv'
  <2>1. \A l \in List : list'[l] # list[l] => list[l] # Nothing /\ list'[l] # Nothing
        /\ list'[l].isDefault = list[l].isDefault
    <3>1. list[task[r].on] \in Row /\ task[r].on \in List
      BY <1>11, IdsAreLists DEF UpdateList, Row
    <3>2. list' \in {list, [list EXCEPT ![task[r].on].name = n]}
      BY <1>11 DEF UpdateList
    <3> QED
      BY <3>1, <3>2 DEF Row
  <2>2. Defaults' = Defaults
    BY <2>1 DEF Defaults
  <2>3. \A q \in Visitor : task[q].step = "delete" => task[q].on \in List
    BY IdsAreLists
  <2> QED
    BY <1>11, <2>1, <2>2, <2>3 DEF UpdateList
<1>12. ASSUME NEW r \in Visitor, NEW p \in Place, AddItem(r, p) PROVE DefaultInv'
  BY <1>12 DEF AddItem, Defaults
<1>13. ASSUME NEW r \in Visitor, NEW p \in Place, RemoveItem(r, p) PROVE DefaultInv'
  BY <1>13 DEF RemoveItem, Defaults
<1>14. ASSUME NEW l \in List, NEW n \in Label, CreateList(l, n) PROVE DefaultInv'
  <2>1. Make(l, n, FALSE) /\ task' = task /\ UNCHANGED <<rescued, seen>>
    BY <1>14 DEF CreateList
  <2>2. Defaults \subseteq Defaults'
    BY <2>1, MakingALists DEF Defaults
  <2>3. There(l)' /\ ~list'[l].isDefault /\ \A k \in List \ {l} : list'[k] = list[k]
    BY <2>1, MakingALists
  <2>4. \A q \in Visitor : task[q].step = "delete" => task[q].on \in List
    BY IdsAreLists
  <2> QED
    BY <2>1, <2>2, <2>3, <2>4
<1>15. CASE UNCHANGED listsVars
  BY <1>15 DEF listsVars, Defaults
<1> QED
  BY <1>1, <1>2, <1>3, <1>4, <1>5, <1>6, <1>7, <1>8, <1>9, <1>10, <1>11, <1>12, <1>13, <1>14, <1>15
     DEF ListsNext

\* The first state is one of them.
LEMMA ListsStart == ListsInit => ListsInv
<1> SUFFICES ASSUME ListsInit PROVE ListsInv
  OBVIOUS
<1>1. Defaults = {} /\ Looking = {}
  BY DEF ListsInit, Defaults, There, Looking, AtRest
<1>2. FewDefaultsInv
  BY <1>1, VisitorAssumption, FS_EmptySet, FS_CardinalityType DEF FewDefaultsInv
<1> QED
  <2>1. ListsTypeOK
    <3>1. made \in Seq(List)
      BY DEF ListsInit
    <3>2. task \in [Visitor -> [step : Steps, on : List \cup {Nothing}]]
      BY DEF ListsInit, AtRest, Steps
    <3> QED
      BY <3>1, <3>2 DEF ListsInit, ListsTypeOK
  <2>2. IdsInv
    BY DEF ListsInit, IdsInv, There, AtRest
  <2>3. DefaultInv
    BY DEF ListsInit, DefaultInv, AtRest
  <2> QED
    BY <1>2, <2>1, <2>2, <2>3 DEF ListsInv

\* The invariant holds of every behaviour of the lists, with its type invariant.
THEOREM ListsAreInvariant == ListsSpec => []ListsInv
<1>1. ListsInv /\ [ListsNext]_listsVars => ListsInv'
  BY ListsTypesKept, IdsKept, FewDefaultsKept, DefaultKept DEF ListsInv
<1> QED
  BY ListsStart, <1>1, PTL DEF ListsSpec

\* Never more default lists than requests at once, and every answer has one, unless a
\* list was marked while its deletion was under way (list.service.ts,
\* ensureDefaultFavorites), for any number of requests, lists, names and aerodromes.
THEOREM TheDefaultListStays == ListsSpec => []TheDefaultStays
<1>1. ListsInv => TheDefaultStays
  <2> SUFFICES ASSUME ListsInv PROVE TheDefaultStays
    OBVIOUS
  <2>1. Looking \subseteq Visitor
    BY DEF Looking
  <2>2. {Cardinality(Defaults), Cardinality(Looking), Cardinality(Visitor)} \subseteq Nat
    BY <2>1, VisitorAssumption, FS_Subset, FS_CardinalityType DEF ListsInv, FewDefaultsInv
  <2>3. DefaultsAreFew
    BY <2>2 DEF ListsInv, FewDefaultsInv, DefaultsAreFew
  <2>4. AnswersHaveADefault
    BY DEF ListsInv, DefaultInv, AnswersHaveADefault
  <2> QED
    BY <2>3, <2>4 DEF TheDefaultStays
<1> QED
  BY ListsAreInvariant, <1>1, PTL

-----------------------------------------------------------------------------
(* Community *)

Entry == [of : Nat, key : Reported, member : Pilot, on : Nat,
          status : {"PENDING", "APPROVED", "REJECTED"}, reviewed : BOOLEAN]

Keys == Reported \cup {Waiting.key}
Members == Pilot \cup {Waiting.member}

Call == [pc : {"idle", "propose", "newest", "copy", "review"}, entry : Nat, key : Keys, member : Members,
         on : Nat, verdict : {"PENDING", "APPROVED", "REJECTED"}]

CommunityTypeOK ==
    /\ info \in Seq(Entry)
    /\ ask \in [Ask -> Call]
    /\ day \in Nat

\* What a call has read, as far as it stays true.
CallsInv ==
    \A c \in Ask :
        /\ ask[c].pc \in {"newest", "copy", "review"} => ask[c].entry \in DOMAIN info
        /\ ask[c].pc \in {"newest", "copy"} =>
            /\ ask[c].key = info[ask[c].entry].key
            /\ info[ask[c].entry].of \in vetted
        /\ ask[c].pc \in {"propose", "copy"} => ask[c].key \in Reported /\ ask[c].on <= day
        /\ ask[c].pc \in {"propose", "newest", "copy"} => ask[c].member \in Pilot
        /\ ask[c].pc = "review" => ask[c].verdict # "PENDING"

\* No day of the future, nothing public that was never approved.
RowsInv == \A n \in DOMAIN info : info[n].on <= day /\ (info[n].status = "APPROVED"
    => info[n].of \in vetted)

\* The copies of a day, and the calls about to write one.
Copies(k, d) == {n \in DOMAIN info : /\ info[n].status = "APPROVED" /\ info[n].key = k
                                     /\ info[n].on = d /\ ~info[n].reviewed}
Copying(k, d) == {c \in Ask : ask[c].pc = "copy" /\ ask[c].key = k /\ ask[c].on = d}

FewCopiesInv ==
    \A k \in Reported, d \in Nat
        : Cardinality(Copies(k, d)) + Cardinality(Copying(k, d)) <= Cardinality(Ask)

\* A member's proposals of one key, and the calls about to write one.
Pending(k, m) == {n \in DOMAIN info : info[n].key = k /\ info[n].member = m
    /\ info[n].status = "PENDING"}
Proposing(k, m) == {c \in Ask : ask[c].pc = "propose" /\ ask[c].key = k /\ ask[c].member = m}

FewProposalsInv ==
    \A k \in Reported, m \in Pilot :
        Cardinality(Pending(k, m)) + Cardinality(Proposing(k, m)) <= Cardinality(Ask)

CommunityInv == CommunityTypeOK /\ CallsInv /\ RowsInv /\ FewCopiesInv /\ FewProposalsInv

\* A row that is written comes last and leaves the others alone.
LEMMA RowIsLast ==
    ASSUME CommunityTypeOK, NEW x \in Entry, info' = Append(info, x)
    PROVE  /\ info' \in Seq(Entry)
           /\ DOMAIN info' = DOMAIN info \cup {Len(info) + 1}
           /\ Len(info) + 1 \notin DOMAIN info
           /\ info'[Len(info) + 1] = x
           /\ \A n \in DOMAIN info : info'[n] = info[n]
BY DEF CommunityTypeOK

\* A call that waits for nothing is a call.
LEMMA WaitingIsACall == Waiting \in Call /\ Waiting.pc = "idle"
BY DEF Waiting, Call, Keys, Members

\* A row is one of the known keys and members.
LEMMA RowsAreEntries ==
    ASSUME CommunityTypeOK, NEW n \in DOMAIN info
    PROVE  /\ n \in Nat /\ info[n] \in Entry
           /\ info[n].key \in Reported /\ info[n].member \in Pilot /\ info[n].on \in Nat
<1>1. n \in Nat /\ info[n] \in Entry
  BY DEF CommunityTypeOK
<1> QED
  BY <1>1 DEF Entry

\* A new proposal, and a copy.
LEMMA WrittenRows ==
    ASSUME CommunityTypeOK, CallsInv, NEW c \in Ask
    PROVE  /\ ProposeCreate(c) =>
               \E x \in Entry : /\ info' = Append(info, x)
                                /\ x.key = ask[c].key /\ x.member = ask[c].member
                                /\ x.on = ask[c].on /\ x.status = "PENDING"
           /\ ConfirmCreate(c) =>
               \E x \in Entry : /\ info' = Append(info, x)
                                /\ x.key = ask[c].key /\ x.on = ask[c].on
                                /\ x.of \in vetted /\ x.status = "APPROVED" /\ ~x.reviewed
<1> USE DEF CommunityTypeOK, CallsInv
<1>1. ASSUME ProposeCreate(c)
      PROVE  \E x \in Entry : /\ info' = Append(info, x)
                              /\ x.key = ask[c].key /\ x.member = ask[c].member
                              /\ x.on = ask[c].on /\ x.status = "PENDING"
  <2> DEFINE x == [of |-> Len(info) + 1, key |-> ask[c].key, member |-> ask[c].member,
                   on |-> ask[c].on, status |-> "PENDING", reviewed |-> FALSE]
  <2>1. x \in Entry
    BY <1>1 DEF ProposeCreate, Entry, Call
  <2>2. info' = Append(info, x)
    BY <1>1 DEF ProposeCreate
  <2> QED
    BY <2>1, <2>2
<1>2. ASSUME ConfirmCreate(c)
      PROVE  \E x \in Entry : /\ info' = Append(info, x)
                              /\ x.key = ask[c].key /\ x.on = ask[c].on
                              /\ x.of \in vetted /\ x.status = "APPROVED" /\ ~x.reviewed
  <2> DEFINE x == [info[ask[c].entry] EXCEPT !.member = ask[c].member, !.on = ask[c].on,
                                             !.status = "APPROVED", !.reviewed = FALSE]
  <2>1. info[ask[c].entry] \in Entry /\ ask[c].pc = "copy"
    BY <1>2 DEF ConfirmCreate
  <2>2. x \in Entry
    BY <2>1 DEF Entry, Call
  <2>3. info' = Append(info, x)
    BY <1>2 DEF ConfirmCreate
  <2>4. x.key = ask[c].key /\ x.on = ask[c].on /\ x.of \in vetted /\ x.status = "APPROVED"
        /\ ~x.reviewed
    BY <2>1 DEF Entry
  <2> QED
    BY <2>2, <2>3, <2>4
<1> QED
  BY <1>1, <1>2

\* A review changes the status of one row.
LEMMA ReviewedRow ==
    ASSUME CommunityTypeOK, CallsInv, NEW c \in Ask, ReviewWrite(c)
    PROVE  \E e \in DOMAIN info, v \in {"APPROVED", "REJECTED"} :
              /\ info' \in Seq(Entry) /\ DOMAIN info' = DOMAIN info
              /\ \A n \in DOMAIN info : n # e => info'[n] = info[n]
              /\ info'[e].status = v /\ info'[e].reviewed
              /\ info'[e].of = info[e].of /\ info'[e].key = info[e].key
              /\ info'[e].member = info[e].member /\ info'[e].on = info[e].on
              /\ vetted' = IF v = "APPROVED" THEN vetted \cup {info[e].of} ELSE vetted
<1> DEFINE e == ask[c].entry
           v == ask[c].verdict
<1> USE DEF CommunityTypeOK
<1>1. e \in DOMAIN info /\ v \in {"APPROVED", "REJECTED"} /\ info[e] \in Entry
  BY DEF CallsInv, ReviewWrite, Call
<1>2. /\ info' = [info EXCEPT ![e].status = v, ![e].reviewed = TRUE]
      /\ vetted' = IF v = "APPROVED" THEN vetted \cup {info[e].of} ELSE vetted
  BY DEF ReviewWrite
<1> DEFINE x == [info[e] EXCEPT !.status = v, !.reviewed = TRUE]
<1>3. /\ x \in Entry /\ x.status = v /\ x.reviewed /\ x.of = info[e].of /\ x.key = info[e].key
      /\ x.member = info[e].member /\ x.on = info[e].on
  BY <1>1 DEF Entry
<1> HIDE DEF e, v
<1>4. info' = [info EXCEPT ![e] = x]
  BY <1>1, <1>2
<1> HIDE DEF x
<1>5. info' \in Seq(Entry) /\ DOMAIN info' = DOMAIN info /\ info'[e] = x
      /\ \A n \in DOMAIN info : n # e => info'[n] = info[n]
  BY <1>1, <1>3, <1>4
<1> QED
  BY <1>1, <1>2, <1>3, <1>5

\* No step leaves the types; what calls have read stays true, and nothing is public that was
\* never approved, and no row is of the future.
Readings == CommunityTypeOK /\ CallsInv /\ RowsInv

LEMMA ReadingsKept == Readings /\ [CommunityNext]_communityVars => Readings'
<1> SUFFICES ASSUME CommunityTypeOK, CallsInv, RowsInv, [CommunityNext]_communityVars
             PROVE  CommunityTypeOK' /\ CallsInv' /\ RowsInv'
  BY DEF Readings
<1>1. ASSUME NEW c \in Ask, NEW m \in Pilot, NEW k \in Reported, NEW d \in 0 .. MaxDay,
             ProposeCheck(c, m, k, d)
      PROVE  CommunityTypeOK' /\ CallsInv' /\ RowsInv'
  <2> DEFINE x == [Waiting EXCEPT !.pc = "propose", !.key = k, !.member = m, !.on = d]
  <2>1. x \in Call /\ x.pc = "propose" /\ x.key = k /\ x.member = m /\ x.on = d
    <3>1. k \in Keys /\ m \in Members /\ d \in Nat
      BY CommunityAssumption DEF Keys, Members
    <3> QED
      BY <3>1, WaitingIsACall DEF Call
  <2>2. /\ ask' = [ask EXCEPT ![c] = x] /\ d <= day /\ ask[c].pc = "idle"
        /\ UNCHANGED <<info, day, vetted>>
        /\ ~ \E n \in DOMAIN info : info[n].key = k /\ info[n].member = m
           /\ info[n].status = "PENDING"
    BY <1>1 DEF ProposeCheck, Turn
  <2> HIDE DEF x
  <2>11. CommunityTypeOK'
    BY <2>1, <2>2, WaitingIsACall DEF CommunityTypeOK
  <2>12. CallsInv'
    BY <2>1, <2>2, WaitingIsACall DEF CommunityTypeOK, CallsInv
  <2>13. RowsInv'
    BY <2>1, <2>2, WaitingIsACall DEF CommunityTypeOK, RowsInv
  <2> QED
    BY <2>11, <2>12, <2>13
<1>2. ASSUME NEW c \in Ask, ProposeCreate(c) PROVE CommunityTypeOK' /\ CallsInv' /\ RowsInv'
  <2>1. PICK x \in Entry : /\ info' = Append(info, x)
                          /\ x.key = ask[c].key /\ x.member = ask[c].member
                          /\ x.on = ask[c].on /\ x.status = "PENDING"
    BY <1>2, WrittenRows
  <2>2. ask' = [ask EXCEPT ![c] = Waiting] /\ UNCHANGED <<day, vetted>> /\ ask[c].pc = "propose"
    BY <1>2 DEF ProposeCreate, Answer, Turn
  <2>3. ask[c].on <= day
    BY <2>2 DEF CallsInv
  <2>11. CommunityTypeOK'
    BY <2>1, <2>2, WaitingIsACall, RowIsLast DEF CommunityTypeOK
  <2>12. CallsInv'
    BY <2>1, <2>2, WaitingIsACall, RowIsLast DEF CommunityTypeOK, CallsInv
  <2>13. RowsInv'
    BY <2>1, <2>2, <2>3, WaitingIsACall, RowIsLast DEF RowsInv
  <2> QED
    BY <2>11, <2>12, <2>13
<1>3. ASSUME NEW c \in Ask, NEW m \in Pilot, NEW n \in DOMAIN info, ConfirmFind(c, m, n)
      PROVE  CommunityTypeOK' /\ CallsInv' /\ RowsInv'
  <2> DEFINE x == [Waiting EXCEPT !.pc = "newest", !.entry = n, !.key = info[n].key, !.member = m]
  <2>1. x \in Call /\ x.pc = "newest" /\ x.entry = n /\ x.key = info[n].key /\ x.member = m
    <3>1. info[n].key \in Keys /\ m \in Members /\ n \in Nat
      BY RowsAreEntries DEF Keys, Members
    <3> QED
      BY <3>1, WaitingIsACall DEF Call
  <2>2. /\ ask' = [ask EXCEPT ![c] = x] /\ info[n].status = "APPROVED" /\ ask[c].pc = "idle"
        /\ UNCHANGED <<info, day, vetted>>
    BY <1>3 DEF ConfirmFind, Turn
  <2> HIDE DEF x
  <2>3. info[n].of \in vetted
    BY <2>2 DEF RowsInv
  <2>11. CommunityTypeOK'
    BY <2>1, <2>2, WaitingIsACall DEF CommunityTypeOK
  <2>12. CallsInv'
    BY <2>1, <2>2, <2>3, WaitingIsACall DEF CommunityTypeOK, CallsInv
  <2>13. RowsInv'
    BY <2>1, <2>2, WaitingIsACall DEF CommunityTypeOK, RowsInv
  <2> QED
    BY <2>11, <2>12, <2>13
<1>4. ASSUME NEW c \in Ask, ConfirmCheck(c) PROVE CommunityTypeOK' /\ CallsInv' /\ RowsInv'
  <2> DEFINE x == [ask[c] EXCEPT !.pc = "copy", !.on = day]
  <2>1. x \in Call /\ x.pc = "copy" /\ x.on = day /\ x.entry = ask[c].entry
        /\ x.key = ask[c].key
        /\ x.member = ask[c].member
    BY DEF CommunityTypeOK, Call
  <2>2. /\ ask[c].pc = "newest" /\ UNCHANGED <<info, day, vetted>>
        /\ \/ ask' = [ask EXCEPT ![c] = Waiting]
           \/ /\ ask[c].entry \in Newest(ask[c].key) /\ info[ask[c].entry].on < day
              /\ ask' = [ask EXCEPT ![c] = x]
    BY <1>4 DEF ConfirmCheck, Turn, Answer
  <2> HIDE DEF x
  <2>3. /\ info[ask[c].entry].of \in vetted /\ ask[c].entry \in DOMAIN info
           /\ ask[c].member \in Pilot
        /\ ask[c].key = info[ask[c].entry].key
    BY <2>2 DEF CallsInv
  <2>4. ask[c].key \in Reported
    BY <2>3, RowsAreEntries
  <2>11. CommunityTypeOK'
    BY <2>1, <2>2, WaitingIsACall DEF CommunityTypeOK
  <2>12. CallsInv'
    BY <2>1, <2>2, <2>3, <2>4, WaitingIsACall DEF CommunityTypeOK, CallsInv
  <2>13. RowsInv'
    BY <2>1, <2>2, WaitingIsACall DEF CommunityTypeOK, RowsInv
  <2> QED
    BY <2>11, <2>12, <2>13
<1>5. ASSUME NEW c \in Ask, ConfirmCreate(c) PROVE CommunityTypeOK' /\ CallsInv' /\ RowsInv'
  <2>1. PICK x \in Entry : /\ info' = Append(info, x)
                          /\ x.key = ask[c].key /\ x.on = ask[c].on
                          /\ x.of \in vetted /\ x.status = "APPROVED" /\ ~x.reviewed
    BY <1>5, WrittenRows
  <2>2. ask' = [ask EXCEPT ![c] = Waiting] /\ UNCHANGED <<day, vetted>> /\ ask[c].pc = "copy"
    BY <1>5 DEF ConfirmCreate, Answer, Turn
  <2>3. ask[c].on <= day
    BY <2>2 DEF CallsInv
  <2>11. CommunityTypeOK'
    BY <2>1, <2>2, WaitingIsACall, RowIsLast DEF CommunityTypeOK
  <2>12. CallsInv'
    BY <2>1, <2>2, WaitingIsACall, RowIsLast DEF CommunityTypeOK, CallsInv
  <2>13. RowsInv'
    BY <2>1, <2>2, <2>3, WaitingIsACall, RowIsLast DEF RowsInv
  <2> QED
    BY <2>11, <2>12, <2>13
<1>6. ASSUME NEW c \in Ask, NEW n \in DOMAIN info, NEW verdict \in {"APPROVED", "REJECTED"},
             ReviewRead(c, n, verdict)
      PROVE  CommunityTypeOK' /\ CallsInv' /\ RowsInv'
  <2> DEFINE x == [Waiting EXCEPT !.pc = "review", !.entry = n, !.verdict = verdict]
  <2>1. x \in Call /\ x.pc = "review" /\ x.entry = n /\ x.verdict = verdict
    <3>1. n \in Nat
      BY RowsAreEntries
    <3> QED
      BY <3>1, WaitingIsACall DEF Call
  <2>2. /\ ask' = [ask EXCEPT ![c] = x] /\ ask[c].pc = "idle"
        /\ UNCHANGED <<info, day, vetted>>
    BY <1>6 DEF ReviewRead, Turn
  <2> HIDE DEF x
  <2>11. CommunityTypeOK'
    BY <2>1, <2>2, WaitingIsACall DEF CommunityTypeOK
  <2>12. CallsInv'
    BY <2>1, <2>2, WaitingIsACall DEF CommunityTypeOK, CallsInv
  <2>13. RowsInv'
    BY <2>1, <2>2, WaitingIsACall DEF CommunityTypeOK, RowsInv
  <2> QED
    BY <2>11, <2>12, <2>13
<1>7. ASSUME NEW c \in Ask, ReviewWrite(c) PROVE CommunityTypeOK' /\ CallsInv' /\ RowsInv'
  <2>1. PICK e \in DOMAIN info, v \in {"APPROVED", "REJECTED"} :
              /\ info' \in Seq(Entry) /\ DOMAIN info' = DOMAIN info
              /\ \A n \in DOMAIN info : n # e => info'[n] = info[n]
              /\ info'[e].status = v /\ info'[e].reviewed
              /\ info'[e].of = info[e].of /\ info'[e].key = info[e].key
              /\ info'[e].member = info[e].member /\ info'[e].on = info[e].on
              /\ vetted' = IF v = "APPROVED" THEN vetted \cup {info[e].of} ELSE vetted
    BY <1>7, ReviewedRow
  <2>2. ask' = [ask EXCEPT ![c] = Waiting] /\ UNCHANGED day
    BY <1>7 DEF ReviewWrite, Answer, Turn
  <2>11. CommunityTypeOK'
    BY <2>1, <2>2, WaitingIsACall DEF CommunityTypeOK
  <2>12. CallsInv'
    BY <2>1, <2>2, WaitingIsACall DEF CommunityTypeOK, CallsInv
  <2>13. RowsInv'
    BY <2>1, <2>2, WaitingIsACall DEF CommunityTypeOK, RowsInv
  <2> QED
    BY <2>11, <2>12, <2>13
<1>8. ASSUME NEW c \in Ask, GiveUp(c) PROVE CommunityTypeOK' /\ CallsInv' /\ RowsInv'
  BY <1>8, WaitingIsACall DEF GiveUp, Answer, Turn, CommunityTypeOK, CallsInv, RowsInv
<1>9. CASE Midnight
  <2>1. UNCHANGED <<info, ask, vetted>> /\ day' = day + 1 /\ day \in Nat
    BY <1>9 DEF Midnight, CommunityTypeOK
  <2>2. \A c \in Ask : ask[c].on <= day => ask[c].on <= day'
    BY <2>1 DEF CommunityTypeOK, Call
  <2>3. \A n \in DOMAIN info : info[n].on <= day => info[n].on <= day'
    BY <2>1, RowsAreEntries
  <2> QED
    BY <2>1, <2>2, <2>3 DEF CommunityTypeOK, CallsInv, RowsInv
<1>10. CASE UNCHANGED communityVars
  BY <1>10 DEF communityVars, CommunityTypeOK, CallsInv, RowsInv
<1> QED
  BY <1>1, <1>2, <1>3, <1>4, <1>5, <1>6, <1>7, <1>8, <1>9, <1>10
     DEF CommunityNext, Propose, Confirm, Moderate

\* A set and the calls that may still add to it.
FewLeft(D, L) == Cardinality(D) + Cardinality(L) <= Cardinality(Ask)

\* A copy is written by a call that was about to, and a call is about to only when the day has none.
LEMMA FewCopiesKept ==
    CommunityTypeOK /\ CallsInv /\ RowsInv /\ FewCopiesInv /\ [CommunityNext]_communityVars
        => FewCopiesInv'
<1> SUFFICES ASSUME CommunityTypeOK, CallsInv, RowsInv,
                    FewCopiesInv, [CommunityNext]_communityVars, NEW key \in Reported,
                        NEW date \in Nat
             PROVE  FewLeft(Copies(key, date)', Copying(key, date)')
  BY DEF FewCopiesInv, FewLeft
<1> DEFINE D == Copies(key, date)
           L == Copying(key, date)
<1>a. CommunityTypeOK' /\ IsFiniteSet(Ask)
  BY ReadingsKept, CommunityAssumption DEF Readings
<1>b. IsFiniteSet(D) /\ IsFiniteSet(D') /\ IsFiniteSet(L) /\ IsFiniteSet(L')
  <2>1. D \subseteq 1 .. Len(info) /\ D' \subseteq 1 .. Len(info')
    BY <1>a DEF CommunityTypeOK, Copies
  <2>2. L \subseteq Ask /\ L' \subseteq Ask
    BY DEF Copying
  <2>3. IsFiniteSet(1 .. Len(info)) /\ IsFiniteSet(1 .. Len(info'))
    BY <1>a, FS_Interval DEF CommunityTypeOK
  <2> QED
    BY <1>a, <2>1, <2>2, <2>3, FS_Subset
<1>c. Cardinality(D) + Cardinality(L) <= Cardinality(Ask)
  BY DEF FewCopiesInv, FewLeft
<1>d. ASSUME D' \subseteq D, L' \subseteq L
      PROVE  FewLeft(Copies(key, date)', Copying(key, date)')
  BY <1>a, <1>b, <1>c, <1>d, FewStayFew DEF FewLeft
<1>e. ASSUME NEW n, NEW c \in L, D' \subseteq D \cup {n}, L' \subseteq L \ {c}
      PROVE  FewLeft(Copies(key, date)', Copying(key, date)')
  <2>1. /\ IsFiniteSet(D \cup {n}) /\ IsFiniteSet(L \ {c})
        /\ Cardinality(D \cup {n}) + Cardinality(L \ {c}) <= Cardinality(Ask)
    BY <1>a, <1>b, <1>c, <1>e, FewChangePlaces
  <2> QED
    BY <1>a, <1>e, <2>1, FewStayFew DEF FewLeft
<1>f. ASSUME D' = {} PROVE FewLeft(Copies(key, date)', Copying(key, date)')
  <2>1. L' \subseteq Ask
    BY DEF Copying
  <2>2. Cardinality(L') <= Cardinality(Ask) /\ Cardinality(L') \in Nat
    BY <1>a, <1>b, <2>1, FS_Subset, FS_CardinalityType
  <2>3. Cardinality(D') = 0
    BY <1>f, FS_EmptySet
  <2> QED
    BY <2>2, <2>3 DEF FewLeft
<1> HIDE DEF D, L
<1>1. ASSUME NEW c \in Ask, NEW m \in Pilot, NEW k \in Reported, NEW d \in 0 .. MaxDay,
             ProposeCheck(c, m, k, d)
      PROVE  FewLeft(Copies(key, date)', Copying(key, date)')
  <2> DEFINE x == [Waiting EXCEPT !.pc = "propose", !.key = k, !.member = m, !.on = d]
  <2>1. x \in Call /\ x.pc = "propose" /\ x.key = k /\ x.member = m /\ x.on = d
    <3>1. k \in Keys /\ m \in Members /\ d \in Nat
      BY CommunityAssumption DEF Keys, Members
    <3> QED
      BY <3>1, WaitingIsACall DEF Call
  <2>2. /\ ask' = [ask EXCEPT ![c] = x] /\ d <= day /\ ask[c].pc = "idle"
        /\ UNCHANGED <<info, day, vetted>>
        /\ ~ \E n \in DOMAIN info : info[n].key = k /\ info[n].member = m
           /\ info[n].status = "PENDING"
    BY <1>1 DEF ProposeCheck, Turn
  <2> HIDE DEF x
  <2>3. D' \subseteq D
    BY <2>1, <2>2 DEF D, Copies
  <2>4. L' \subseteq L
    BY <2>1, <2>2, WaitingIsACall DEF CommunityTypeOK, L, Copying
  <2> QED
    BY <1>d, <2>3, <2>4
<1>2. ASSUME NEW c \in Ask, ProposeCreate(c)
      PROVE  FewLeft(Copies(key, date)', Copying(key, date)')
  <2>1. PICK x \in Entry : /\ info' = Append(info, x)
                          /\ x.key = ask[c].key /\ x.member = ask[c].member
                          /\ x.on = ask[c].on /\ x.status = "PENDING"
    BY <1>2, WrittenRows
  <2>2. ask' = [ask EXCEPT ![c] = Waiting] /\ UNCHANGED <<day, vetted>> /\ ask[c].pc = "propose"
    BY <1>2 DEF ProposeCreate, Answer, Turn
  <2>3. D' \subseteq D
    BY <2>1, <2>2, RowIsLast DEF D, Copies
  <2>4. L' \subseteq L
    BY <2>1, <2>2, WaitingIsACall DEF CommunityTypeOK, L, Copying
  <2> QED
    BY <1>d, <2>3, <2>4
<1>3. ASSUME NEW c \in Ask, NEW m \in Pilot, NEW n \in DOMAIN info, ConfirmFind(c, m, n)
      PROVE  FewLeft(Copies(key, date)', Copying(key, date)')
  <2> DEFINE x == [Waiting EXCEPT !.pc = "newest", !.entry = n, !.key = info[n].key, !.member = m]
  <2>1. x \in Call /\ x.pc = "newest" /\ x.entry = n /\ x.key = info[n].key /\ x.member = m
    <3>1. info[n].key \in Keys /\ m \in Members /\ n \in Nat
      BY RowsAreEntries DEF Keys, Members
    <3> QED
      BY <3>1, WaitingIsACall DEF Call
  <2>2. /\ ask' = [ask EXCEPT ![c] = x] /\ info[n].status = "APPROVED" /\ ask[c].pc = "idle"
        /\ UNCHANGED <<info, day, vetted>>
    BY <1>3 DEF ConfirmFind, Turn
  <2> HIDE DEF x
  <2>3. D' \subseteq D
    BY <2>1, <2>2 DEF D, Copies
  <2>4. L' \subseteq L
    BY <2>1, <2>2, WaitingIsACall DEF CommunityTypeOK, L, Copying
  <2> QED
    BY <1>d, <2>3, <2>4
<1>4. ASSUME NEW c \in Ask, ConfirmCheck(c)
      PROVE  FewLeft(Copies(key, date)', Copying(key, date)')
  <2> DEFINE x == [ask[c] EXCEPT !.pc = "copy", !.on = day]
  <2>1. x \in Call /\ x.pc = "copy" /\ x.on = day /\ x.entry = ask[c].entry
        /\ x.key = ask[c].key
        /\ x.member = ask[c].member
    BY DEF CommunityTypeOK, Call
  <2>2. /\ ask[c].pc = "newest" /\ UNCHANGED <<info, day, vetted>>
        /\ \/ ask' = [ask EXCEPT ![c] = Waiting]
           \/ /\ ask[c].entry \in Newest(ask[c].key) /\ info[ask[c].entry].on < day
              /\ ask' = [ask EXCEPT ![c] = x]
    BY <1>4 DEF ConfirmCheck, Turn, Answer
  <2> HIDE DEF x
  <2>3. CASE ask' = [ask EXCEPT ![c] = Waiting]
    BY <1>d, <2>2, <2>3, WaitingIsACall DEF CommunityTypeOK, D, Copies, L, Copying
  <2>4. CASE /\ ask[c].entry \in Newest(ask[c].key) /\ info[ask[c].entry].on < day
             /\ ask' = [ask EXCEPT ![c] = x]
    <3>1. CASE key = ask[c].key /\ date = day
      <4>1. \A p \in Approved(key) : info[p].on < day
        <5> SUFFICES ASSUME NEW p \in Approved(key) PROVE info[p].on < day
          OBVIOUS
        <5>1. p = ask[c].entry \/ Newer(ask[c].entry, p)
          BY <2>4, <3>1 DEF Newest
        <5>2. /\ info[p].on \in Nat /\ info[ask[c].entry].on \in Nat
              /\ info[p].on <= info[ask[c].entry].on
          BY <2>4, <5>1, RowsAreEntries DEF Newest, Approved, Newer
        <5> QED
          BY <2>4, <5>2 DEF CommunityTypeOK
      <4>2. D' = {}
        BY <2>2, <3>1, <4>1, RowsAreEntries DEF D, Copies, Approved, CommunityTypeOK
      <4> QED
        BY <1>f, <4>2
    <3>2. CASE ~(key = ask[c].key /\ date = day)
      <4>1. L' \subseteq L
        BY <2>1, <2>4, <3>2 DEF CommunityTypeOK, L, Copying
      <4>2. D' = D
        BY <2>2 DEF D, Copies
      <4> QED
        BY <1>d, <4>1, <4>2
    <3> QED
      BY <3>1, <3>2
  <2> QED
    BY <2>2, <2>3, <2>4
<1>5. ASSUME NEW c \in Ask, ConfirmCreate(c)
      PROVE  FewLeft(Copies(key, date)', Copying(key, date)')
  <2>1. PICK x \in Entry : /\ info' = Append(info, x)
                          /\ x.key = ask[c].key /\ x.on = ask[c].on
                          /\ x.of \in vetted /\ x.status = "APPROVED" /\ ~x.reviewed
    BY <1>5, WrittenRows
  <2>2. ask' = [ask EXCEPT ![c] = Waiting] /\ UNCHANGED <<day, vetted>> /\ ask[c].pc = "copy"
    BY <1>5 DEF ConfirmCreate, Answer, Turn
  <2>3. L' \subseteq L
    BY <2>2, WaitingIsACall DEF CommunityTypeOK, L, Copying
  <2>4. D' \subseteq D \cup {Len(info) + 1}
    BY <2>1, RowIsLast DEF D, Copies
  <2>5. CASE ask[c].key = key /\ ask[c].on = date
    <3>1. c \in L /\ L' \subseteq L \ {c}
      BY <2>2, <2>5, WaitingIsACall DEF CommunityTypeOK, L, Copying
    <3> QED
      BY <1>e, <2>4, <3>1
  <2>6. CASE ~(ask[c].key = key /\ ask[c].on = date)
    <3>1. D' \subseteq D
      BY <2>1, <2>6, RowIsLast DEF D, Copies
    <3> QED
      BY <1>d, <2>3, <3>1
  <2> QED
    BY <2>5, <2>6
<1>6. ASSUME NEW c \in Ask, NEW n \in DOMAIN info, NEW verdict \in {"APPROVED", "REJECTED"},
             ReviewRead(c, n, verdict)
      PROVE  FewLeft(Copies(key, date)', Copying(key, date)')
  <2> DEFINE x == [Waiting EXCEPT !.pc = "review", !.entry = n, !.verdict = verdict]
  <2>1. x \in Call /\ x.pc = "review" /\ x.entry = n /\ x.verdict = verdict
    <3>1. n \in Nat
      BY RowsAreEntries
    <3> QED
      BY <3>1, WaitingIsACall DEF Call
  <2>2. /\ ask' = [ask EXCEPT ![c] = x] /\ ask[c].pc = "idle"
        /\ UNCHANGED <<info, day, vetted>>
    BY <1>6 DEF ReviewRead, Turn
  <2> HIDE DEF x
  <2>3. D' \subseteq D
    BY <2>1, <2>2 DEF D, Copies
  <2>4. L' \subseteq L
    BY <2>1, <2>2, WaitingIsACall DEF CommunityTypeOK, L, Copying
  <2> QED
    BY <1>d, <2>3, <2>4
<1>7. ASSUME NEW c \in Ask, ReviewWrite(c)
      PROVE  FewLeft(Copies(key, date)', Copying(key, date)')
  <2>1. PICK e \in DOMAIN info, v \in {"APPROVED", "REJECTED"} :
              /\ info' \in Seq(Entry) /\ DOMAIN info' = DOMAIN info
              /\ \A n \in DOMAIN info : n # e => info'[n] = info[n]
              /\ info'[e].status = v /\ info'[e].reviewed
              /\ info'[e].of = info[e].of /\ info'[e].key = info[e].key
              /\ info'[e].member = info[e].member /\ info'[e].on = info[e].on
              /\ vetted' = IF v = "APPROVED" THEN vetted \cup {info[e].of} ELSE vetted
    BY <1>7, ReviewedRow
  <2>2. ask' = [ask EXCEPT ![c] = Waiting] /\ UNCHANGED day
    BY <1>7 DEF ReviewWrite, Answer, Turn
  <2>3. D' \subseteq D
    BY <2>1, <2>2 DEF D, Copies
  <2>4. L' \subseteq L
    BY <2>1, <2>2, WaitingIsACall DEF CommunityTypeOK, L, Copying
  <2> QED
    BY <1>d, <2>3, <2>4
<1>8. ASSUME NEW c \in Ask, GiveUp(c) PROVE FewLeft(Copies(key, date)', Copying(key, date)')
  <2>1. ask' = [ask EXCEPT ![c] = Waiting] /\ UNCHANGED info
    BY <1>8 DEF GiveUp, Answer, Turn
  <2>2. D' = D /\ L' \subseteq L
    BY <2>1, WaitingIsACall DEF CommunityTypeOK, D, Copies, L, Copying
  <2> QED
    BY <1>d, <2>2
<1>9. CASE Midnight
  BY <1>9, <1>d DEF Midnight, D, L, Copies, Copying
<1>10. CASE UNCHANGED communityVars
  BY <1>10, <1>d DEF communityVars, D, L, Copies, Copying
<1> QED
  BY <1>1, <1>2, <1>3, <1>4, <1>5, <1>6, <1>7, <1>8, <1>9, <1>10
     DEF CommunityNext, Propose, Confirm, Moderate

\* A proposal is written by a call that was about to, and a call is about to only when none waits.
LEMMA FewProposalsKept ==
    CommunityTypeOK /\ CallsInv /\ RowsInv /\ FewProposalsInv /\ [CommunityNext]_communityVars
        => FewProposalsInv'
<1> SUFFICES ASSUME CommunityTypeOK, CallsInv, RowsInv,
                    FewProposalsInv, [CommunityNext]_communityVars, NEW key \in Reported,
                        NEW member \in Pilot
             PROVE  FewLeft(Pending(key, member)', Proposing(key, member)')
  BY DEF FewProposalsInv, FewLeft
<1> DEFINE D == Pending(key, member)
           L == Proposing(key, member)
<1>a. CommunityTypeOK' /\ IsFiniteSet(Ask)
  BY ReadingsKept, CommunityAssumption DEF Readings
<1>b. IsFiniteSet(D) /\ IsFiniteSet(D') /\ IsFiniteSet(L) /\ IsFiniteSet(L')
  <2>1. D \subseteq 1 .. Len(info) /\ D' \subseteq 1 .. Len(info')
    BY <1>a DEF CommunityTypeOK, Pending
  <2>2. L \subseteq Ask /\ L' \subseteq Ask
    BY DEF Proposing
  <2>3. IsFiniteSet(1 .. Len(info)) /\ IsFiniteSet(1 .. Len(info'))
    BY <1>a, FS_Interval DEF CommunityTypeOK
  <2> QED
    BY <1>a, <2>1, <2>2, <2>3, FS_Subset
<1>c. Cardinality(D) + Cardinality(L) <= Cardinality(Ask)
  BY DEF FewProposalsInv, FewLeft
<1>d. ASSUME D' \subseteq D, L' \subseteq L
      PROVE  FewLeft(Pending(key, member)', Proposing(key, member)')
  BY <1>a, <1>b, <1>c, <1>d, FewStayFew DEF FewLeft
<1>e. ASSUME NEW n, NEW c \in L, D' \subseteq D \cup {n}, L' \subseteq L \ {c}
      PROVE  FewLeft(Pending(key, member)', Proposing(key, member)')
  <2>1. /\ IsFiniteSet(D \cup {n}) /\ IsFiniteSet(L \ {c})
        /\ Cardinality(D \cup {n}) + Cardinality(L \ {c}) <= Cardinality(Ask)
    BY <1>a, <1>b, <1>c, <1>e, FewChangePlaces
  <2> QED
    BY <1>a, <1>e, <2>1, FewStayFew DEF FewLeft
<1>f. ASSUME D' = {} PROVE FewLeft(Pending(key, member)', Proposing(key, member)')
  <2>1. L' \subseteq Ask
    BY DEF Proposing
  <2>2. Cardinality(L') <= Cardinality(Ask) /\ Cardinality(L') \in Nat
    BY <1>a, <1>b, <2>1, FS_Subset, FS_CardinalityType
  <2>3. Cardinality(D') = 0
    BY <1>f, FS_EmptySet
  <2> QED
    BY <2>2, <2>3 DEF FewLeft
<1> HIDE DEF D, L
<1>1. ASSUME NEW c \in Ask, NEW m \in Pilot, NEW k \in Reported, NEW d \in 0 .. MaxDay,
             ProposeCheck(c, m, k, d)
      PROVE  FewLeft(Pending(key, member)', Proposing(key, member)')
  <2> DEFINE x == [Waiting EXCEPT !.pc = "propose", !.key = k, !.member = m, !.on = d]
  <2>1. x \in Call /\ x.pc = "propose" /\ x.key = k /\ x.member = m /\ x.on = d
    <3>1. k \in Keys /\ m \in Members /\ d \in Nat
      BY CommunityAssumption DEF Keys, Members
    <3> QED
      BY <3>1, WaitingIsACall DEF Call
  <2>2. /\ ask' = [ask EXCEPT ![c] = x] /\ d <= day /\ ask[c].pc = "idle"
        /\ UNCHANGED <<info, day, vetted>>
        /\ ~ \E n \in DOMAIN info : info[n].key = k /\ info[n].member = m
           /\ info[n].status = "PENDING"
    BY <1>1 DEF ProposeCheck, Turn
  <2> HIDE DEF x
  <2>3. CASE k = key /\ m = member
    BY <1>f, <2>2, <2>3 DEF D, Pending
  <2>4. CASE ~(k = key /\ m = member)
    <3>1. D' = D /\ L' \subseteq L
      BY <2>1, <2>2, <2>4 DEF CommunityTypeOK, D, Pending, L, Proposing
    <3> QED
      BY <1>d, <3>1
  <2> QED
    BY <2>3, <2>4
<1>2. ASSUME NEW c \in Ask, ProposeCreate(c)
      PROVE  FewLeft(Pending(key, member)', Proposing(key, member)')
  <2>1. PICK x \in Entry : /\ info' = Append(info, x)
                          /\ x.key = ask[c].key /\ x.member = ask[c].member
                          /\ x.on = ask[c].on /\ x.status = "PENDING"
    BY <1>2, WrittenRows
  <2>2. ask' = [ask EXCEPT ![c] = Waiting] /\ UNCHANGED <<day, vetted>> /\ ask[c].pc = "propose"
    BY <1>2 DEF ProposeCreate, Answer, Turn
  <2>3. L' \subseteq L
    BY <2>2, WaitingIsACall DEF CommunityTypeOK, L, Proposing
  <2>4. D' \subseteq D \cup {Len(info) + 1}
    BY <2>1, RowIsLast DEF D, Pending
  <2>5. CASE ask[c].key = key /\ ask[c].member = member
    <3>1. c \in L /\ L' \subseteq L \ {c}
      BY <2>2, <2>5, WaitingIsACall DEF CommunityTypeOK, L, Proposing
    <3> QED
      BY <1>e, <2>4, <3>1
  <2>6. CASE ~(ask[c].key = key /\ ask[c].member = member)
    <3>1. D' \subseteq D
      BY <2>1, <2>6, RowIsLast DEF D, Pending
    <3> QED
      BY <1>d, <2>3, <3>1
  <2> QED
    BY <2>5, <2>6
<1>3. ASSUME NEW c \in Ask, NEW m \in Pilot, NEW n \in DOMAIN info, ConfirmFind(c, m, n)
      PROVE  FewLeft(Pending(key, member)', Proposing(key, member)')
  <2> DEFINE x == [Waiting EXCEPT !.pc = "newest", !.entry = n, !.key = info[n].key, !.member = m]
  <2>1. x \in Call /\ x.pc = "newest" /\ x.entry = n /\ x.key = info[n].key /\ x.member = m
    <3>1. info[n].key \in Keys /\ m \in Members /\ n \in Nat
      BY RowsAreEntries DEF Keys, Members
    <3> QED
      BY <3>1, WaitingIsACall DEF Call
  <2>2. /\ ask' = [ask EXCEPT ![c] = x] /\ info[n].status = "APPROVED" /\ ask[c].pc = "idle"
        /\ UNCHANGED <<info, day, vetted>>
    BY <1>3 DEF ConfirmFind, Turn
  <2> HIDE DEF x
  <2>3. D' \subseteq D
    BY <2>1, <2>2 DEF D, Pending
  <2>4. L' \subseteq L
    BY <2>1, <2>2, WaitingIsACall DEF CommunityTypeOK, L, Proposing
  <2> QED
    BY <1>d, <2>3, <2>4
<1>4. ASSUME NEW c \in Ask, ConfirmCheck(c)
      PROVE  FewLeft(Pending(key, member)', Proposing(key, member)')
  <2> DEFINE x == [ask[c] EXCEPT !.pc = "copy", !.on = day]
  <2>1. x \in Call /\ x.pc = "copy" /\ x.on = day /\ x.entry = ask[c].entry
        /\ x.key = ask[c].key
        /\ x.member = ask[c].member
    BY DEF CommunityTypeOK, Call
  <2>2. /\ ask[c].pc = "newest" /\ UNCHANGED <<info, day, vetted>>
        /\ \/ ask' = [ask EXCEPT ![c] = Waiting]
           \/ /\ ask[c].entry \in Newest(ask[c].key) /\ info[ask[c].entry].on < day
              /\ ask' = [ask EXCEPT ![c] = x]
    BY <1>4 DEF ConfirmCheck, Turn, Answer
  <2> HIDE DEF x
  <2>3. D' = D /\ L' \subseteq L
    BY <2>1, <2>2, WaitingIsACall DEF CommunityTypeOK, D, Pending, L, Proposing
  <2> QED
    BY <1>d, <2>3
<1>5. ASSUME NEW c \in Ask, ConfirmCreate(c)
      PROVE  FewLeft(Pending(key, member)', Proposing(key, member)')
  <2>1. PICK x \in Entry : /\ info' = Append(info, x)
                          /\ x.key = ask[c].key /\ x.on = ask[c].on
                          /\ x.of \in vetted /\ x.status = "APPROVED" /\ ~x.reviewed
    BY <1>5, WrittenRows
  <2>2. ask' = [ask EXCEPT ![c] = Waiting] /\ UNCHANGED <<day, vetted>> /\ ask[c].pc = "copy"
    BY <1>5 DEF ConfirmCreate, Answer, Turn
  <2>3. D' \subseteq D
    BY <2>1, <2>2, RowIsLast DEF D, Pending
  <2>4. L' \subseteq L
    BY <2>1, <2>2, WaitingIsACall DEF CommunityTypeOK, L, Proposing
  <2> QED
    BY <1>d, <2>3, <2>4
<1>6. ASSUME NEW c \in Ask, NEW n \in DOMAIN info, NEW verdict \in {"APPROVED", "REJECTED"},
             ReviewRead(c, n, verdict)
      PROVE  FewLeft(Pending(key, member)', Proposing(key, member)')
  <2> DEFINE x == [Waiting EXCEPT !.pc = "review", !.entry = n, !.verdict = verdict]
  <2>1. x \in Call /\ x.pc = "review" /\ x.entry = n /\ x.verdict = verdict
    <3>1. n \in Nat
      BY RowsAreEntries
    <3> QED
      BY <3>1, WaitingIsACall DEF Call
  <2>2. /\ ask' = [ask EXCEPT ![c] = x] /\ ask[c].pc = "idle"
        /\ UNCHANGED <<info, day, vetted>>
    BY <1>6 DEF ReviewRead, Turn
  <2> HIDE DEF x
  <2>3. D' \subseteq D
    BY <2>1, <2>2 DEF D, Pending
  <2>4. L' \subseteq L
    BY <2>1, <2>2, WaitingIsACall DEF CommunityTypeOK, L, Proposing
  <2> QED
    BY <1>d, <2>3, <2>4
<1>7. ASSUME NEW c \in Ask, ReviewWrite(c)
      PROVE  FewLeft(Pending(key, member)', Proposing(key, member)')
  <2>1. PICK e \in DOMAIN info, v \in {"APPROVED", "REJECTED"} :
              /\ info' \in Seq(Entry) /\ DOMAIN info' = DOMAIN info
              /\ \A n \in DOMAIN info : n # e => info'[n] = info[n]
              /\ info'[e].status = v /\ info'[e].reviewed
              /\ info'[e].of = info[e].of /\ info'[e].key = info[e].key
              /\ info'[e].member = info[e].member /\ info'[e].on = info[e].on
              /\ vetted' = IF v = "APPROVED" THEN vetted \cup {info[e].of} ELSE vetted
    BY <1>7, ReviewedRow
  <2>2. ask' = [ask EXCEPT ![c] = Waiting] /\ UNCHANGED day
    BY <1>7 DEF ReviewWrite, Answer, Turn
  <2>3. D' \subseteq D
    BY <2>1, <2>2 DEF D, Pending
  <2>4. L' \subseteq L
    BY <2>1, <2>2, WaitingIsACall DEF CommunityTypeOK, L, Proposing
  <2> QED
    BY <1>d, <2>3, <2>4
<1>8. ASSUME NEW c \in Ask, GiveUp(c)
      PROVE  FewLeft(Pending(key, member)', Proposing(key, member)')
  <2>1. ask' = [ask EXCEPT ![c] = Waiting] /\ UNCHANGED info
    BY <1>8 DEF GiveUp, Answer, Turn
  <2>2. D' = D /\ L' \subseteq L
    BY <2>1, WaitingIsACall DEF CommunityTypeOK, D, Pending, L, Proposing
  <2> QED
    BY <1>d, <2>2
<1>9. CASE Midnight
  BY <1>9, <1>d DEF Midnight, D, L, Pending, Proposing
<1>10. CASE UNCHANGED communityVars
  BY <1>10, <1>d DEF communityVars, D, L, Pending, Proposing
<1> QED
  BY <1>1, <1>2, <1>3, <1>4, <1>5, <1>6, <1>7, <1>8, <1>9, <1>10
     DEF CommunityNext, Propose, Confirm, Moderate

\* The first state is one of them.
LEMMA CommunityStarts == CommunityInit => CommunityInv
<1> SUFFICES ASSUME CommunityInit PROVE CommunityInv
  OBVIOUS
<1> USE DEF CommunityInit
<1>1. CommunityTypeOK
  BY WaitingIsACall DEF CommunityTypeOK
<1>2. CallsInv /\ RowsInv
  BY WaitingIsACall DEF CallsInv, RowsInv
<1>3. Cardinality({}) = 0 /\ Cardinality(Ask) \in Nat
  BY CommunityAssumption, FS_EmptySet, FS_CardinalityType
<1>4. /\ \A k \in Reported, d \in Nat : Copies(k, d) = {} /\ Copying(k, d) = {}
      /\ \A k \in Reported, m \in Pilot : Pending(k, m) = {} /\ Proposing(k, m) = {}
  BY WaitingIsACall DEF Copies, Copying, Pending, Proposing
<1>5. Cardinality({}) + Cardinality({}) <= Cardinality(Ask)
  BY <1>3
<1>6. FewCopiesInv
  BY <1>4, <1>5, Zenon DEF FewCopiesInv
<1>7. FewProposalsInv
  BY <1>4, <1>5, Zenon DEF FewProposalsInv
<1> QED
  BY <1>1, <1>2, <1>6, <1>7 DEF CommunityInv

\* The invariant holds of every behaviour of the local information, with its types.
THEOREM CommunityIsInvariant == CommunitySpec => []CommunityInv
<1>1. CommunityInv /\ [CommunityNext]_communityVars => CommunityInv'
  BY ReadingsKept, FewCopiesKept, FewProposalsKept DEF CommunityInv, Readings
<1> QED
  BY CommunityStarts, <1>1, PTL DEF CommunitySpec

\* What is public goes back to what a moderator approved, and the copies of a day and
\* the proposals that wait are no more than the calls at once
\* (community-info.service.ts, propose, confirm and review), for any number of
\* members, keys, calls, rows and days.
THEOREM MembersOnlyConfirmWhatWasVetted == CommunitySpec => []MembersOnlyConfirm
<1>1. CommunityInv => MembersOnlyConfirm
  <2> SUFFICES ASSUME CommunityInv PROVE MembersOnlyConfirm
    OBVIOUS
  <2>1. IsFiniteSet(Ask) /\ 0 .. MaxDay \subseteq Nat
    BY CommunityAssumption
  <2>2. ASSUME NEW D, NEW L, D \subseteq DOMAIN info, L \subseteq Ask,
               Cardinality(D) + Cardinality(L) <= Cardinality(Ask)
        PROVE  Cardinality(D) <= Cardinality(Ask)
    <3>1. DOMAIN info = 1 .. Len(info) /\ IsFiniteSet(1 .. Len(info))
      BY FS_Interval DEF CommunityInv, CommunityTypeOK
    <3>2. {Cardinality(D), Cardinality(L), Cardinality(Ask)} \subseteq Nat
      BY <2>1, <2>2, <3>1, FS_Subset, FS_CardinalityType
    <3> QED
      BY <2>2, <3>2
  <2>3. PublishedWasVetted
    BY DEF CommunityInv, RowsInv, PublishedWasVetted, Published
  <2>4. CopiesAreFew
    <3> SUFFICES ASSUME NEW k \in Reported, NEW d \in 0 .. MaxDay
                 PROVE  Cardinality({n \in Published : info[n].key = k /\ info[n].on = d
                     /\ ~info[n].reviewed})
                          <= Cardinality(Ask)
      BY DEF CopiesAreFew
    <3>1. {n \in Published : info[n].key = k /\ info[n].on = d
          /\ ~info[n].reviewed} = Copies(k, d)
      BY DEF Published, Copies
    <3>2. Copies(k, d) \subseteq DOMAIN info /\ Copying(k, d) \subseteq Ask
      BY DEF Copies, Copying
    <3> QED
      BY <2>1, <2>2, <3>1, <3>2 DEF CommunityInv, FewCopiesInv
  <2>5. ProposalsAreFew
    <3> SUFFICES ASSUME NEW k \in Reported, NEW m \in Pilot
                 PROVE  Cardinality(Pending(k, m)) <= Cardinality(Ask)
      BY DEF ProposalsAreFew, Pending
    <3>1. Pending(k, m) \subseteq DOMAIN info /\ Proposing(k, m) \subseteq Ask
      BY DEF Pending, Proposing
    <3> QED
      BY <2>2, <3>1 DEF CommunityInv, FewProposalsInv
  <2> QED
    BY <2>3, <2>4, <2>5 DEF MembersOnlyConfirm
<1> QED
  BY CommunityIsInvariant, <1>1, PTL

-----------------------------------------------------------------------------
(* The pages of the administrators *)

\* The statuses a page can show.
Offered == IF pile = "user" THEN {"APPROVED", "REJECTED"}
           ELSE {"PENDING", "APPROVED", "FLAGGED", "REJECTED"}

RowStatus == {"none", "gone", "PENDING", "APPROVED", "FLAGGED", "REJECTED"}

Stroke == [step : {"idle", "read", "write", "tell", "refetch"}, on : Item \cup {Blank},
           decision : Decision \cup {Blank}, was : RowStatus \cup {Blank}]

DeskTypeOK ==
    /\ pile \in Pile
    /\ status \in [Item -> RowStatus]
    /\ filed \in Seq(Item)
    /\ screen = [c \in Clerk |-> screen[c]]
    /\ \A c \in Clerk : /\ DOMAIN screen[c] \subseteq Item
                        /\ \A i \in DOMAIN screen[c] : screen[c][i] \in Offered
    /\ stroke \in [Clerk -> Stroke]
    /\ \A c \in Clerk : stroke[c].step # "idle" =>
          stroke[c].on \in Item /\ stroke[c].decision \in Decision
    /\ strokes \in Nat
    /\ decided \in [Item -> Decision \cup {Blank}]
    /\ heard \in [Item -> Decision \cup {Blank}]

\* A button that was pressed is one of the row as it was shown.
PressedInv ==
    /\ snubbed \subseteq staff
    /\ \A c \in Clerk : stroke[c].step = "read" =>
          stroke[c].was \in Offered /\ stroke[c].decision \in Buttons(stroke[c].was)

\* Nobody is about to ban an administrator.
StaffInv ==
    /\ staff \subseteq Item
    /\ staff # {} => pile = "user"
    /\ \A i \in staff : status[i] # "REJECTED"
    /\ \A c \in Clerk : stroke[c].step = "write" /\ stroke[c].decision = "REJECTED"
          => stroke[c].on \notin staff

\* Unless two were at it, or one died over it, a row is in the hands of one, who tells
\* the decision that is missing.
ToldInv(i) ==
    /\ \A c, e \in AtWorkOn(i) : c = e
    /\ \A c \in AtWorkOn(i) : stroke[c].step = "tell" => stroke[c].decision = decided[i]
    /\ \/ heard[i] = decided[i]
       \/ \E c \in AtWorkOn(i) : stroke[c].step = "tell"

DeskInv == DeskTypeOK /\ StaffInv /\ PressedInv /\ \A i \in Item \ crossed : ToldInv(i)

LEMMA StatesAreOffered ==
    ASSUME pile \in Pile, NEW s \in DOMAIN States
    PROVE  States[s] \subseteq Offered
<1>1. CASE pile = "comment"
  BY <1>1 DEF States, CommentStates, Offered
<1>2. CASE pile = "user"
  BY <1>2 DEF States, UserStates, Offered
<1>3. CASE pile \in {"correction", "event", "info", "photo", "report"}
  BY <1>3 DEF States, CorrectionStates, EventStates, InfoStates, PhotoStates, ReportStates, Alike,
     Offered
<1> QED
  BY <1>1, <1>2, <1>3 DEF Pile

LEMMA ButtonsAreAccepted ==
    ASSUME pile \in Pile, NEW i \in Item \ staff, NEW s \in Offered, NEW d \in Buttons(s)
    PROVE  d \in Decision /\ Accepts(i, d, s)
<1>1. CASE pile = "comment"
  <2>1. d \in CommentButtons[s] /\ s \in {"PENDING", "APPROVED", "FLAGGED", "REJECTED"}
    BY <1>1 DEF Buttons, Offered
  <2>2. d \in Decision /\ s \in {"PENDING", "FLAGGED"}
    BY <2>1 DEF CommentButtons
  <2> QED
    BY <1>1, <2>2 DEF Accepts, CommentAccepts
<1>2. CASE pile = "user"
  <2>1. d \in UserButtons[s] /\ s \in {"APPROVED", "REJECTED"}
    BY <1>2 DEF Buttons, Offered
  <2>2. d \in Decision /\ s # d
    BY <2>1 DEF UserButtons, Decision
  <2> QED
    BY <1>2, <2>2 DEF Accepts, UserAccepts
<1>3. CASE pile = "event"
  <2>1. d \in EventButtons[s] /\ s \in {"PENDING", "APPROVED", "FLAGGED", "REJECTED"}
    BY <1>3 DEF Buttons, Offered
  <2>2. d \in Decision /\ s # d
    BY <2>1 DEF EventButtons, Decision
  <2> QED
    BY <1>3, <2>2 DEF Accepts, EventAccepts
<1>4. CASE pile \in {"correction", "info", "photo", "report"}
  <2>1. d \in PendingButtons[s] /\ s \in {"PENDING", "APPROVED", "FLAGGED", "REJECTED"}
    BY <1>4 DEF Buttons, Offered
  <2>2. d \in Decision /\ s = "PENDING"
    BY <2>1 DEF PendingButtons
  <2> QED
    BY <1>4, <2>2 DEF Accepts, CorrectionAccepts, InfoAccepts, PhotoAccepts, ReportAccepts, Decision
<1> QED
  BY <1>1, <1>2, <1>3, <1>4 DEF Pile

LEMMA OfferedTyped == Offered \subseteq RowStatus \ {"none", "gone"}
  BY DEF Offered, RowStatus

LEMMA RowsAreListed ==
    ASSUME DeskTypeOK, NEW s \in DOMAIN States
    PROVE  /\ DOMAIN Listed(s) \subseteq Item
           /\ \A i \in DOMAIN Listed(s) : Listed(s)[i] \in Offered
<1> DEFINE asked == {n \in DOMAIN filed : status[filed[n]] \in States[s]}
           newest == {n \in asked : Cardinality({m \in asked : m > n}) < Screen}
           rows == {filed[n] : n \in newest}
<1>1. \A n \in newest : filed[n] \in Item /\ status[filed[n]] \in Offered
  BY StatesAreOffered DEF DeskTypeOK
<1>2. Listed(s) = [i \in rows |-> status[i]]
  BY DEF Listed
<1>3. \A i \in rows : i \in Item /\ status[i] \in Offered
  BY <1>1
<1> HIDE DEF rows
<1> QED
  BY <1>2, <1>3

LEMMA StrokesTyped ==
    ASSUME DeskTypeOK, NEW c \in Clerk
    PROVE  /\ AtDesk \in Stroke /\ AtDesk.step = "idle"
           /\ stroke[c] \in Stroke
           /\ \A x \in {"write", "tell", "refetch"} :
                 [stroke[c] EXCEPT !.step = x] \in Stroke
<1>1. stroke[c] \in Stroke
  BY DEF DeskTypeOK
<1>2. AtDesk \in Stroke /\ AtDesk.step = "idle"
  BY DEF AtDesk, Stroke
<1> QED
  BY <1>1, <1>2 DEF Stroke

LEMMA DeskTypesKept ==
    ASSUME DeskTypeOK, [AdminNext]_adminVars
    PROVE  DeskTypeOK'
<1> USE DEF adminHistory
<1>1. ASSUME NEW i \in Item, Submit(i) \/ Flag(i) \/ Withdraw(i) PROVE DeskTypeOK'
  <2>1. status' \in [Item -> RowStatus] /\ filed' \in Seq(Item)
    <3>1. status \in [Item -> RowStatus] /\ filed \in Seq(Item)
      BY DEF DeskTypeOK
    <3>2. CASE Submit(i)
      BY <3>1, <3>2 DEF Submit, RowStatus
    <3>3. CASE Flag(i)
      BY <3>1, <3>3 DEF Flag, RowStatus
    <3>4. CASE Withdraw(i)
      BY <3>1, <3>4 DEF Withdraw, RowStatus
    <3> QED
      BY <1>1, <3>2, <3>3, <3>4
  <2>2. UNCHANGED <<pile, screen, stroke, strokes, decided, heard>>
    BY <1>1 DEF Submit, Flag, Withdraw
  <2> QED
    BY <2>1, <2>2 DEF DeskTypeOK, Offered
<1>2. ASSUME NEW c \in Clerk, ReadRow(c) PROVE DeskTypeOK'
  <2> DEFINE q == [stroke[c] EXCEPT !.step = "write", !.was = status[stroke[c].on]]
  <2>1. stroke[c] \in Stroke /\ stroke[c].on \in Item /\ stroke[c].decision \in Decision
    BY <1>2, StrokesTyped DEF ReadRow, DeskTypeOK
  <2>2. q \in Stroke /\ q.on = stroke[c].on /\ q.decision = stroke[c].decision
    BY <2>1 DEF DeskTypeOK, Stroke
  <2>3. stroke' = [stroke EXCEPT ![c] = q] \/ stroke' = [stroke EXCEPT ![c] = AtDesk]
    BY <1>2 DEF ReadRow, DeskTypeOK
  <2> HIDE DEF q
  <2>4. /\ stroke' \in [Clerk -> Stroke]
        /\ \A e \in Clerk : stroke'[e].step # "idle" =>
              stroke'[e].on \in Item /\ stroke'[e].decision \in Decision
    BY <2>1, <2>2, <2>3, StrokesTyped DEF DeskTypeOK
  <2>5. UNCHANGED <<pile, status, filed, screen, strokes, decided, heard>>
    BY <1>2 DEF ReadRow
  <2> QED
    BY <2>4, <2>5 DEF DeskTypeOK, Offered
<1>3. ASSUME NEW c \in Clerk, WriteRow(c) PROVE DeskTypeOK'
  <2> DEFINE q(x) == [stroke[c] EXCEPT !.step = x, !.was = Blank]
  <2>1. stroke[c] \in Stroke /\ stroke[c].on \in Item /\ stroke[c].decision \in Decision
    BY <1>3, StrokesTyped DEF WriteRow, DeskTypeOK
  <2>2. \A x \in {"tell", "refetch"} :
           q(x) \in Stroke /\ q(x).on = stroke[c].on /\ q(x).decision = stroke[c].decision
    BY <2>1 DEF Stroke
  <2>3. \/ \E x \in {"tell", "refetch"} : stroke' = [stroke EXCEPT ![c] = q(x)]
        \/ stroke' = [stroke EXCEPT ![c] = AtDesk]
    BY <1>3 DEF WriteRow, DeskTypeOK
  <2> HIDE DEF q
  <2>4. /\ stroke' \in [Clerk -> Stroke]
        /\ \A e \in Clerk : stroke'[e].step # "idle" =>
              stroke'[e].on \in Item /\ stroke'[e].decision \in Decision
    BY <2>1, <2>2, <2>3, StrokesTyped DEF DeskTypeOK
  <2>5. status' \in [Item -> RowStatus] /\ decided' \in [Item -> Decision \cup {Blank}]
    <3>1. stroke[c].decision \in RowStatus
      BY <2>1 DEF Decision, RowStatus
    <3> QED
      BY <1>3, <2>1, <3>1 DEF WriteRow, DeskTypeOK
  <2>6. UNCHANGED <<pile, filed, screen, strokes, heard>>
    BY <1>3 DEF WriteRow
  <2> QED
    BY <2>4, <2>5, <2>6 DEF DeskTypeOK, Offered
<1>4. ASSUME NEW c \in Clerk, Tell(c) \/ DieBeforeTelling(c) PROVE DeskTypeOK'
  <2> DEFINE q == [stroke[c] EXCEPT !.step = "refetch"]
  <2>1. stroke[c] \in Stroke /\ stroke[c].on \in Item /\ stroke[c].decision \in Decision
    BY <1>4, StrokesTyped DEF Tell, DieBeforeTelling, DeskTypeOK
  <2>2. q \in Stroke /\ q.on = stroke[c].on /\ q.decision = stroke[c].decision
    BY <2>1 DEF Stroke
  <2>3. stroke' = [stroke EXCEPT ![c] = q] \/ stroke' = [stroke EXCEPT ![c] = AtDesk]
    BY <1>4 DEF Tell, DieBeforeTelling, DeskTypeOK
  <2> HIDE DEF q
  <2>4. /\ stroke' \in [Clerk -> Stroke]
        /\ \A e \in Clerk : stroke'[e].step # "idle" =>
              stroke'[e].on \in Item /\ stroke'[e].decision \in Decision
    BY <2>1, <2>2, <2>3, StrokesTyped DEF DeskTypeOK
  <2>5. heard' \in [Item -> Decision \cup {Blank}]
    BY <1>4, <2>1 DEF Tell, DieBeforeTelling, DeskTypeOK
  <2>6. UNCHANGED <<pile, status, filed, screen, strokes, decided>>
    BY <1>4 DEF Tell, DieBeforeTelling
  <2> QED
    BY <2>4, <2>5, <2>6 DEF DeskTypeOK, Offered
<1>5. ASSUME NEW c \in Clerk, NEW s \in DOMAIN States, FetchRows(c, s) \/ Refetched(c, s)
      PROVE  DeskTypeOK'
  <2>1. \A e \in Clerk : screen'[e] = screen[e] \/ screen'[e] = Listed(s)
    BY <1>5 DEF FetchRows, Refetched, DeskTypeOK
  <2>0. screen' = [e \in Clerk |-> screen'[e]]
    BY <1>5 DEF FetchRows, Refetched, DeskTypeOK
  <2>2. \A e \in Clerk : /\ DOMAIN screen'[e] \subseteq Item
                         /\ \A i \in DOMAIN screen'[e] : screen'[e][i] \in Offered
    BY <2>1, RowsAreListed DEF DeskTypeOK
  <2>3. /\ stroke' \in [Clerk -> Stroke]
        /\ \A e \in Clerk : stroke'[e].step # "idle" =>
              stroke'[e].on \in Item /\ stroke'[e].decision \in Decision
    BY <1>5, StrokesTyped DEF FetchRows, Refetched, DeskTypeOK
  <2>4. UNCHANGED <<pile, status, filed, strokes, decided, heard>>
    BY <1>5 DEF FetchRows, Refetched
  <2> QED
    BY <2>0, <2>2, <2>3, <2>4 DEF DeskTypeOK, Offered
<1>6. ASSUME NEW c \in Clerk, NEW i \in Item, NEW d \in Decision, Press(c, i, d) PROVE DeskTypeOK'
  <2> DEFINE q == [step |-> "read", on |-> i, decision |-> d, was |-> screen[c][i]]
  <2>1. screen[c][i] \in RowStatus
    BY <1>6, OfferedTyped DEF Press, DeskTypeOK
  <2>2. q \in Stroke /\ q.on = i /\ q.decision = d
    BY <2>1 DEF Stroke
  <2>3. stroke' = [stroke EXCEPT ![c] = q] /\ strokes' = strokes + 1
    BY <1>6 DEF Press
  <2> HIDE DEF q
  <2>4. /\ stroke' \in [Clerk -> Stroke] /\ strokes' \in Nat
        /\ \A e \in Clerk : stroke'[e].step # "idle" =>
              stroke'[e].on \in Item /\ stroke'[e].decision \in Decision
    BY <2>2, <2>3 DEF DeskTypeOK
  <2>5. UNCHANGED <<pile, status, filed, screen, decided, heard>>
    BY <1>6 DEF Press
  <2> QED
    BY <2>4, <2>5 DEF DeskTypeOK, Offered
<1>7. CASE UNCHANGED adminVars
  BY <1>7 DEF adminVars, DeskTypeOK, Offered
<1> QED
  BY <1>1, <1>2, <1>3, <1>4, <1>5, <1>6, <1>7 DEF AdminNext

LEMMA StaffKept ==
    ASSUME DeskTypeOK, StaffInv, [AdminNext]_adminVars
    PROVE  StaffInv'
<1>0. UNCHANGED <<pile, staff>>
  BY DEF AdminNext, Submit, Flag, Withdraw, ReadRow, WriteRow, Tell, DieBeforeTelling, FetchRows,
     Refetched, Press, adminVars
<1>1. ASSUME NEW i \in Item, Submit(i) \/ Flag(i) \/ Withdraw(i) PROVE StaffInv'
  <2>1. UNCHANGED stroke
    BY <1>1 DEF Submit, Flag, Withdraw
  <2>2. \A j \in staff : status'[j] # "REJECTED"
    <3>1. CASE Submit(i)
      BY <3>1 DEF Submit, StaffInv, DeskTypeOK
    <3>2. CASE Flag(i)
      BY <3>2 DEF Flag, StaffInv
    <3>3. CASE Withdraw(i)
      BY <3>3 DEF Withdraw, StaffInv, DeskTypeOK
    <3> QED
      BY <1>1, <3>1, <3>2, <3>3
  <2> QED
    BY <1>0, <2>1, <2>2 DEF StaffInv
<1>2. ASSUME NEW c \in Clerk, ReadRow(c) PROVE StaffInv'
  <2> DEFINE i == stroke[c].on
             q == [stroke[c] EXCEPT !.step = "write", !.was = status[i]]
  <2>1. stroke[c] \in Stroke /\ i \in Item
    BY <1>2, StrokesTyped DEF ReadRow, DeskTypeOK
  <2>2. q.on = i /\ q.decision = stroke[c].decision
    BY <2>1 DEF Stroke
  <2>3. \/ /\ stroke' = [stroke EXCEPT ![c] = q]
           /\ Accepts(i, stroke[c].decision, status[i])
        \/ stroke' = [stroke EXCEPT ![c] = AtDesk]
    BY <1>2 DEF ReadRow, DeskTypeOK
  <2>4. pile = "user" /\ Accepts(i, stroke[c].decision, status[i])
           => ~(stroke[c].decision = "REJECTED" /\ i \in staff)
    BY DEF Accepts, UserAccepts
  <2>5. status' = status
    BY <1>2 DEF ReadRow
  <2> HIDE DEF q, i
  <2> QED
    BY <1>0, <2>2, <2>3, <2>4, <2>5, StrokesTyped DEF StaffInv, DeskTypeOK
<1>3. ASSUME NEW c \in Clerk, WriteRow(c) PROVE StaffInv'
  <2>1. /\ stroke[c].on \in Item /\ stroke[c].step = "write"
        /\ status' = status \/ status' = [status EXCEPT ![stroke[c].on] = stroke[c].decision]
    BY <1>3 DEF WriteRow, DeskTypeOK
  <2>2. \A j \in staff : status'[j] # "REJECTED"
    BY <2>1 DEF StaffInv, DeskTypeOK
  <2>3. \A e \in Clerk : stroke'[e].step = "write" => stroke'[e] = stroke[e]
    <3> DEFINE q(x) == [stroke[c] EXCEPT !.step = x, !.was = Blank]
    <3>1. \A x \in {"tell", "refetch"} : q(x).step = x
      BY StrokesTyped DEF Stroke
    <3>2. \/ \E x \in {"tell", "refetch"} : stroke' = [stroke EXCEPT ![c] = q(x)]
          \/ stroke' = [stroke EXCEPT ![c] = AtDesk]
      BY <1>3 DEF WriteRow, DeskTypeOK
    <3> HIDE DEF q
    <3> QED
      BY <3>1, <3>2, StrokesTyped DEF DeskTypeOK
  <2> QED
    BY <1>0, <2>2, <2>3 DEF StaffInv
<1>4. ASSUME NEW c \in Clerk, Tell(c) \/ DieBeforeTelling(c) PROVE StaffInv'
  <2> DEFINE q == [stroke[c] EXCEPT !.step = "refetch"]
  <2>1. q.step = "refetch" /\ status' = status
    BY <1>4, StrokesTyped DEF Stroke, Tell, DieBeforeTelling
  <2>2. stroke' = [stroke EXCEPT ![c] = q] \/ stroke' = [stroke EXCEPT ![c] = AtDesk]
    BY <1>4 DEF Tell, DieBeforeTelling, DeskTypeOK
  <2> HIDE DEF q
  <2> QED
    BY <1>0, <2>1, <2>2, StrokesTyped DEF StaffInv, DeskTypeOK
<1>5. ASSUME NEW c \in Clerk, NEW s \in DOMAIN States, FetchRows(c, s) \/ Refetched(c, s)
      PROVE  StaffInv'
  <2>1. /\ stroke' = stroke \/ stroke' = [stroke EXCEPT ![c] = AtDesk]
        /\ status' = status
    BY <1>5 DEF FetchRows, Refetched
  <2> QED
    BY <1>0, <2>1, StrokesTyped DEF StaffInv, DeskTypeOK
<1>6. ASSUME NEW c \in Clerk, NEW i \in Item, NEW d \in Decision, Press(c, i, d) PROVE StaffInv'
  <2> DEFINE q == [step |-> "read", on |-> i, decision |-> d, was |-> screen[c][i]]
  <2>1. q.step = "read" /\ stroke' = [stroke EXCEPT ![c] = q] /\ status' = status
    BY <1>6 DEF Press
  <2> HIDE DEF q
  <2> QED
    BY <1>0, <2>1 DEF StaffInv, DeskTypeOK
<1>7. CASE UNCHANGED adminVars
  BY <1>7 DEF adminVars, StaffInv
<1> QED
  BY <1>1, <1>2, <1>3, <1>4, <1>5, <1>6, <1>7 DEF AdminNext

LEMMA PressedKept ==
    ASSUME DeskTypeOK, PressedInv, [AdminNext]_adminVars
    PROVE  PressedInv'
<1> USE DEF PressedInv
<1>0. UNCHANGED <<pile, staff>>
  BY DEF AdminNext, Submit, Flag, Withdraw, ReadRow, WriteRow, Tell, DieBeforeTelling, FetchRows,
     Refetched, Press, adminVars
<1>1. UNCHANGED Offered /\ \A s : UNCHANGED Buttons(s)
  BY <1>0 DEF Offered, Buttons
<1>2. ASSUME NEW c \in Clerk, ReadRow(c) PROVE PressedInv'
  <2> DEFINE i == stroke[c].on
  <2>1. /\ stroke[c].was \in Offered /\ stroke[c].decision \in Buttons(stroke[c].was)
        /\ stroke[c].step = "read"
    BY <1>2 DEF ReadRow
  <2>2. status[i] = stroke[c].was /\ i \notin staff
           => Filed(i) /\ Accepts(i, stroke[c].decision, status[i])
    BY <2>1, ButtonsAreAccepted, OfferedTyped DEF Filed, DeskTypeOK
  <2>3. snubbed' \subseteq staff
    BY <1>2, <2>2 DEF ReadRow
  <2>4. \A e \in Clerk : stroke'[e].step = "read" => stroke'[e] = stroke[e]
    <3>1. PICK q : q.step # "read" /\ stroke' = [stroke EXCEPT ![c] = q]
      <4>1. CASE stroke' = [stroke EXCEPT ![c] = AtDesk]
        BY <4>1, StrokesTyped
      <4>2. CASE stroke' = [stroke EXCEPT ![c] = [stroke[c] EXCEPT !.step = "write", !.was = status[i]]]
        <5> DEFINE q == [stroke[c] EXCEPT !.step = "write", !.was = status[i]]
        <5>1. q.step = "write"
          BY StrokesTyped DEF Stroke
        <5>2. stroke' = [stroke EXCEPT ![c] = q]
          BY <4>2
        <5> HIDE DEF q
        <5> QED
          BY <5>1, <5>2
      <4> QED
        BY <1>2, <4>1, <4>2 DEF ReadRow, DeskTypeOK
    <3> QED
      BY <3>1 DEF DeskTypeOK
  <2> QED
    BY <1>0, <1>1, <2>3, <2>4
<1>3. ASSUME NEW c \in Clerk, NEW i \in Item, NEW d \in Decision, Press(c, i, d) PROVE PressedInv'
  <2>1. /\ UNCHANGED snubbed
        /\ screen[c][i] \in Offered /\ d \in Buttons(screen[c][i])
        /\ stroke' = [stroke EXCEPT ![c] = [step |-> "read", on |-> i, decision |-> d,
                                            was |-> screen[c][i]]]
    BY <1>3 DEF Press, DeskTypeOK
  <2>2. \A e \in Clerk : stroke'[e].step = "read" =>
           \/ stroke'[e] = stroke[e]
           \/ stroke'[e].was = screen[c][i] /\ stroke'[e].decision = d
    BY <2>1 DEF DeskTypeOK
  <2> QED
    BY <1>0, <1>1, <2>1, <2>2
<1>4. ASSUME NEW c \in Clerk,
             WriteRow(c) \/ Tell(c) \/ DieBeforeTelling(c) \/ \E s \in DOMAIN States : Refetched(c, s)
      PROVE  PressedInv'
  <2>1. UNCHANGED snubbed
    BY <1>4 DEF WriteRow, Tell, DieBeforeTelling, Refetched, adminHistory
  <2>2. \A e \in Clerk : stroke'[e].step = "read" => stroke'[e] = stroke[e]
    <3>1. PICK q : q.step # "read" /\ stroke' = [stroke EXCEPT ![c] = q]
      <4>1. CASE stroke' = [stroke EXCEPT ![c] = AtDesk]
        BY <4>1, StrokesTyped
      <4>2. CASE \E x \in {"tell", "refetch"} :
               stroke' = [stroke EXCEPT ![c] = [stroke[c] EXCEPT !.step = x, !.was = Blank]]
        <5> DEFINE q(x) == [stroke[c] EXCEPT !.step = x, !.was = Blank]
        <5>1. \A x \in {"tell", "refetch"} : q(x).step = x
          BY StrokesTyped DEF Stroke
        <5>2. \E x \in {"tell", "refetch"} : stroke' = [stroke EXCEPT ![c] = q(x)]
          BY <4>2
        <5> HIDE DEF q
        <5> QED
          BY <5>1, <5>2
      <4>3. CASE stroke' = [stroke EXCEPT ![c] = [stroke[c] EXCEPT !.step = "refetch"]]
        <5> DEFINE q == [stroke[c] EXCEPT !.step = "refetch"]
        <5>1. q.step = "refetch"
          BY StrokesTyped DEF Stroke
        <5>2. stroke' = [stroke EXCEPT ![c] = q]
          BY <4>3
        <5> HIDE DEF q
        <5> QED
          BY <5>1, <5>2
      <4> QED
        BY <1>4, <4>1, <4>2, <4>3 DEF WriteRow, Tell, DieBeforeTelling, Refetched, DeskTypeOK
    <3> QED
      BY <3>1 DEF DeskTypeOK
  <2> QED
    BY <1>0, <1>1, <2>1, <2>2
<1>5. CASE UNCHANGED <<stroke, snubbed>>
  BY <1>0, <1>1, <1>5
<1> QED
  BY <1>2, <1>3, <1>4, <1>5 DEF AdminNext, Submit, Flag, Withdraw, FetchRows, adminVars, adminHistory

LEMMA ToldKept ==
    ASSUME DeskTypeOK, [AdminNext]_adminVars, NEW i \in Item, i \in crossed \/ ToldInv(i)
    PROVE  i \in crossed' \/ ToldInv(i)'
<1> SUFFICES ASSUME i \notin crossed' PROVE ToldInv(i)'
  OBVIOUS
<1> USE DEF ToldInv, AtWorkOn
<1>0. crossed \subseteq crossed'
  BY DEF AdminNext, Submit, Flag, Withdraw, ReadRow, WriteRow, Tell, DieBeforeTelling, FetchRows,
     Refetched, Press, adminVars, adminHistory
<1>1. ToldInv(i)
  BY <1>0
<1>2. ASSUME NEW c \in Clerk, ReadRow(c) PROVE ToldInv(i)'
  <2> DEFINE q == [stroke[c] EXCEPT !.step = "write", !.was = status[stroke[c].on]]
  <2>1. /\ q.step = "write" /\ q.on = stroke[c].on
        /\ stroke[c] \in Stroke /\ stroke[c].step = "read"
    BY <1>2, StrokesTyped DEF Stroke, ReadRow
  <2>2. UNCHANGED <<decided, heard>>
    BY <1>2 DEF ReadRow
  <2>3. \/ /\ stroke' = [stroke EXCEPT ![c] = q]
           /\ stroke[c].on = i => AtWorkOn(i) = {}
        \/ stroke' = [stroke EXCEPT ![c] = AtDesk]
    BY <1>2 DEF ReadRow, DeskTypeOK
  <2> HIDE DEF q
  <2>4. CASE stroke' = [stroke EXCEPT ![c] = AtDesk]
    BY <1>1, <2>1, <2>2, <2>4, StrokesTyped DEF DeskTypeOK
  <2>5. CASE /\ stroke' = [stroke EXCEPT ![c] = q]
             /\ stroke[c].on = i => AtWorkOn(i) = {}
    BY <1>1, <2>1, <2>2, <2>5 DEF DeskTypeOK
  <2> QED
    BY <2>3, <2>4, <2>5
<1>3. ASSUME NEW c \in Clerk, WriteRow(c) PROVE ToldInv(i)'
  <2> DEFINE q(x) == [stroke[c] EXCEPT !.step = x, !.was = Blank]
  <2>1. /\ stroke[c] \in Stroke /\ stroke[c].step = "write"
        /\ \A x \in {"tell", "refetch"} :
              q(x).step = x /\ q(x).on = stroke[c].on /\ q(x).decision = stroke[c].decision
    BY <1>3, StrokesTyped DEF Stroke, WriteRow
  <2>2. UNCHANGED heard
    BY <1>3 DEF WriteRow
  <2>3. \/ /\ stroke' = [stroke EXCEPT ![c] = q("tell")]
           /\ decided' = [decided EXCEPT ![stroke[c].on] = stroke[c].decision]
        \/ stroke' = [stroke EXCEPT ![c] = q("refetch")] /\ decided' = decided
        \/ stroke' = [stroke EXCEPT ![c] = AtDesk] /\ decided' = decided
    BY <1>3 DEF WriteRow, DeskTypeOK
  <2> HIDE DEF q
  <2>4. CASE /\ stroke' = [stroke EXCEPT ![c] = q("tell")]
             /\ decided' = [decided EXCEPT ![stroke[c].on] = stroke[c].decision]
    BY <1>1, <2>1, <2>2, <2>4 DEF DeskTypeOK
  <2>5. CASE stroke' = [stroke EXCEPT ![c] = q("refetch")] /\ decided' = decided
    BY <1>1, <2>1, <2>2, <2>5 DEF DeskTypeOK
  <2>6. CASE stroke' = [stroke EXCEPT ![c] = AtDesk] /\ decided' = decided
    BY <1>1, <2>1, <2>2, <2>6, StrokesTyped DEF DeskTypeOK
  <2> QED
    BY <2>3, <2>4, <2>5, <2>6
<1>4. ASSUME NEW c \in Clerk, Tell(c) PROVE ToldInv(i)'
  <2> DEFINE q == [stroke[c] EXCEPT !.step = "refetch"]
  <2>1. /\ q.step = "refetch" /\ stroke[c].step = "tell" /\ stroke[c].on \in Item
    BY <1>4, StrokesTyped DEF Stroke, Tell, DeskTypeOK
  <2>2. /\ stroke' = [stroke EXCEPT ![c] = q] /\ decided' = decided
        /\ heard' = [heard EXCEPT ![stroke[c].on] = stroke[c].decision]
    BY <1>4 DEF Tell
  <2> HIDE DEF q
  <2> QED
    BY <1>1, <2>1, <2>2 DEF DeskTypeOK
<1>5. ASSUME NEW c \in Clerk, DieBeforeTelling(c) PROVE ToldInv(i)'
  <2>1. /\ stroke[c].on # i /\ UNCHANGED <<decided, heard>>
        /\ stroke' = [stroke EXCEPT ![c] = AtDesk]
    BY <1>5 DEF DieBeforeTelling
  <2> QED
    BY <1>1, <2>1, StrokesTyped DEF DeskTypeOK
<1>6. ASSUME NEW c \in Clerk, NEW s \in DOMAIN States, Refetched(c, s) PROVE ToldInv(i)'
  <2>1. /\ stroke[c].step = "refetch" /\ UNCHANGED <<decided, heard>>
        /\ stroke' = [stroke EXCEPT ![c] = AtDesk]
    BY <1>6 DEF Refetched, adminHistory
  <2> QED
    BY <1>1, <2>1, StrokesTyped DEF DeskTypeOK
<1>7. ASSUME NEW c \in Clerk, NEW j \in Item, NEW d \in Decision, Press(c, j, d) PROVE ToldInv(i)'
  <2> DEFINE q == [step |-> "read", on |-> j, decision |-> d, was |-> screen[c][j]]
  <2>1. stroke[c].step = "idle" /\ q.step = "read"
    BY <1>7 DEF Press
  <2>2. stroke' = [stroke EXCEPT ![c] = q] /\ UNCHANGED <<decided, heard>>
    BY <1>7 DEF Press
  <2> HIDE DEF q
  <2> QED
    BY <1>1, <2>1, <2>2 DEF DeskTypeOK
<1>8. CASE UNCHANGED <<stroke, decided, heard>>
  BY <1>1, <1>8
<1> QED
  BY <1>2, <1>3, <1>4, <1>5, <1>6, <1>7, <1>8 DEF AdminNext, Submit, Flag, Withdraw, FetchRows,
     adminVars, adminHistory

LEMMA DeskBegins == AdminInit => DeskInv
<1> SUFFICES ASSUME AdminInit PROVE DeskInv
  OBVIOUS
<1>1. AtDesk \in Stroke /\ AtDesk.step = "idle"
  BY DEF AtDesk, Stroke
<1>2. /\ status \in [Item -> RowStatus] /\ filed \in Seq(Item) /\ stroke \in [Clerk -> Stroke]
      /\ \A c \in Clerk : stroke[c] = AtDesk
  BY <1>1 DEF AdminInit, RowStatus
<1>3. /\ screen = [c \in Clerk |-> screen[c]]
      /\ \A c \in Clerk : DOMAIN screen[c] = {}
  BY DEF AdminInit
<1>4. DeskTypeOK
  BY <1>1, <1>2, <1>3 DEF AdminInit, DeskTypeOK
<1>5. StaffInv
  BY <1>1, <1>2 DEF AdminInit, StaffInv
<1> QED
  BY <1>1, <1>2, <1>4, <1>5 DEF AdminInit, DeskInv, PressedInv, ToldInv, AtWorkOn

LEMMA DeskKept == DeskInv /\ [AdminNext]_adminVars => DeskInv'
<1> SUFFICES ASSUME DeskInv, [AdminNext]_adminVars PROVE DeskInv'
  OBVIOUS
<1>1. DeskTypeOK' /\ StaffInv' /\ PressedInv'
  BY DeskTypesKept, StaffKept, PressedKept DEF DeskInv
<1>2. \A i \in Item : i \in crossed' \/ ToldInv(i)'
  BY ToldKept DEF DeskInv
<1> QED
  BY <1>1, <1>2 DEF DeskInv

\* The conditions of the buttons (app/admin) imply those of the decisions, and each
\* decision is told by whoever took it: for any number of rows and administrators, no
\* button is refused on a row that is still as shown, but for the bans offered on the
\* accounts of administrators, which are never made; and an author has heard the last
\* decision, but for two taken at once and a process that died (admin.service.ts).
THEOREM TheDeskIsHonest == AdminSpec => []DeskIsHonest
<1>1. DeskInv => DeskIsHonest
  BY DEF DeskInv, StaffInv, PressedInv, ToldInv, DeskIsHonest, ButtonsWork, AuthorsAreTold
<1> QED
  BY <1>1, DeskBegins, DeskKept, PTL DEF AdminSpec

=============================================================================
