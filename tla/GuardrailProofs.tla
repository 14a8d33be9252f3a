--------------------------- MODULE GuardrailProofs ---------------------------
(***************************************************************************)
(* What the hooks promise for any number of requests, terms, scopes and    *)
(* slots, any calls and any answers, when the log is not given the object  *)
(* that is returned to the client.                                         *)
(***************************************************************************)
EXTENDS Guardrail, TLAPS

(* The records the hooks keep of a request and of its log.                 *)
Configs == [fail_open : BOOLEAN, mask_system : BOOLEAN]

RequestStates ==
    [state : States, call : CallBodies \cup {NoCall}, scope : Scopes, body : Seq(Fields),
     left : SUBSET Nat, todo : SUBSET Terms,
     response : ResponseBodies \cup {NoResponse}, answer : Seq(Fields),
     leaked : BOOLEAN, error : BOOLEAN]

LogStates ==
    [state : {"none", "remasking", "logged", "unmasked"}, body : Seq(Fields),
     left : SUBSET Nat, todo : SUBSET Terms]

(* Slots of what the client of q asked and of what the LLM answered, under *)
(* the configuration c.                                                    *)
Asked(c, q) ==
    {i \in DOMAIN q.call.body :
        RequestSlot(AdapterOf(q.call.call_type), q.call.body[i], c.mask_system)}

Answered(q) == ResponseSlots(q.response)

(* A request whose text has left for the LLM.                              *)
Gone(q) ==
    /\ q.state \notin {"idle", "masking", "blocked"}
    /\ q.call.call_type \notin NonTextCallTypes

(* The loop of the pre-call hook: slots behind it are masked, and what it  *)
(* has assigned of the slot it stands at is in the vault v.                *)
MaskingInv(c, q, v) ==
    q.state = "masking" =>
        /\ q.call.call_type \notin NonTextCallTypes
        /\ q.left \subseteq Asked(c, q)
        /\ q.todo \subseteq TermsAt(q.body, q.left)
        /\ \A i \in Asked(c, q) \ q.left : q.body[i].terms = {}
        /\ \A t \in TermsAt(q.body, q.left) \ q.todo : Code(q.scope, t) \in v

(* Only slots are changed, and only by placeholders the vault has.         *)
BodyInv(c, q, v) ==
    /\ DOMAIN q.body = DOMAIN q.call.body
    /\ \A i \in DOMAIN q.body : q.body[i].holders \ q.call.body[i].holders \subseteq v
    /\ \A i \in DOMAIN q.body \ Asked(c, q) : q.body[i] = q.call.body[i]

SentInv(c, q) ==
    (Gone(q) /\ ~c.fail_open) => \A i \in Asked(c, q) : q.body[i].terms = {}

(* The loop of the post-call hook: a placeholder left behind it is flagged.*)
RestoringInv(c, q) ==
    q.state = "restoring" =>
        /\ ~q.call.stream
        /\ q.left \subseteq Answered(q)
        /\ ~c.fail_open =>
              \A i \in Answered(q) \ q.left : q.answer[i].holders # {} => q.leaked

AnswerInv(c, q) ==
    /\ ~q.call.stream => DOMAIN q.answer = DOMAIN q.response.body
    /\ q.state = "streaming" => q.call.stream
    /\ (q.state = "delivered" /\ ~q.call.stream /\ ~c.fail_open) =>
          \A i \in Answered(q) : q.answer[i].holders = {}

ReqInv(c, q, v) ==
    /\ q \in RequestStates
    /\ MaskingInv(c, q, v)
    /\ BodyInv(c, q, v)
    /\ SentInv(c, q)
    /\ RestoringInv(c, q)
    /\ AnswerInv(c, q)

LogInv(l) == l \in LogStates /\ (l.state = "remasking" => l.left \subseteq DOMAIN l.body)

(* The invariant of the state <<c, v, q, l>> of config, vault, req and log.*)
InvOf(c, v, q, l) ==
    /\ c \in Configs
    /\ v \subseteq Codes
    /\ q = [r \in Requests |-> q[r]]
    /\ l = [r \in Requests |-> l[r]]
    /\ \A r \in Requests : ReqInv(c, q[r], v) /\ LogInv(l[r])

IInv == InvOf(config, vault, req, log)

-----------------------------------------------------------------------------

(* The loop stands at one slot only.                                       *)
LEMMA FirstIsOne ==
    ASSUME NEW left \in SUBSET Nat, NEW i \in First(left)
    PROVE  i \in left /\ First(left) = {i}
<1>1. i \in left /\ \A j \in left : i <= j
  BY DEF First
<1>2. ASSUME NEW k \in First(left) PROVE k = i
  <2>1. k \in left /\ \A j \in left : k <= j
    BY <1>2 DEF First
  <2>2. k <= i /\ i <= k /\ k \in Nat /\ i \in Nat
    BY <1>1, <2>1
  <2> QED
    BY <2>2
<1> QED
  BY <1>1, <1>2

LEMMA TermsAtFirst ==
    ASSUME NEW left \in SUBSET Nat, NEW i \in First(left), NEW body
    PROVE  TermsAt(body, left) = body[i].terms
<1>1. First(left) = {i}
  BY FirstIsOne
<1> QED
  BY <1>1, Zenon DEF TermsAt

(* What the hook reads of a slot is made of dictionary terms.              *)
LEMMA TermsAtType ==
    ASSUME NEW body \in Seq(Fields), NEW left \in SUBSET Nat, left \subseteq DOMAIN body
    PROVE  TermsAt(body, left) \subseteq Terms
<1>1. \A i \in First(left) : body[i] \in Fields
  BY DEF First
<1>2. \A i \in First(left) : body[i].terms \subseteq Terms
  BY <1>1 DEF Fields
<1> QED
  BY <1>2, Zenon DEF TermsAt

LEMMA MaskType ==
    ASSUME NEW f \in Fields, NEW s \in Scopes
    PROVE  Mask(f, s) \in Fields
<1>1. {Code(s, t) : t \in f.terms} \subseteq Codes
  BY DEF Fields, Code, Codes
<1>2. [f EXCEPT !.terms = {}, !.holders = @ \cup {Code(s, t) : t \in f.terms}] \in Fields
  BY <1>1 DEF Fields
<1> QED
  BY <1>2 DEF Mask

LEMMA UnmaskType ==
    ASSUME NEW f \in Fields, vault \subseteq Codes
    PROVE  Unmask(f) \in Fields
<1>1. {c.term : c \in f.holders \cap vault} \subseteq Terms
  BY DEF Codes
<1> QED
  BY <1>1 DEF Unmask, Fields

LEMMA StreamedType ==
    ASSUME NEW response, NEW f \in Fields, vault \subseteq Codes
    PROVE  Streamed(response, f) \in Fields
BY UnmaskType DEF Streamed

LEMMA ScopeType ==
    ASSUME NEW given \in Seq(Scopes \cup {Unset})
    PROVE  PerRequestScope(given) \in Scopes
<1> DEFINE set  == {i \in DOMAIN given : given[i] # Unset}
           last == {i \in set : \A j \in set : j <= i}
<1>1. CASE last = {}
  BY <1>1, ScopeAssumption DEF PerRequestScope
<1>2. CASE last # {}
  <2>1. (CHOOSE i \in last : TRUE) \in last
    BY <1>2
  <2>2. given[CHOOSE i \in last : TRUE] \in Scopes
    BY <2>1
  <2> QED
    BY <1>2, <2>2 DEF PerRequestScope
<1> QED
  BY <1>1, <1>2

(* What is read of a slot depends on that slot only.                       *)
LEMMA TermsAtSame ==
    ASSUME NEW left, NEW b, NEW d, \A j \in left : b[j] = d[j]
    PROVE  TermsAt(b, left) = TermsAt(d, left)
<1>1. \A j \in First(left) : b[j] = d[j]
  BY DEF First
<1> QED
  BY <1>1, Zenon DEF TermsAt

LEMMA TermsAtNone == \A b : TermsAt(b, {}) = {}
BY Zenon DEF TermsAt, First

(* Nothing a request relies on is taken from the vault.                    *)
LEMMA VaultGrows ==
    ASSUME NEW c, NEW q, NEW v, NEW w, v \subseteq w, ReqInv(c, q, v)
    PROVE  ReqInv(c, q, w)
<1>1. MaskingInv(c, q, w)
  BY DEF ReqInv, MaskingInv
<1>2. BodyInv(c, q, w)
  BY DEF ReqInv, BodyInv
<1> QED
  BY <1>1, <1>2 DEF ReqInv

(* A step of one request, with the vault only growing.                     *)
LEMMA RequestStep ==
    ASSUME IInv, NEW r \in Requests, NEW q, NEW w,
           config' = config, vault \subseteq w, w \subseteq Codes, vault' = w,
           req' = [req EXCEPT ![r] = q], log' = log, ReqInv(config, q, w)
    PROVE  IInv'
<1>1. \A s \in Requests : ReqInv(config, req'[s], w)
  <2> TAKE s \in Requests
  <2>1. CASE s = r
    BY <2>1 DEF IInv, InvOf
  <2>2. CASE s # r
    <3>1. req'[s] = req[s] /\ ReqInv(config, req[s], vault)
      BY <2>2 DEF IInv, InvOf
    <3> QED
      BY <3>1, VaultGrows
  <2> QED
    BY <2>1, <2>2
<1>2. InvOf(config', vault', req', log')
  BY <1>1 DEF IInv, InvOf
<1> QED
  BY <1>2 DEF IInv

-----------------------------------------------------------------------------

LEMMA CalledType ==
    ASSUME NEW st \in States, NEW call \in CallBodies, NEW scope \in Scopes,
           NEW left \in SUBSET Nat, NEW todo \in SUBSET Terms
    PROVE  [Idle EXCEPT !.state = st, !.call = call, !.body = call.body,
                        !.scope = scope, !.left = left, !.todo = todo] \in RequestStates
<1>1. call.body \in Seq(Fields) /\ <<>> \in Seq(Fields)
  BY DEF CallBodies
<1> QED
  BY <1>1 DEF Idle, RequestStates

LEMMA CallStep ==
    ASSUME IInv, NEW r \in Requests, NEW call \in Calls, Call(r, call)
    PROVE  IInv'
<1> DEFINE nontext == call.call_type \in NonTextCallTypes
           slots == IF nontext THEN {} ELSE RequestSlots(call.call_type, call.body)
           n == [Idle EXCEPT !.state = IF nontext THEN "sent" ELSE "masking",
                             !.call = call, !.body = call.body,
                             !.scope = PerRequestScope(call.scopes),
                             !.left = slots, !.todo = TermsAt(call.body, slots)]
<1>1. /\ call \in CallBodies /\ call.body \in Seq(Fields)
      /\ PerRequestScope(call.scopes) \in Scopes
  BY CallAssumption, ScopeType DEF CallBodies
<1>2. slots \subseteq DOMAIN call.body /\ slots \in SUBSET Nat
  BY <1>1 DEF RequestSlots
<1>3. TermsAt(call.body, slots) \subseteq Terms
  BY <1>1, <1>2, TermsAtType
<1>5. /\ n.state = (IF nontext THEN "sent" ELSE "masking") /\ n.call = call
      /\ n.body = call.body /\ n.scope = PerRequestScope(call.scopes)
      /\ n.left = slots /\ n.todo = TermsAt(call.body, slots)
      /\ n.response = NoResponse /\ n.answer = <<>>
  BY DEF Idle
<1>6. n \in RequestStates
  <2>1. (IF nontext THEN "sent" ELSE "masking") \in States
    BY DEF States
  <2> HIDE DEF slots
  <2> QED
    BY <1>1, <1>2, <1>3, <2>1, CalledType
<1>7. MaskingInv(config, n, vault)
  BY <1>5 DEF MaskingInv, Asked, RequestSlots
<1>8. BodyInv(config, n, vault) /\ SentInv(config, n) /\ RestoringInv(config, n)
  BY <1>5 DEF BodyInv, SentInv, Gone, RestoringInv
<1>9. AnswerInv(config, n)
  BY <1>5 DEF AnswerInv, NoResponse
<1>10. ReqInv(config, n, vault)
  BY <1>6, <1>7, <1>8, <1>9 DEF ReqInv
<1>11. req' = [req EXCEPT ![r] = n] /\ UNCHANGED <<config, vault, log>>
  BY DEF Call
<1> QED
  BY <1>10, <1>11, RequestStep DEF IInv, InvOf

LEMMA AssignStep ==
    ASSUME IInv, NEW r \in Requests, NEW t \in Terms, Assign(r, t)
    PROVE  IInv'
<1> DEFINE q == req[r]
           n == [q EXCEPT !.todo = @ \ {t}]
           w == vault \cup {Code(q.scope, t)}
<1>1. q \in RequestStates /\ ReqInv(config, q, vault) /\ vault \subseteq Codes
  BY DEF IInv, InvOf, ReqInv
<1>2. w \subseteq Codes /\ ReqInv(config, q, w)
  <2>1. Code(q.scope, t) \in Codes
    BY <1>1 DEF RequestStates, Code, Codes
  <2> QED
    BY <1>1, <2>1, VaultGrows
<1>3. /\ n \in RequestStates /\ n.todo = q.todo \ {t}
      /\ n.state = q.state /\ n.call = q.call /\ n.body = q.body /\ n.left = q.left
      /\ n.scope = q.scope /\ n.response = q.response /\ n.answer = q.answer
      /\ n.leaked = q.leaked
  BY <1>1 DEF RequestStates
<1>4. MaskingInv(config, n, w)
  BY <1>2, <1>3 DEF ReqInv, MaskingInv, Asked
<1>5. BodyInv(config, n, w) /\ SentInv(config, n)
  BY <1>2, <1>3 DEF ReqInv, BodyInv, SentInv, Gone, Asked
<1>6. RestoringInv(config, n) /\ AnswerInv(config, n)
  BY <1>2, <1>3 DEF ReqInv, RestoringInv, AnswerInv, Answered
<1>7. ReqInv(config, n, w)
  BY <1>3, <1>4, <1>5, <1>6 DEF ReqInv
<1>8. /\ req' = [req EXCEPT ![r] = n] /\ vault' = w /\ UNCHANGED <<config, log>>
  BY DEF Assign
<1> QED
  BY <1>2, <1>7, <1>8, RequestStep

LEMMA SetSlotStep ==
    ASSUME IInv, NEW r \in Requests, SetSlot(r)
    PROVE  IInv'
<1> DEFINE q == req[r]
<1>1. q \in RequestStates /\ ReqInv(config, q, vault)
  BY DEF IInv, InvOf, ReqInv
<1>2. PICK i \in First(q.left) : NextSlot(r, i)
  BY DEF SetSlot
<1> DEFINE rest == q.left \ {i}
           masked == Mask(q.body[i], q.scope)
           n == [q EXCEPT !.body = [@ EXCEPT ![i] = masked], !.left = rest,
                          !.todo = TermsAt(q.body, rest)]
<1>3. /\ q.state = "masking" /\ q.todo = {} /\ q.left \in SUBSET Nat
      /\ q.left \subseteq Asked(config, q) /\ Asked(config, q) \subseteq DOMAIN q.call.body
      /\ DOMAIN q.body = DOMAIN q.call.body /\ q.body \in Seq(Fields)
      /\ q.call.call_type \notin NonTextCallTypes
  BY <1>1 DEF SetSlot, ReqInv, MaskingInv, BodyInv, Asked, RequestStates
<1>4. i \in q.left /\ i \in Asked(config, q) /\ i \in DOMAIN q.body
  BY <1>2, <1>3, FirstIsOne
<1>5. q.body[i] \in Fields /\ masked \in Fields
  BY <1>1, <1>3, <1>4, MaskType DEF RequestStates
<1>6. /\ masked.terms = {}
      /\ masked.holders = q.body[i].holders \cup {Code(q.scope, t) : t \in q.body[i].terms}
  BY <1>5 DEF Mask, Fields
<1>7. {Code(q.scope, t) : t \in q.body[i].terms} \subseteq vault
  <2>1. TermsAt(q.body, q.left) = q.body[i].terms
    BY <1>2, <1>3, TermsAtFirst
  <2> QED
    BY <1>1, <1>3, <2>1 DEF ReqInv, MaskingInv
<1>8. /\ n.body = [q.body EXCEPT ![i] = masked] /\ n.left = rest
      /\ n.todo = TermsAt(q.body, rest)
      /\ n.state = q.state /\ n.call = q.call /\ n.scope = q.scope
      /\ n.response = q.response /\ n.answer = q.answer /\ n.leaked = q.leaked
  BY <1>1 DEF RequestStates
<1>9. n \in RequestStates
  <2>1. TermsAt(q.body, rest) \subseteq Terms
    BY <1>3, TermsAtType
  <2>2. [q.body EXCEPT ![i] = masked] \in Seq(Fields)
    BY <1>3, <1>4, <1>5
  <2> QED
    BY <1>1, <2>1, <2>2 DEF RequestStates
<1>10. TermsAt(n.body, rest) = TermsAt(q.body, rest)
  <2>1. \A j \in rest : n.body[j] = q.body[j]
    BY <1>3, <1>8
  <2> QED
    BY <2>1, TermsAtSame
<1>11. MaskingInv(config, n, vault)
  <2>1. Asked(config, n) = Asked(config, q)
    BY <1>8 DEF Asked
  <2>2. \A j \in Asked(config, q) \ rest : n.body[j].terms = {}
    BY <1>1, <1>3, <1>4, <1>6, <1>8 DEF ReqInv, MaskingInv
  <2> QED
    BY <1>3, <1>8, <1>10, <2>1, <2>2 DEF MaskingInv
<1>12. BodyInv(config, n, vault)
  <2>1. Asked(config, n) = Asked(config, q)
    BY <1>8 DEF Asked
  <2>2. \A j \in DOMAIN q.body : n.body[j].holders \ q.call.body[j].holders \subseteq vault
    BY <1>1, <1>4, <1>6, <1>7, <1>8 DEF ReqInv, BodyInv
  <2>3. \A j \in DOMAIN q.body \ Asked(config, q) : n.body[j] = q.call.body[j]
    BY <1>1, <1>4, <1>8 DEF ReqInv, BodyInv
  <2> QED
    BY <1>3, <1>8, <2>1, <2>2, <2>3 DEF BodyInv
<1>13. SentInv(config, n) /\ RestoringInv(config, n) /\ AnswerInv(config, n)
  BY <1>1, <1>3, <1>8 DEF ReqInv, SentInv, Gone, RestoringInv, AnswerInv
<1>14. ReqInv(config, n, vault)
  BY <1>9, <1>11, <1>12, <1>13 DEF ReqInv
<1>15. req' = [req EXCEPT ![r] = n] /\ UNCHANGED <<config, vault, log>>
  <2>1. UNCHANGED <<config, vault, log>>
    BY DEF SetSlot
  <2>2. req' = [req EXCEPT ![r] = n]
    BY <1>2, Zenon DEF NextSlot
  <2> QED
    BY <2>1, <2>2
<1> QED
  BY <1>14, <1>15, RequestStep DEF IInv, InvOf

LEMMA ForwardStep ==
    ASSUME IInv, NEW r \in Requests, Forward(r)
    PROVE  IInv'
<1> DEFINE q == req[r]
           n == [q EXCEPT !.state = "sent"]
<1>1. q \in RequestStates /\ ReqInv(config, q, vault)
  BY DEF IInv, InvOf, ReqInv
<1>2. q.state = "masking" /\ q.left = {}
  BY DEF Forward
<1>3. /\ n \in RequestStates /\ n.state = "sent"
      /\ n.call = q.call /\ n.body = q.body
      /\ n.response = q.response /\ n.answer = q.answer
  BY <1>1 DEF RequestStates, States
<1>4. BodyInv(config, n, vault) /\ SentInv(config, n)
  BY <1>1, <1>2, <1>3 DEF ReqInv, BodyInv, SentInv, MaskingInv, Asked
<1>5. MaskingInv(config, n, vault) /\ RestoringInv(config, n) /\ AnswerInv(config, n)
  BY <1>1, <1>3 DEF ReqInv, MaskingInv, RestoringInv, AnswerInv, Answered
<1>6. ReqInv(config, n, vault)
  BY <1>3, <1>4, <1>5 DEF ReqInv
<1>7. req' = [req EXCEPT ![r] = n] /\ UNCHANGED <<config, vault, log>>
  BY DEF Forward
<1> QED
  BY <1>6, <1>7, RequestStep DEF IInv, InvOf

LEMMA MaskFailsStep ==
    ASSUME IInv, NEW r \in Requests, MaskFails(r)
    PROVE  IInv'
<1> DEFINE q == req[r]
           n == [q EXCEPT !.state = IF config.fail_open THEN "sent" ELSE "blocked",
                          !.error = TRUE]
<1>1. q \in RequestStates /\ ReqInv(config, q, vault)
  BY DEF IInv, InvOf, ReqInv
<1>2. q.state = "masking"
  BY DEF MaskFails
<1>3. /\ n \in RequestStates
      /\ n.state = (IF config.fail_open THEN "sent" ELSE "blocked")
      /\ n.call = q.call /\ n.body = q.body
      /\ n.response = q.response /\ n.answer = q.answer
  BY <1>1 DEF RequestStates, States
<1>4. BodyInv(config, n, vault) /\ SentInv(config, n)
  BY <1>1, <1>3 DEF ReqInv, BodyInv, SentInv, Gone, Asked
<1>5. MaskingInv(config, n, vault) /\ RestoringInv(config, n) /\ AnswerInv(config, n)
  BY <1>1, <1>3 DEF ReqInv, MaskingInv, RestoringInv, AnswerInv, Answered
<1>6. ReqInv(config, n, vault)
  BY <1>3, <1>4, <1>5 DEF ReqInv
<1>7. req' = [req EXCEPT ![r] = n] /\ UNCHANGED <<config, vault, log>>
  BY DEF MaskFails
<1> QED
  BY <1>6, <1>7, RequestStep DEF IInv, InvOf

-----------------------------------------------------------------------------

LEMMA AnswerStep ==
    ASSUME IInv, NEW r \in Requests, NEW response \in Responses, Answer(r, response)
    PROVE  IInv'
<1> DEFINE q == req[r]
           n == [q EXCEPT
                    !.state = IF ResponseSlots(response) = {} THEN "delivered" ELSE "restoring",
                    !.response = response, !.answer = response.body,
                    !.left = ResponseSlots(response), !.todo = {}]
<1>1. q \in RequestStates /\ ReqInv(config, q, vault)
  BY DEF IInv, InvOf, ReqInv
<1>2. q.state = "sent" /\ ~q.call.stream
  BY DEF Answer
<1>3. response \in ResponseBodies /\ response.body \in Seq(Fields)
  BY ResponseAssumption DEF ResponseBodies
<1>4. ResponseSlots(response) \in SUBSET Nat
  BY <1>3 DEF ResponseSlots
<1>5. /\ n \in RequestStates
      /\ n.state = (IF ResponseSlots(response) = {} THEN "delivered" ELSE "restoring")
      /\ n.call = q.call /\ n.body = q.body
      /\ n.response = response /\ n.answer = response.body
      /\ n.left = ResponseSlots(response)
  <2> DEFINE slots == ResponseSlots(response)
             st == IF slots = {} THEN "delivered" ELSE "restoring"
  <2>1. st \in States
    BY DEF States
  <2>2. n = [q EXCEPT !.state = st, !.response = response, !.answer = response.body,
                      !.left = slots, !.todo = {}]
    OBVIOUS
  <2> HIDE DEF slots, st
  <2>3. [q EXCEPT !.state = st, !.response = response, !.answer = response.body,
                  !.left = slots, !.todo = {}] \in RequestStates
    BY <1>1, <1>3, <1>4, <2>1 DEF RequestStates, slots
  <2> QED
    BY <1>1, <2>2, <2>3 DEF RequestStates, slots, st
<1>6. BodyInv(config, n, vault) /\ SentInv(config, n)
  BY <1>1, <1>2, <1>5 DEF ReqInv, BodyInv, SentInv, Gone, Asked
<1>7. MaskingInv(config, n, vault)
  <2>1. n.state # "masking"
    BY <1>5
  <2> QED
    BY <2>1 DEF MaskingInv
<1>8. RestoringInv(config, n) /\ AnswerInv(config, n)
  BY <1>2, <1>5 DEF RestoringInv, AnswerInv, Answered
<1>9. ReqInv(config, n, vault)
  BY <1>5, <1>6, <1>7, <1>8 DEF ReqInv
<1>10. req' = [req EXCEPT ![r] = n] /\ UNCHANGED <<config, vault, log>>
  BY DEF Answer
<1> QED
  BY <1>9, <1>10, RequestStep DEF IInv, InvOf

LEMMA RestoreSlotStep ==
    ASSUME IInv, NEW r \in Requests, RestoreSlot(r)
    PROVE  IInv'
<1> DEFINE q == req[r]
<1>1. q \in RequestStates /\ ReqInv(config, q, vault) /\ vault \subseteq Codes
  BY DEF IInv, InvOf, ReqInv
<1>2. PICK i \in First(q.left) :
        req' = [req EXCEPT
            ![r].answer[i] = Unmask(@),
            ![r].leaked = @ \/ (~config.fail_open /\ Unmask(req[r].answer[i]).holders # {}),
            ![r].left = @ \ {i}]
  BY Zenon DEF RestoreSlot
<1> DEFINE clear == Unmask(q.answer[i])
           flag == q.leaked \/ (~config.fail_open /\ clear.holders # {})
           n == [q EXCEPT !.answer = [@ EXCEPT ![i] = clear], !.leaked = flag,
                          !.left = @ \ {i}]
<1>3. /\ q.state = "restoring" /\ ~q.call.stream /\ q.left \in SUBSET Nat
      /\ q.left \subseteq Answered(q) /\ Answered(q) \subseteq DOMAIN q.response.body
      /\ DOMAIN q.answer = DOMAIN q.response.body /\ q.answer \in Seq(Fields)
  BY <1>1 DEF RestoreSlot, ReqInv, RestoringInv, AnswerInv, Answered, ResponseSlots,
     RequestStates
<1>4. i \in q.left /\ i \in Answered(q) /\ i \in DOMAIN q.answer
  BY <1>2, <1>3, FirstIsOne
<1>5. clear \in Fields /\ flag \in BOOLEAN
  BY <1>1, <1>3, <1>4, UnmaskType DEF RequestStates
<1>6. [q.answer EXCEPT ![i] = clear] \in Seq(Fields)
  BY <1>3, <1>4, <1>5
<1>7. /\ n \in RequestStates
      /\ n.state = q.state /\ n.call = q.call /\ n.body = q.body
      /\ n.response = q.response /\ n.answer = [q.answer EXCEPT ![i] = clear]
      /\ n.leaked = flag /\ n.left = q.left \ {i}
  <2> HIDE DEF clear, flag
  <2> QED
    BY <1>1, <1>5, <1>6 DEF RequestStates
<1>8. BodyInv(config, n, vault) /\ SentInv(config, n)
  BY <1>1, <1>7 DEF ReqInv, BodyInv, SentInv, Gone, Asked
<1>9. MaskingInv(config, n, vault)
  BY <1>3, <1>7 DEF MaskingInv
<1>10. RestoringInv(config, n)
  <2>1. ASSUME ~config.fail_open, NEW j \in Answered(q) \ n.left, n.answer[j].holders # {}
        PROVE  n.leaked
    <3>1. CASE j = i
      BY <1>3, <1>4, <1>7, <2>1, <3>1
    <3>2. CASE j # i
      <4>1. j \in Answered(q) \ q.left /\ n.answer[j] = q.answer[j]
        BY <1>3, <1>7, <2>1, <3>2
      <4> QED
        BY <1>1, <1>3, <1>7, <2>1, <4>1 DEF ReqInv, RestoringInv
    <3> QED
      BY <3>1, <3>2
  <2>2. Answered(n) = Answered(q)
    BY <1>7 DEF Answered
  <2> QED
    BY <1>3, <1>7, <2>1, <2>2 DEF RestoringInv
<1>11. AnswerInv(config, n)
  BY <1>3, <1>7 DEF AnswerInv
<1>12. ReqInv(config, n, vault)
  BY <1>7, <1>8, <1>9, <1>10, <1>11 DEF ReqInv
<1>13. req' = [req EXCEPT ![r] = n] /\ UNCHANGED <<config, vault, log>>
  <2>1. UNCHANGED <<config, vault, log>>
    BY DEF RestoreSlot
  <2>2. req' = [req EXCEPT ![r] = n]
    BY <1>2, Zenon
  <2> QED
    BY <2>1, <2>2
<1> QED
  BY <1>12, <1>13, RequestStep DEF IInv, InvOf

LEMMA DeliverStep ==
    ASSUME IInv, NEW r \in Requests, Deliver(r)
    PROVE  IInv'
<1> DEFINE q == req[r]
           n == [q EXCEPT !.state = IF q.leaked THEN "filtered" ELSE "delivered"]
<1>1. q \in RequestStates /\ ReqInv(config, q, vault)
  BY DEF IInv, InvOf, ReqInv
<1>2. q.state = "restoring" /\ q.left = {}
  BY DEF Deliver
<1>3. /\ n \in RequestStates
      /\ n.state = (IF q.leaked THEN "filtered" ELSE "delivered")
      /\ n.call = q.call /\ n.body = q.body
      /\ n.response = q.response /\ n.answer = q.answer
  BY <1>1 DEF RequestStates, States
<1>4. BodyInv(config, n, vault) /\ SentInv(config, n)
  BY <1>1, <1>2, <1>3 DEF ReqInv, BodyInv, SentInv, Gone, Asked
<1>5. MaskingInv(config, n, vault) /\ RestoringInv(config, n)
  BY <1>3 DEF MaskingInv, RestoringInv
<1>6. AnswerInv(config, n)
  BY <1>1, <1>2, <1>3 DEF ReqInv, RestoringInv, AnswerInv, Answered
<1>7. ReqInv(config, n, vault)
  BY <1>3, <1>4, <1>5, <1>6 DEF ReqInv
<1>8. req' = [req EXCEPT ![r] = n] /\ UNCHANGED <<config, vault, log>>
  BY DEF Deliver
<1> QED
  BY <1>7, <1>8, RequestStep DEF IInv, InvOf

LEMMA RestoreFailsStep ==
    ASSUME IInv, NEW r \in Requests, RestoreFails(r)
    PROVE  IInv'
<1> DEFINE q == req[r]
           n == [q EXCEPT !.state = IF config.fail_open THEN "delivered" ELSE "filtered",
                          !.error = TRUE]
<1>1. q \in RequestStates /\ ReqInv(config, q, vault)
  BY DEF IInv, InvOf, ReqInv
<1>2. q.state = "restoring"
  BY DEF RestoreFails
<1>3. /\ n \in RequestStates
      /\ n.state = (IF config.fail_open THEN "delivered" ELSE "filtered")
      /\ n.call = q.call /\ n.body = q.body
      /\ n.response = q.response /\ n.answer = q.answer
  BY <1>1 DEF RequestStates, States
<1>4. BodyInv(config, n, vault) /\ SentInv(config, n)
  BY <1>1, <1>2, <1>3 DEF ReqInv, BodyInv, SentInv, Gone, Asked
<1>5. MaskingInv(config, n, vault) /\ RestoringInv(config, n)
  BY <1>3 DEF MaskingInv, RestoringInv
<1>6. AnswerInv(config, n)
  BY <1>1, <1>3 DEF ReqInv, AnswerInv
<1>7. ReqInv(config, n, vault)
  BY <1>3, <1>4, <1>5, <1>6 DEF ReqInv
<1>8. req' = [req EXCEPT ![r] = n] /\ UNCHANGED <<config, vault, log>>
  BY DEF RestoreFails
<1> QED
  BY <1>7, <1>8, RequestStep DEF IInv, InvOf

-----------------------------------------------------------------------------

LEMMA StreamPieceStep ==
    ASSUME IInv, NEW r \in Requests, NEW response \in Responses, StreamPiece(r, response)
    PROVE  IInv'
<1> DEFINE q == req[r]
           piece == Streamed(response, response.body[Len(q.answer) + 1])
           n == [q EXCEPT !.state = "streaming", !.response = response,
                          !.answer = Append(@, piece)]
<1>1. q \in RequestStates /\ ReqInv(config, q, vault) /\ vault \subseteq Codes
  BY DEF IInv, InvOf, ReqInv
<1>2. q.state \in {"sent", "streaming"} /\ q.call.stream /\ Len(q.answer) < Len(response.body)
  BY DEF StreamPiece
<1>3. response \in ResponseBodies /\ response.body \in Seq(Fields) /\ q.answer \in Seq(Fields)
  BY <1>1, ResponseAssumption DEF ResponseBodies, RequestStates
<1>4. piece \in Fields /\ Append(q.answer, piece) \in Seq(Fields)
  <2>1. response.body[Len(q.answer) + 1] \in Fields
    BY <1>2, <1>3
  <2>2. piece \in Fields
    BY <1>1, <2>1, StreamedType
  <2> QED
    BY <1>3, <2>2
<1>5. /\ n \in RequestStates /\ n.state = "streaming"
      /\ n.call = q.call /\ n.body = q.body
      /\ n.response = response /\ n.answer = Append(q.answer, piece)
  <2>1. "streaming" \in States
    BY DEF States
  <2> HIDE DEF piece
  <2> QED
    BY <1>1, <1>3, <1>4, <2>1 DEF RequestStates
<1>6. BodyInv(config, n, vault) /\ SentInv(config, n)
  BY <1>1, <1>2, <1>5 DEF ReqInv, BodyInv, SentInv, Gone, Asked
<1>7. MaskingInv(config, n, vault) /\ RestoringInv(config, n) /\ AnswerInv(config, n)
  BY <1>2, <1>5 DEF MaskingInv, RestoringInv, AnswerInv
<1>8. ReqInv(config, n, vault)
  BY <1>5, <1>6, <1>7 DEF ReqInv
<1>9. req' = [req EXCEPT ![r] = n] /\ UNCHANGED <<config, vault, log>>
  <2>1. UNCHANGED <<config, vault, log>>
    BY DEF StreamPiece
  <2>2. req' = [req EXCEPT ![r] = n]
    BY Zenon DEF StreamPiece
  <2> QED
    BY <2>1, <2>2
<1> QED
  BY <1>8, <1>9, RequestStep DEF IInv, InvOf

LEMMA StreamEndsStep ==
    ASSUME IInv, NEW r \in Requests, StreamEnds(r)
    PROVE  IInv'
<1> DEFINE q == req[r]
           n == [q EXCEPT !.state = "delivered"]
<1>1. q \in RequestStates /\ ReqInv(config, q, vault)
  BY DEF IInv, InvOf, ReqInv
<1>2. q.state = "streaming" /\ q.call.stream
  BY <1>1 DEF StreamEnds, ReqInv, AnswerInv
<1>3. /\ n \in RequestStates /\ n.state = "delivered"
      /\ n.call = q.call /\ n.body = q.body
      /\ n.response = q.response /\ n.answer = q.answer
  BY <1>1 DEF RequestStates, States
<1>4. BodyInv(config, n, vault) /\ SentInv(config, n)
  BY <1>1, <1>2, <1>3 DEF ReqInv, BodyInv, SentInv, Gone, Asked
<1>5. MaskingInv(config, n, vault) /\ RestoringInv(config, n) /\ AnswerInv(config, n)
  BY <1>2, <1>3 DEF MaskingInv, RestoringInv, AnswerInv
<1>6. ReqInv(config, n, vault)
  BY <1>3, <1>4, <1>5 DEF ReqInv
<1>7. req' = [req EXCEPT ![r] = n] /\ UNCHANGED <<config, vault, log>>
  BY DEF StreamEnds
<1> QED
  BY <1>6, <1>7, RequestStep DEF IInv, InvOf

LEMMA StreamFailsStep ==
    ASSUME IInv, NEW r \in Requests, StreamFails(r)
    PROVE  IInv'
<1> DEFINE q == req[r]
           n == [q EXCEPT !.state = "errored", !.error = TRUE]
<1>1. q \in RequestStates /\ ReqInv(config, q, vault)
  BY DEF IInv, InvOf, ReqInv
<1>2. q.state \in {"sent", "streaming"} /\ q.call.stream
  BY DEF StreamFails
<1>3. /\ n \in RequestStates /\ n.state = "errored"
      /\ n.call = q.call /\ n.body = q.body
      /\ n.response = q.response /\ n.answer = q.answer
  BY <1>1 DEF RequestStates, States
<1>4. BodyInv(config, n, vault) /\ SentInv(config, n)
  BY <1>1, <1>2, <1>3 DEF ReqInv, BodyInv, SentInv, Gone, Asked
<1>5. MaskingInv(config, n, vault) /\ RestoringInv(config, n) /\ AnswerInv(config, n)
  BY <1>2, <1>3 DEF MaskingInv, RestoringInv, AnswerInv
<1>6. ReqInv(config, n, vault)
  BY <1>3, <1>4, <1>5 DEF ReqInv
<1>7. req' = [req EXCEPT ![r] = n] /\ UNCHANGED <<config, vault, log>>
  BY DEF StreamFails
<1> QED
  BY <1>6, <1>7, RequestStep DEF IInv, InvOf

-----------------------------------------------------------------------------

(* A step of one request's log, with the vault only growing.               *)
LEMMA LogStep ==
    ASSUME IInv, NEW r \in Requests, NEW l, NEW w,
           config' = config, vault \subseteq w, w \subseteq Codes, vault' = w,
           req' = req, log' = [log EXCEPT ![r] = l], LogInv(l)
    PROVE  IInv'
<1>1. \A s \in Requests : ReqInv(config, req[s], w) /\ LogInv(log'[s])
  <2> TAKE s \in Requests
  <2>1. ReqInv(config, req[s], vault) /\ LogInv(log[s])
    BY DEF IInv, InvOf
  <2>2. LogInv(log'[s])
    BY <2>1 DEF IInv, InvOf
  <2> QED
    BY <2>1, <2>2, VaultGrows
<1>2. InvOf(config', vault', req', log')
  BY <1>1 DEF IInv, InvOf
<1> QED
  BY <1>2 DEF IInv

(* Where the parts of a joined payload are.                                *)
LEMMA JoinedDomain ==
    ASSUME NEW a \in Seq(Fields), NEW b \in Seq(Fields)
    PROVE  /\ a \o b \in Seq(Fields) /\ Len(a \o b) = Len(a) + Len(b)
           /\ 1..Len(a) \subseteq DOMAIN (a \o b)
           /\ {k + Len(a) : k \in 1..Len(b)} \subseteq DOMAIN (a \o b)
<1>1. a \o b \in Seq(Fields) /\ Len(a \o b) = Len(a) + Len(b)
  OBVIOUS
<1>2. Len(a) \in Nat /\ Len(b) \in Nat
  OBVIOUS
<1>3. DOMAIN (a \o b) = 1..(Len(a) + Len(b))
  BY <1>1
<1>4. 1..Len(a) \subseteq 1..(Len(a) + Len(b))
  BY <1>2
<1>5. \A k \in 1..Len(b) : k + Len(a) \in 1..(Len(a) + Len(b))
  BY <1>2
<1> QED
  BY <1>1, <1>3, <1>4, <1>5

(* The bodies of a request and of its response are sequences of fields.    *)
LEMMA BodyTypes ==
    ASSUME NEW q \in RequestStates
    PROVE  /\ q.call.body \in Seq(Fields) /\ q.response.body \in Seq(Fields)
           /\ q.body \in Seq(Fields) /\ q.answer \in Seq(Fields)
<1>1. q.call \in CallBodies \cup {NoCall} /\ q.response \in ResponseBodies \cup {NoResponse}
  BY DEF RequestStates
<1>2. <<>> \in Seq(Fields)
  OBVIOUS
<1>3. q.call.body \in Seq(Fields)
  <2>1. CASE q.call \in CallBodies
    BY <2>1 DEF CallBodies
  <2>2. CASE q.call = NoCall
    <3>1. NoCall.body = <<>>
      BY DEF NoCall
    <3> QED
      BY <1>2, <2>2, <3>1
  <2> QED
    BY <1>1, <2>1, <2>2
<1>4. q.response.body \in Seq(Fields)
  <2>1. CASE q.response \in ResponseBodies
    BY <2>1 DEF ResponseBodies
  <2>2. CASE q.response = NoResponse
    <3>1. NoResponse.body = <<>>
      BY DEF NoResponse
    <3> QED
      BY <1>2, <2>2, <3>1
  <2> QED
    BY <1>1, <2>1, <2>2
<1> QED
  BY <1>3, <1>4 DEF RequestStates

LEMMA LogCallStep ==
    ASSUME IInv, NEW r \in Requests, NEW rereads \in BOOLEAN, LogCall(r, rereads)
    PROVE  IInv'
<1> DEFINE q == req[r]
           l == [state |-> "remasking", body |-> Payload(r, rereads), left |-> LogSlots(r),
                 todo |-> TermsAt(Payload(r, rereads), LogSlots(r))]
<1>1. q \in RequestStates /\ ReqInv(config, q, vault)
  BY DEF IInv, InvOf, ReqInv
<1>2. q.call.body \in Seq(Fields) /\ q.response.body \in Seq(Fields)
  BY <1>1, BodyTypes
<1>3. q.body \in Seq(Fields) /\ q.answer \in Seq(Fields)
  BY <1>1 DEF RequestStates
<1>4. Len(q.answer) = Len(q.response.body)
  BY <1>1, <1>2, <1>3 DEF LogCall, ReqInv, AnswerInv
<1>5. Len(q.body) = Len(q.call.body)
  BY <1>1, <1>2, <1>3 DEF ReqInv, BodyInv
<1>6. PICK asked \in Seq(Fields) :
        Payload(r, rereads) = asked \o q.answer /\ Len(asked) = Len(q.body)
  BY <1>2, <1>3, <1>5 DEF Payload
<1>7. LogSlots(r) \subseteq DOMAIN Payload(r, rereads)
  <2>1. RequestSlots(q.call.call_type, q.body) \subseteq 1..Len(asked)
    BY <1>3, <1>6 DEF RequestSlots
  <2>2. ResponseSlots(q.response) \subseteq 1..Len(q.answer)
    BY <1>2, <1>4 DEF ResponseSlots
  <2>3. ResponseLogSlots(r) \subseteq {k + Len(asked) : k \in 1..Len(q.answer)}
    BY <1>6, <2>2 DEF ResponseLogSlots, RequestLength
  <2> QED
    BY <1>3, <1>6, <2>1, <2>3, JoinedDomain DEF LogSlots
<1>8. LogInv(l)
  <2>1. Payload(r, rereads) \in Seq(Fields)
    BY <1>3, <1>6, JoinedDomain
  <2>2. DOMAIN Payload(r, rereads) \in SUBSET Nat
    BY <2>1
  <2>3. TermsAt(Payload(r, rereads), LogSlots(r)) \subseteq Terms
    BY <1>7, <2>1, <2>2, TermsAtType
  <2> QED
    BY <1>7, <2>1, <2>2, <2>3 DEF LogInv, LogStates
<1>9. log' = [log EXCEPT ![r] = l] /\ UNCHANGED <<config, vault, req>>
  BY DEF LogCall
<1> QED
  BY <1>8, <1>9, LogStep DEF IInv, InvOf

LEMMA LogAssignStep ==
    ASSUME IInv, NEW r \in Requests, NEW t \in Terms, LogAssign(r, t)
    PROVE  IInv'
<1> DEFINE l == [log[r] EXCEPT !.todo = @ \ {t}]
           w == vault \cup {Code(ConfigScope, t)}
<1>1. log[r] \in LogStates /\ LogInv(log[r]) /\ vault \subseteq Codes
  BY DEF IInv, InvOf, LogInv
<1>2. LogInv(l)
  BY <1>1 DEF LogInv, LogStates
<1>3. w \subseteq Codes
  BY <1>1, ScopeAssumption DEF Code, Codes
<1>4. log' = [log EXCEPT ![r] = l] /\ vault' = w /\ req' = req /\ config' = config
  BY DEF LogAssign
<1> QED
  BY <1>2, <1>3, <1>4, LogStep

(* What the log is given does not change when it is read slot by slot.     *)
LEMMA LogWritten ==
    ASSUME ~SharedResult, NEW r, NEW i, LogWrite(r, i)
    PROVE  LET masked == [log[r].body EXCEPT ![i] = Mask(log[r].body[i], ConfigScope)]
               rest   == log[r].left \ {i}
           IN  /\ log' = [log EXCEPT ![r].body = masked, ![r].left = rest,
                                     ![r].todo = TermsAt(masked, rest)]
               /\ req' = req
<1>1. \A body, left : Reread(r, body, left) = body
  BY DEF Reread
<1> QED
  BY <1>1 DEF LogWrite

LEMMA LogSlotStep ==
    ASSUME IInv, ~SharedResult, NEW r \in Requests, LogSlot(r)
    PROVE  IInv'
<1>1. log[r] \in LogStates /\ LogInv(log[r]) /\ vault \subseteq Codes
  BY DEF IInv, InvOf, LogInv
<1>2. PICK i \in First(log[r].left) : LogWrite(r, i)
  BY DEF LogSlot
<1> DEFINE masked == [log[r].body EXCEPT ![i] = Mask(log[r].body[i], ConfigScope)]
           rest == log[r].left \ {i}
           todo == TermsAt(masked, rest)
           l == [log[r] EXCEPT !.body = masked, !.left = rest, !.todo = todo]
<1>3. /\ log[r].state = "remasking" /\ log[r].left \in SUBSET Nat
      /\ log[r].left \subseteq DOMAIN log[r].body /\ log[r].body \in Seq(Fields)
  BY <1>1 DEF LogSlot, LogInv, LogStates
<1>4. i \in DOMAIN log[r].body
  BY <1>2, <1>3, FirstIsOne
<1>5. Mask(log[r].body[i], ConfigScope) \in Fields
  BY <1>3, <1>4, ScopeAssumption, MaskType
<1>6. masked \in Seq(Fields) /\ DOMAIN masked = DOMAIN log[r].body
  BY <1>3, <1>4, <1>5
<1>7. rest \in SUBSET Nat /\ rest \subseteq DOMAIN masked
  BY <1>3, <1>6
<1>8. todo \subseteq Terms
  <2> HIDE DEF masked, rest
  <2> QED
    BY <1>6, <1>7, TermsAtType
<1>9. LogInv(l)
  <2> HIDE DEF masked, rest, todo
  <2>1. l \in LogStates /\ l.left = rest /\ l.body = masked
    BY <1>1, <1>6, <1>7, <1>8 DEF LogStates
  <2> QED
    BY <1>7, <2>1 DEF LogInv
<1>10. /\ log' = [log EXCEPT ![r].body = masked, ![r].left = rest, ![r].todo = todo]
       /\ req' = req
  BY <1>2, LogWritten
<1>11. log' = [log EXCEPT ![r] = l]
  BY <1>10, Zenon
<1>12. vault' = vault /\ config' = config
  BY DEF LogSlot
<1> QED
  BY <1>1, <1>9, <1>10, <1>11, <1>12, LogStep

LEMMA LogEndStep ==
    ASSUME IInv, NEW r \in Requests, LogDone(r) \/ LogFails(r)
    PROVE  IInv'
<1>1. log[r] \in LogStates
  BY DEF IInv, InvOf, LogInv
<1>2. ASSUME NEW st \in {"logged", "unmasked"} PROVE LogInv([log[r] EXCEPT !.state = st])
  BY <1>1, <1>2 DEF LogInv, LogStates
<1>3. PICK st \in {"logged", "unmasked"} : log' = [log EXCEPT ![r].state = st]
  BY DEF LogDone, LogFails
<1>4. UNCHANGED <<config, vault, req>>
  BY DEF LogDone, LogFails
<1> QED
  BY <1>2, <1>3, <1>4, LogStep DEF IInv, InvOf

-----------------------------------------------------------------------------

LEMMA InitInv == Init => IInv
<1> SUFFICES ASSUME Init PROVE IInv
  OBVIOUS
<1>1. /\ Idle.state = "idle" /\ Idle.call = NoCall /\ Idle.body = <<>>
      /\ Idle.response = NoResponse /\ Idle.answer = <<>>
  BY DEF Idle
<1>2. NoCall.body = <<>> /\ NoResponse.body = <<>>
  BY DEF NoCall, NoResponse
<1>3. Idle \in RequestStates
  <2>1. "idle" \in States
    BY DEF States
  <2>2. <<>> \in Seq(Fields)
    OBVIOUS
  <2> QED
    BY <2>1, <2>2, ScopeAssumption DEF Idle, RequestStates
<1>4. MaskingInv(config, Idle, vault) /\ SentInv(config, Idle)
  BY <1>1 DEF MaskingInv, SentInv, Gone
<1>5. BodyInv(config, Idle, vault)
  BY <1>1, <1>2 DEF BodyInv
<1>6. RestoringInv(config, Idle) /\ AnswerInv(config, Idle)
  BY <1>1, <1>2 DEF RestoringInv, AnswerInv
<1>7. ReqInv(config, Idle, vault)
  BY <1>3, <1>4, <1>5, <1>6 DEF ReqInv
<1>8. LogInv(Silent)
  BY DEF LogInv, LogStates, Silent
<1>9. InvOf(config, vault, req, log)
  BY <1>7, <1>8 DEF Init, InvOf, Configs
<1> QED
  BY <1>9 DEF IInv

LEMMA NextInv == ASSUME ~SharedResult, IInv, [Next]_vars PROVE IInv'
<1>1. CASE UNCHANGED vars
  <2>1. InvOf(config', vault', req', log')
    BY <1>1 DEF IInv, vars
  <2> QED
    BY <2>1 DEF IInv
<1>2. CASE Next
  <2>1. PICK r \in Requests :
          \/ \E call \in Calls : Call(r, call)
          \/ \E t \in Terms : Assign(r, t)
          \/ SetSlot(r) \/ Forward(r) \/ MaskFails(r)
          \/ \E response \in Responses : Answer(r, response)
          \/ RestoreSlot(r) \/ Deliver(r) \/ RestoreFails(r)
          \/ \E response \in Responses : StreamPiece(r, response)
          \/ StreamEnds(r) \/ StreamFails(r)
          \/ \E rereads \in BOOLEAN : LogCall(r, rereads)
          \/ \E t \in Terms : LogAssign(r, t)
          \/ LogSlot(r) \/ LogDone(r) \/ LogFails(r)
    BY <1>2, Zenon DEF Next, AnswersFor
  <2>2. CASE \E call \in Calls : Call(r, call)
    BY <2>2, CallStep
  <2>3. CASE \E t \in Terms : Assign(r, t)
    BY <2>3, AssignStep
  <2>4. CASE SetSlot(r)
    BY <2>4, SetSlotStep
  <2>5. CASE Forward(r)
    BY <2>5, ForwardStep
  <2>6. CASE MaskFails(r)
    BY <2>6, MaskFailsStep
  <2>7. CASE \E response \in Responses : Answer(r, response)
    BY <2>7, AnswerStep
  <2>8. CASE RestoreSlot(r)
    BY <2>8, RestoreSlotStep
  <2>9. CASE Deliver(r)
    BY <2>9, DeliverStep
  <2>10. CASE RestoreFails(r)
    BY <2>10, RestoreFailsStep
  <2>11. CASE \E response \in Responses : StreamPiece(r, response)
    BY <2>11, StreamPieceStep
  <2>12. CASE StreamEnds(r)
    BY <2>12, StreamEndsStep
  <2>13. CASE StreamFails(r)
    BY <2>13, StreamFailsStep
  <2>14. CASE \E rereads \in BOOLEAN : LogCall(r, rereads)
    BY <2>14, LogCallStep
  <2>15. CASE LogSlot(r)
    BY <2>15, LogSlotStep
  <2>16. CASE LogDone(r) \/ LogFails(r)
    BY <2>16, LogEndStep
  <2>17. CASE \E t \in Terms : LogAssign(r, t)
    BY <2>17, LogAssignStep
  <2> QED
    BY <2>1, <2>2, <2>3, <2>4, <2>5, <2>6, <2>7, <2>8, <2>9, <2>10, <2>11, <2>12,
       <2>13, <2>14, <2>15, <2>16, <2>17, Zenon
<1> QED
  BY <1>1, <1>2

(* The hooks' bookkeeping stays in step with the bodies it is about.       *)
THEOREM BookkeepingInvariant == ASSUME ~SharedResult PROVE Spec => []IInv
<1>1. Init => IInv
  BY InitInv
<1>2. IInv /\ [Next]_vars => IInv'
  BY NextInv
<1> QED
  BY <1>1, <1>2, PTL DEF Spec

LEMMA AskedIsMasked == \A r \in Requests : Masked(r) = Asked(config, req[r])
BY DEF Masked, Asked, RequestSlots

(* A text call that goes out with fail_open false has no dictionary term   *)
(* left in any slot: MaskFails blocks it, and the loop stands at a slot    *)
(* until the slot is masked (guardrail.py:249-270).                        *)
THEOREM TermsStayHome == ASSUME ~SharedResult PROVE Spec => []NoTermUpstream
<1>1. IInv => NoTermUpstream
  BY AskedIsMasked DEF IInv, InvOf, ReqInv, SentInv, Gone, NoTermUpstream, Sent
<1> QED
  BY <1>1, BookkeepingInvariant, PTL

(* A placeholder stands in a request only once its row is in the vault, so *)
(* every later lookup finds it, after any failure; a position that is no   *)
(* slot is sent as the client wrote it (engine.py:85-118).                 *)
THEOREM PlaceholdersHaveRows == ASSUME ~SharedResult PROVE Spec => []PlaceholdersRestorable
<1>1. IInv => PlaceholdersRestorable
  BY AskedIsMasked DEF IInv, InvOf, ReqInv, BodyInv, PlaceholdersRestorable
<1> QED
  BY <1>1, BookkeepingInvariant, PTL

(* A response that is delivered whole with fail_open false has no          *)
(* placeholder in any slot: the flag remembers every slot the loop has     *)
(* passed (guardrail.py:300-323).                                          *)
THEOREM NothingMaskedDelivered == ASSUME ~SharedResult PROVE Spec => []DeliveredRestored
<1>1. IInv => DeliveredRestored
  BY DEF IInv, InvOf, ReqInv, AnswerInv, Answered, DeliveredRestored, Restored
<1> QED
  BY <1>1, BookkeepingInvariant, PTL

(* The work of a request is in the slot its loop stands at.                *)
THEOREM HookTypes == ASSUME ~SharedResult PROVE Spec => []TypeOK
<1>1. ASSUME IInv, NEW r \in Requests, NEW i \in DOMAIN req[r].body
      PROVE  req[r].body[i].holders \subseteq Codes \cup Foreign
  <2>1. req[r].body \in Seq(Fields)
    BY <1>1 DEF IInv, InvOf, ReqInv, RequestStates
  <2>2. req[r].body[i] \in Fields
    BY <1>1, <2>1
  <2> QED
    BY <2>2 DEF Fields
<1>2. ASSUME IInv, NEW r \in Requests
      PROVE  /\ req[r].state \in States /\ req[r].scope \in Scopes
             /\ req[r].state = "restoring" => req[r].left \subseteq DOMAIN req[r].answer
             /\ req[r].state = "masking" => req[r].todo \subseteq TermsAt(req[r].body, req[r].left)
             /\ log[r].state \in {"none", "remasking", "logged", "unmasked"}
  <2>1. ReqInv(config, req[r], vault) /\ LogInv(log[r])
    BY <1>2 DEF IInv, InvOf
  <2>2. req[r].state = "restoring" => req[r].left \subseteq DOMAIN req[r].answer
    BY <2>1 DEF ReqInv, RestoringInv, AnswerInv, Answered, ResponseSlots
  <2> QED
    BY <2>1, <2>2 DEF ReqInv, MaskingInv, RequestStates, LogInv, LogStates
<1>3. IInv => TypeOK
  BY <1>1, <1>2 DEF TypeOK, IInv, InvOf, Configs
<1> QED
  BY <1>3, BookkeepingInvariant, PTL

-----------------------------------------------------------------------------
(* What the log of a request shows, at whatever moment the hook runs.      *)

(* The slots of the payload of q: those of its request, then those of its  *)
(* response.                                                               *)
PayloadSlots(c, q) == Asked(c, q) \cup {j + Len(q.body) : j \in Answered(q)}

Unanswered == {"idle", "masking", "sent", "blocked"}

(* Masking does not change which positions are slots.                      *)
SameSlots(c, q) ==
    {i \in DOMAIN q.body :
        RequestSlot(AdapterOf(q.call.call_type), q.body[i], c.mask_system)} = Asked(c, q)

(* Restoring adds no placeholder to a response.                            *)
AnswerHeld(q) ==
    \A j \in DOMAIN q.answer : q.answer[j].holders \subseteq q.response.body[j].holders

(* What stands in a log beside what the client and the LLM wrote is in the *)
(* vault, and so is what has been assigned of the slot the loop stands at. *)
LogHeld(q, l, v) ==
    /\ l.state = "none" => l.body = <<>>
    /\ l.state # "none" =>
          /\ Len(l.body) = Len(q.call.body) + Len(q.response.body)
          /\ \A i \in DOMAIN l.body :
                l.body[i].holders \ (q.call.body \o q.response.body)[i].holders \subseteq v
    /\ l.state = "remasking" =>
          \A t \in TermsAt(l.body, l.left) \ l.todo : Code(ConfigScope, t) \in v

(* A log is taken of a response that is complete; slots behind the loop    *)
(* are masked.                                                             *)
LogLink(c, q, l, v) ==
    /\ AnswerHeld(q)
    /\ LogHeld(q, l, v)
    /\ SameSlots(c, q)
    /\ q.state \in Unanswered => q.answer = <<>>
    /\ l.state # "none" =>
          q.answer # <<>> /\ (~q.call.stream \/ Len(q.answer) = Len(q.response.body))
    /\ l.state \in {"remasking", "logged"} =>
          \A i \in PayloadSlots(c, q) \ l.left : i \in DOMAIN l.body => l.body[i].terms = {}
    /\ l.state = "logged" => l.left = {}

LInv == \A r \in Requests : LogLink(config, req[r], log[r], vault)

-----------------------------------------------------------------------------

(* A step that does not touch the bodies of the request.                   *)
LEMMA SameBodies ==
    ASSUME NEW c, NEW q, NEW n, NEW l, NEW v, NEW w, LogLink(c, q, l, v), v \subseteq w,
           n.call = q.call, n.body = q.body, n.response = q.response, n.answer = q.answer,
           n.state \in Unanswered => q.state \in Unanswered
    PROVE  LogLink(c, n, l, w)
<1>1. SameSlots(c, n) /\ PayloadSlots(c, n) = PayloadSlots(c, q)
  BY DEF LogLink, SameSlots, PayloadSlots, Asked, Answered
<1>2. AnswerHeld(n) /\ LogHeld(n, l, w)
  BY DEF LogLink, AnswerHeld, LogHeld
<1> QED
  BY <1>1, <1>2 DEF LogLink

(* A step of a request that has no log yet.                                *)
LEMMA NoLogYet ==
    ASSUME NEW c, NEW n, NEW l, NEW v, SameSlots(c, n), AnswerHeld(n),
           l.state = "none", l.body = <<>>, n.state \in Unanswered => n.answer = <<>>
    PROVE  LogLink(c, n, l, v)
<1>1. LogHeld(n, l, v)
  BY DEF LogHeld
<1> QED
  BY <1>1 DEF LogLink

(* Only an answered request has a log.                                     *)
LEMMA Unlogged ==
    ASSUME NEW c, NEW q, NEW l, NEW v, LogLink(c, q, l, v), q.state \in Unanswered
    PROVE  q.answer = <<>> /\ l.state = "none" /\ l.body = <<>>
BY DEF LogLink, LogHeld

LEMMA LinkGrows ==
    ASSUME NEW c, NEW q, NEW l, NEW v, NEW w, v \subseteq w, LogLink(c, q, l, v)
    PROVE  LogLink(c, q, l, w)
BY SameBodies

LEMMA LinkStep ==
    ASSUME IInv, LInv, NEW r \in Requests, NEW n, NEW w, config' = config,
           vault \subseteq w, vault' = w,
           req' = [req EXCEPT ![r] = n], log' = log, LogLink(config, n, log[r], w)
    PROVE  LInv'
<1>1. \A s \in Requests : LogLink(config, req'[s], log[s], w)
  <2> TAKE s \in Requests
  <2>1. CASE s = r
    BY <2>1 DEF IInv, InvOf
  <2>2. CASE s # r
    <3>1. req'[s] = req[s] /\ LogLink(config, req[s], log[s], vault)
      BY <2>2 DEF IInv, InvOf, LInv
    <3> QED
      BY <3>1, LinkGrows
  <2> QED
    BY <2>1, <2>2
<1>2. \A s \in Requests : LogLink(config', req'[s], log'[s], vault')
  BY <1>1
<1> QED
  BY <1>2 DEF LInv

LEMMA MaskKeepsPlace ==
    ASSUME NEW f \in Fields, NEW s
    PROVE  Mask(f, s).place = f.place /\ Mask(f, s).role = f.role /\ Mask(f, s).terms = {}
BY DEF Mask, Fields

(* Restoring takes placeholders away and adds none.                        *)
LEMMA UnmaskHolders ==
    ASSUME NEW f \in Fields
    PROVE  Unmask(f).holders \subseteq f.holders
BY DEF Unmask, Fields

LEMMA StreamedHolders ==
    ASSUME NEW response, NEW f \in Fields
    PROVE  Streamed(response, f).holders \subseteq f.holders
BY UnmaskHolders DEF Streamed

(* Only its place and its role say whether a field is a slot.              *)
LEMMA SlotByPlace ==
    ASSUME NEW a \in {"openai", "anthropic", "responses"}, NEW m, NEW f, NEW g,
           f.place = g.place, f.role = g.role
    PROVE  RequestSlot(a, f, m) <=> RequestSlot(a, g, m)
<1>1. OpenAIRequestSlot(f, m) <=> OpenAIRequestSlot(g, m)
  BY DEF OpenAIRequestSlot
<1>2. AnthropicRequestSlot(f, m) <=> AnthropicRequestSlot(g, m)
  BY DEF AnthropicRequestSlot
<1>3. ResponsesRequestSlot(f) <=> ResponsesRequestSlot(g)
  BY DEF ResponsesRequestSlot
<1>4. a = "openai" \/ a = "anthropic" \/ a = "responses"
  OBVIOUS
<1>5. CASE a = "openai"
  BY <1>1, <1>5 DEF RequestSlot
<1>6. CASE a = "anthropic"
  BY <1>2, <1>6 DEF RequestSlot
<1>7. CASE a = "responses"
  BY <1>3, <1>7 DEF RequestSlot
<1> QED
  BY <1>4, <1>5, <1>6, <1>7

(* Steps of the hooks.                                                     *)
LEMMA RequestLinks ==
    ASSUME IInv, LInv, NEW r \in Requests,
           \/ \E t \in Terms : Assign(r, t)
           \/ Forward(r) \/ MaskFails(r) \/ Deliver(r) \/ RestoreFails(r)
           \/ StreamEnds(r) \/ StreamFails(r)
    PROVE  LInv'
<1> DEFINE q == req[r]
<1>1. q \in RequestStates /\ LogLink(config, q, log[r], vault)
  BY DEF IInv, InvOf, ReqInv, LInv
<1>2. ASSUME NEW t, Assign(r, t) PROVE LInv'
  <2> DEFINE n == [q EXCEPT !.todo = @ \ {t}]
             w == vault \cup {Code(q.scope, t)}
  <2>1. /\ n.state = q.state /\ n.call = q.call /\ n.body = q.body
        /\ n.response = q.response /\ n.answer = q.answer
    BY <1>1 DEF RequestStates
  <2>2. LogLink(config, n, log[r], w)
    <3>1. vault \subseteq w
      OBVIOUS
    <3> HIDE DEF n, w
    <3> QED
      BY <1>1, <2>1, <3>1, SameBodies
  <2>3. req' = [req EXCEPT ![r] = n] /\ vault' = w /\ config' = config /\ log' = log
    BY <1>2 DEF Assign
  <2> QED
    BY <2>2, <2>3, LinkStep
<1>3. ASSUME NEW st, NEW e, st \in Unanswered => q.state \in Unanswered,
             req' = [req EXCEPT ![r].state = st, ![r].error = e],
             config' = config, vault' = vault, log' = log
      PROVE  LInv'
  <2> DEFINE n == [q EXCEPT !.state = st, !.error = e]
  <2>1. /\ n.state = st /\ n.call = q.call /\ n.body = q.body
        /\ n.response = q.response /\ n.answer = q.answer
    BY <1>1 DEF RequestStates
  <2>2. LogLink(config, n, log[r], vault)
    <3>1. LogLink(config, q, log[r], vault) /\ (n.state \in Unanswered => q.state \in Unanswered)
      BY <1>1, <1>3, <2>1
    <3> HIDE DEF n
    <3> QED
      BY <2>1, <3>1, SameBodies, Zenon
  <2>3. req' = [req EXCEPT ![r] = n]
    BY <1>3, Zenon
  <2> HIDE DEF n
  <2> QED
    BY <1>3, <2>2, <2>3, LinkStep
<1>4. ASSUME NEW st, st \in Unanswered => q.state \in Unanswered,
             req' = [req EXCEPT ![r].state = st], config' = config, vault' = vault, log' = log
      PROVE  LInv'
  <2> DEFINE n == [q EXCEPT !.state = st]
  <2>1. /\ n.state = st /\ n.call = q.call /\ n.body = q.body
        /\ n.response = q.response /\ n.answer = q.answer
    BY <1>1 DEF RequestStates
  <2>2. LogLink(config, n, log[r], vault)
    <3>1. LogLink(config, q, log[r], vault) /\ (n.state \in Unanswered => q.state \in Unanswered)
      BY <1>1, <1>4, <2>1
    <3> HIDE DEF n
    <3> QED
      BY <2>1, <3>1, SameBodies, Zenon
  <2>3. req' = [req EXCEPT ![r] = n]
    BY <1>4, Zenon
  <2> HIDE DEF n
  <2> QED
    BY <1>4, <2>2, <2>3, LinkStep
<1>5. CASE Forward(r)
  BY <1>4, <1>5 DEF Forward, Unanswered
<1>6. CASE MaskFails(r)
  BY <1>3, <1>6 DEF MaskFails, Unanswered
<1>7. CASE Deliver(r)
  <2>1. (IF req[r].leaked THEN "filtered" ELSE "delivered") \notin Unanswered
    BY DEF Unanswered
  <2> QED
    BY <1>4, <1>7, <2>1 DEF Deliver
<1>8. CASE RestoreFails(r)
  <2>1. (IF config.fail_open THEN "delivered" ELSE "filtered") \notin Unanswered
    BY DEF Unanswered
  <2> QED
    BY <1>3, <1>8, <2>1 DEF RestoreFails
<1>9. CASE StreamEnds(r)
  BY <1>4, <1>9 DEF StreamEnds, Unanswered
<1>10. CASE StreamFails(r)
  <2>1. "errored" \notin Unanswered
    BY DEF Unanswered
  <2>2. /\ req' = [req EXCEPT ![r].state = "errored", ![r].error = TRUE]
        /\ config' = config /\ vault' = vault /\ log' = log
    BY <1>10 DEF StreamFails
  <2> QED
    BY <1>3, <2>1, <2>2, Zenon
<1> QED
  BY <1>2, <1>5, <1>6, <1>7, <1>8, <1>9, <1>10

LEMMA CallLinks ==
    ASSUME IInv, LInv, NEW r \in Requests, NEW call \in Calls, Call(r, call)
    PROVE  LInv'
<1>1. LogLink(config, req[r], log[r], vault) /\ req[r].state = "idle"
  BY DEF LInv, Call
<1>2. log[r].state = "none" /\ log[r].body = <<>>
  BY <1>1, Unlogged DEF Unanswered
<1>3. PICK st, scope, left, todo :
        req' = [req EXCEPT ![r] =
                  [Idle EXCEPT !.state = st, !.call = call, !.body = call.body,
                               !.scope = scope, !.left = left, !.todo = todo]]
  BY Zenon DEF Call
<1> DEFINE n == [Idle EXCEPT !.state = st, !.call = call, !.body = call.body,
                             !.scope = scope, !.left = left, !.todo = todo]
<1>4. n.call = call /\ n.body = call.body /\ n.answer = <<>>
  BY DEF Idle
<1>5. SameSlots(config, n) /\ AnswerHeld(n)
  BY <1>4 DEF SameSlots, Asked, AnswerHeld
<1>6. LogLink(config, n, log[r], vault)
  BY <1>2, <1>4, <1>5, NoLogYet
<1> QED
  BY <1>3, <1>6, LinkStep DEF Call

LEMMA SetSlotLinks ==
    ASSUME IInv, LInv, NEW r \in Requests, SetSlot(r)
    PROVE  LInv'
<1> DEFINE q == req[r]
<1>1. /\ q \in RequestStates /\ LogLink(config, q, log[r], vault) /\ q.state = "masking"
      /\ ReqInv(config, q, vault)
  BY DEF IInv, InvOf, ReqInv, LInv, SetSlot
<1>2. q.answer = <<>> /\ log[r].state = "none" /\ log[r].body = <<>>
  BY <1>1, Unlogged DEF Unanswered
<1>3. PICK i \in First(q.left) : NextSlot(r, i)
  BY DEF SetSlot
<1> DEFINE todo == TermsAt(q.body, q.left \ {i})
           n == [q EXCEPT !.body = [@ EXCEPT ![i] = Mask(q.body[i], q.scope)],
                          !.left = @ \ {i}, !.todo = todo]
<1>4. /\ i \in DOMAIN q.body /\ DOMAIN q.body = DOMAIN q.call.body
      /\ q.body[i] \in Fields
  <2>1. /\ q.left \in SUBSET Nat /\ q.left \subseteq DOMAIN q.body
        /\ DOMAIN q.body = DOMAIN q.call.body /\ q.body \in Seq(Fields)
    BY <1>1 DEF ReqInv, MaskingInv, BodyInv, Asked, RequestStates
  <2>2. i \in q.left
    BY <1>3, <2>1, FirstIsOne
  <2> QED
    BY <2>1, <2>2
<1>5. /\ n.call = q.call /\ n.answer = q.answer
      /\ n.body = [q.body EXCEPT ![i] = Mask(q.body[i], q.scope)]
  BY <1>1 DEF RequestStates
<1>6. \A j \in DOMAIN q.body : n.body[j].place = q.body[j].place /\ n.body[j].role = q.body[j].role
  BY <1>4, <1>5, MaskKeepsPlace
<1>7. SameSlots(config, n)
  <2> DEFINE a == AdapterOf(q.call.call_type)
             m == config.mask_system
  <2>1. \A j \in DOMAIN q.body : RequestSlot(a, n.body[j], m) <=> RequestSlot(a, q.body[j], m)
    <3>1. a \in {"openai", "anthropic", "responses"}
      BY DEF AdapterOf
    <3> HIDE DEF a, m, n
    <3> QED
      BY <1>6, <3>1, SlotByPlace
  <2>2. DOMAIN n.body = DOMAIN q.body /\ Asked(config, n) = Asked(config, q)
    BY <1>5 DEF Asked
  <2>3. SameSlots(config, q)
    BY <1>1 DEF LogLink
  <2> QED
    BY <1>5, <2>1, <2>2, <2>3 DEF SameSlots
<1>8. LogLink(config, n, log[r], vault)
  <2> HIDE DEF n
  <2>1. AnswerHeld(n)
    BY <1>2, <1>5 DEF AnswerHeld
  <2> QED
    BY <1>2, <1>5, <1>7, <2>1, NoLogYet
<1>9. req' = [req EXCEPT ![r] = n]
  BY <1>3, Zenon DEF NextSlot
<1>10. config' = config /\ vault' = vault /\ log' = log
  BY DEF SetSlot
<1> QED
  BY <1>8, <1>9, <1>10, LinkStep

LEMMA AnswerLinks ==
    ASSUME IInv, LInv, NEW r \in Requests, NEW response \in Responses, Answer(r, response)
    PROVE  LInv'
<1> DEFINE q == req[r]
<1>1. q \in RequestStates /\ LogLink(config, q, log[r], vault) /\ q.state = "sent"
  BY DEF IInv, InvOf, ReqInv, LInv, Answer
<1>2. log[r].state = "none" /\ log[r].body = <<>>
  BY <1>1, Unlogged DEF Unanswered
<1> DEFINE slots == ResponseSlots(response)
           st == IF slots = {} THEN "delivered" ELSE "restoring"
           n == [q EXCEPT !.state = st, !.response = response, !.answer = response.body,
                          !.left = slots, !.todo = {}]
<1>3. req' = [req EXCEPT ![r] = n]
  BY DEF Answer
<1>4. /\ n.state \notin Unanswered /\ n.call = q.call /\ n.body = q.body
      /\ n.answer = n.response.body
  <2>1. st \notin Unanswered
    BY DEF Unanswered
  <2> HIDE DEF st, slots
  <2> QED
    BY <1>1, <2>1 DEF RequestStates
<1>5. SameSlots(config, n) /\ AnswerHeld(n)
  <2> HIDE DEF n
  <2> QED
    BY <1>1, <1>4 DEF LogLink, SameSlots, Asked, AnswerHeld
<1>6. LogLink(config, n, log[r], vault)
  BY <1>2, <1>4, <1>5, NoLogYet
<1> QED
  BY <1>3, <1>6, LinkStep DEF Answer

LEMMA RestoreSlotLinks ==
    ASSUME IInv, LInv, NEW r \in Requests, RestoreSlot(r)
    PROVE  LInv'
<1> DEFINE q == req[r]
<1>1. /\ q \in RequestStates /\ LogLink(config, q, log[r], vault) /\ q.state = "restoring"
      /\ ~q.call.stream
  BY DEF IInv, InvOf, ReqInv, RestoringInv, LInv, RestoreSlot
<1>2. PICK i \in First(q.left) :
        req' = [req EXCEPT
            ![r].answer[i] = Unmask(@),
            ![r].leaked = @ \/ (~config.fail_open /\ Unmask(req[r].answer[i]).holders # {}),
            ![r].left = @ \ {i}]
  BY Zenon DEF RestoreSlot
<1> DEFINE clear == Unmask(q.answer[i])
           flag == q.leaked \/ (~config.fail_open /\ clear.holders # {})
           n == [q EXCEPT !.answer = [@ EXCEPT ![i] = clear], !.leaked = flag,
                          !.left = @ \ {i}]
<1>3. /\ n.state = q.state /\ n.call = q.call /\ n.body = q.body
      /\ n.response = q.response /\ n.answer = [q.answer EXCEPT ![i] = clear]
  <2> HIDE DEF clear, flag
  <2> QED
    BY <1>1 DEF RequestStates
<1>4. q.answer # <<>> => n.answer # <<>>
  <2>1. q.answer \in Seq(Fields) /\ DOMAIN n.answer = DOMAIN q.answer
    BY <1>1, <1>3 DEF RequestStates
  <2> QED
    BY <2>1
<1>5. SameSlots(config, n) /\ PayloadSlots(config, n) = PayloadSlots(config, q)
  BY <1>1, <1>3 DEF LogLink, SameSlots, PayloadSlots, Asked, Answered
<1>6. AnswerHeld(n) /\ LogHeld(n, log[r], vault)
  <2>1. \A j \in DOMAIN q.answer : q.answer[j] \in Fields
    BY <1>1 DEF RequestStates
  <2>2. \A j \in DOMAIN n.answer :
          j \in DOMAIN q.answer /\ n.answer[j].holders \subseteq q.answer[j].holders
    <3>1. i \in DOMAIN q.answer => clear.holders \subseteq q.answer[i].holders
      BY <2>1, UnmaskHolders
    <3> HIDE DEF clear, n
    <3> QED
      BY <1>3, <3>1
  <2>3. AnswerHeld(q) /\ LogHeld(q, log[r], vault)
    BY <1>1 DEF LogLink
  <2> HIDE DEF n
  <2> QED
    BY <1>3, <2>2, <2>3 DEF AnswerHeld, LogHeld
<1>7. LogLink(config, n, log[r], vault)
  <2> HIDE DEF n
  <2> QED
    BY <1>1, <1>3, <1>4, <1>5, <1>6 DEF LogLink, Unanswered
<1>8. req' = [req EXCEPT ![r] = n]
  BY <1>2, Zenon
<1>9. config' = config /\ vault' = vault /\ log' = log
  BY DEF RestoreSlot
<1> QED
  BY <1>7, <1>8, <1>9, LinkStep

LEMMA StreamPieceLinks ==
    ASSUME IInv, LInv, NEW r \in Requests, NEW response \in Responses, StreamPiece(r, response)
    PROVE  LInv'
<1> DEFINE q == req[r]
<1>1. q \in RequestStates /\ LogLink(config, q, log[r], vault)
  BY DEF IInv, InvOf, ReqInv, LInv
<1>2. log[r].state = "none" /\ log[r].body = <<>>
  <2>1. CASE q.state = "sent"
    BY <1>1, <2>1, Unlogged DEF Unanswered
  <2>2. CASE q.state = "streaming" /\ response = q.response
    <3>1. Len(q.answer) # Len(q.response.body) /\ q.call.stream
      <4>1. q.answer \in Seq(Fields) /\ response.body \in Seq(Fields)
        BY <1>1, ResponseAssumption DEF RequestStates, ResponseBodies
      <4> QED
        BY <2>2, <4>1 DEF StreamPiece
    <3> QED
      BY <1>1, <3>1 DEF LogLink, LogHeld
  <2> QED
    BY <2>1, <2>2 DEF StreamPiece
<1> DEFINE piece == Streamed(response, response.body[Len(q.answer) + 1])
<1>3. req' = [req EXCEPT ![r].state = "streaming", ![r].response = response,
                         ![r].answer = Append(@, piece)]
  BY Zenon DEF StreamPiece
<1> DEFINE n == [q EXCEPT !.state = "streaming", !.response = response,
                          !.answer = Append(@, piece)]
<1>4. /\ n.state \notin Unanswered /\ n.call = q.call /\ n.body = q.body
      /\ n.response = response /\ n.answer = Append(q.answer, piece)
  <2> HIDE DEF piece
  <2> QED
    BY <1>1 DEF RequestStates, Unanswered
<1>5. SameSlots(config, n)
  BY <1>1, <1>4 DEF LogLink, SameSlots, Asked
<1>6. AnswerHeld(n)
  <2>1. /\ q.answer \in Seq(Fields) /\ response.body \in Seq(Fields)
        /\ Len(q.answer) < Len(response.body)
    BY <1>1, ResponseAssumption DEF RequestStates, ResponseBodies, StreamPiece
  <2>2. \A j \in DOMAIN q.answer : q.answer[j].holders \subseteq response.body[j].holders
    <3>1. CASE q.state = "sent"
      <4>1. q.answer = <<>>
        BY <1>1, <3>1, Unlogged DEF Unanswered
      <4> QED
        BY <4>1
    <3>2. CASE q.state = "streaming" /\ response = q.response
      BY <1>1, <3>2 DEF LogLink, AnswerHeld
    <3> QED
      BY <3>1, <3>2 DEF StreamPiece
  <2>3. piece.holders \subseteq response.body[Len(q.answer) + 1].holders
    <3>1. response.body[Len(q.answer) + 1] \in Fields
      BY <2>1
    <3> QED
      BY <3>1, StreamedHolders
  <2> HIDE DEF piece, n
  <2>4. DOMAIN n.answer = 1..(Len(q.answer) + 1)
    BY <1>4, <2>1
  <2>5. ASSUME NEW j \in DOMAIN n.answer
        PROVE  n.answer[j].holders \subseteq response.body[j].holders
    <3>1. CASE j = Len(q.answer) + 1
      <4>1. n.answer[j] = piece
        BY <1>4, <2>1, <3>1
      <4> QED
        BY <2>3, <3>1, <4>1
    <3>2. CASE j # Len(q.answer) + 1
      <4>1. j \in DOMAIN q.answer /\ n.answer[j] = q.answer[j]
        BY <1>4, <2>1, <2>4, <2>5, <3>2
      <4> QED
        BY <2>2, <4>1
    <3> QED
      BY <3>1, <3>2
  <2> QED
    BY <1>4, <2>5 DEF AnswerHeld
<1>7. LogLink(config, n, log[r], vault)
  <2> HIDE DEF n
  <2> QED
    BY <1>2, <1>4, <1>5, <1>6, NoLogYet
<1>8. req' = [req EXCEPT ![r] = n]
  BY <1>3, Zenon
<1>9. config' = config /\ vault' = vault /\ log' = log
  BY DEF StreamPiece
<1> QED
  BY <1>7, <1>8, <1>9, LinkStep

-----------------------------------------------------------------------------

(* A step of one request's log, with the vault only growing.               *)
LEMMA LogLinkStep ==
    ASSUME IInv, LInv, NEW r \in Requests, NEW l, NEW w, config' = config, req' = req,
           vault \subseteq w, vault' = w,
           log' = [log EXCEPT ![r] = l], LogLink(config, req[r], l, w)
    PROVE  LInv'
<1>1. \A s \in Requests : LogLink(config, req[s], log'[s], w)
  <2> TAKE s \in Requests
  <2>1. CASE s = r
    BY <2>1 DEF IInv, InvOf
  <2>2. CASE s # r
    <3>1. log'[s] = log[s] /\ LogLink(config, req[s], log[s], vault)
      BY <2>2 DEF IInv, InvOf, LInv
    <3> QED
      BY <3>1, LinkGrows
  <2> QED
    BY <2>1, <2>2
<1>2. \A s \in Requests : LogLink(config', req'[s], log'[s], vault')
  BY <1>1
<1> QED
  BY <1>2 DEF LInv

(* What two bodies hold beside two others, they hold when they are joined. *)
LEMMA JoinedHolders ==
    ASSUME NEW a \in Seq(Fields), NEW b \in Seq(Fields),
           NEW d \in Seq(Fields), NEW e \in Seq(Fields), NEW v,
           Len(a) = Len(d), Len(b) = Len(e),
           \A i \in DOMAIN a : a[i].holders \ d[i].holders \subseteq v,
           \A i \in DOMAIN b : b[i].holders \subseteq e[i].holders
    PROVE  /\ Len(a \o b) = Len(d) + Len(e)
           /\ \A i \in DOMAIN (a \o b) : (a \o b)[i].holders \ (d \o e)[i].holders \subseteq v
<1>1. /\ a \o b \in Seq(Fields) /\ Len(a \o b) = Len(d) + Len(e)
      /\ Len(d) \in Nat /\ Len(e) \in Nat
  <2>1. a \o b \in Seq(Fields) /\ Len(a \o b) = Len(a) + Len(b)
    BY JoinedDomain
  <2>2. Len(d) \in Nat /\ Len(e) \in Nat
    OBVIOUS
  <2> QED
    BY <2>1, <2>2
<1>2. ASSUME NEW i \in DOMAIN (a \o b)
      PROVE  (a \o b)[i].holders \ (d \o e)[i].holders \subseteq v
  <2>1. i \in 1..(Len(d) + Len(e))
    BY <1>1, <1>2
  <2>2. CASE i <= Len(d)
    <3>1. i \in DOMAIN a /\ (a \o b)[i] = a[i] /\ (d \o e)[i] = d[i]
      BY <1>1, <2>1, <2>2
    <3> QED
      BY <3>1
  <2>3. CASE i > Len(d)
    <3>1. /\ i - Len(d) \in DOMAIN b
          /\ (a \o b)[i] = b[i - Len(d)] /\ (d \o e)[i] = e[i - Len(d)]
      BY <1>1, <2>1, <2>3
    <3>2. b[i - Len(d)].holders \subseteq e[i - Len(d)].holders
      BY <3>1
    <3> QED
      BY <3>1, <3>2
  <2> QED
    BY <1>1, <2>1, <2>2, <2>3
<1> QED
  BY <1>1, <1>2

LEMMA LogCallLinks ==
    ASSUME IInv, LInv, NEW r \in Requests, NEW rereads \in BOOLEAN, LogCall(r, rereads)
    PROVE  LInv'
<1> DEFINE q == req[r]
           body == Payload(r, rereads)
           l == [state |-> "remasking", body |-> body, left |-> LogSlots(r),
                 todo |-> TermsAt(body, LogSlots(r))]
<1>1. /\ q \in RequestStates /\ ReqInv(config, q, vault)
      /\ LogLink(config, q, log[r], vault) /\ q.answer # <<>>
      /\ ~q.call.stream \/ Len(q.answer) = Len(q.response.body)
  BY DEF IInv, InvOf, ReqInv, LInv, LogCall
<1>2. PayloadSlots(config, q) = LogSlots(r)
  BY <1>1 DEF LogLink, SameSlots, PayloadSlots, LogSlots, RequestSlots, ResponseLogSlots,
     Answered, RequestLength
<1>3. LogHeld(q, l, vault)
  <2>1. /\ q.call.body \in Seq(Fields) /\ q.response.body \in Seq(Fields)
        /\ q.body \in Seq(Fields) /\ q.answer \in Seq(Fields)
    BY <1>1, BodyTypes
  <2>2. Len(q.body) = Len(q.call.body) /\ Len(q.answer) = Len(q.response.body)
    BY <1>1, <2>1 DEF ReqInv, BodyInv, AnswerInv
  <2>3. \A j \in DOMAIN q.answer : q.answer[j].holders \subseteq q.response.body[j].holders
    BY <1>1 DEF LogLink, AnswerHeld
  <2>4. \A i \in DOMAIN q.body : q.body[i].holders \ q.call.body[i].holders \subseteq vault
    BY <1>1 DEF ReqInv, BodyInv
  <2>5. PICK asked \in Seq(Fields) :
          /\ body = asked \o q.answer /\ Len(asked) = Len(q.call.body)
          /\ \A i \in DOMAIN asked : asked[i].holders \ q.call.body[i].holders \subseteq vault
    <3>1. CASE rereads
      BY <2>1, <3>1 DEF Payload
    <3>2. CASE ~rereads
      BY <2>1, <2>2, <2>4, <3>2 DEF Payload
    <3> QED
      BY <3>1, <3>2
  <2>6. /\ Len(body) = Len(q.call.body) + Len(q.response.body)
        /\ \A i \in DOMAIN body :
              body[i].holders \ (q.call.body \o q.response.body)[i].holders \subseteq vault
    <3> HIDE DEF body, q
    <3>1. /\ Len(asked \o q.answer) = Len(q.call.body) + Len(q.response.body)
          /\ \A i \in DOMAIN (asked \o q.answer) :
                (asked \o q.answer)[i].holders \ (q.call.body \o q.response.body)[i].holders
                    \subseteq vault
      BY <2>1, <2>2, <2>3, <2>5, JoinedHolders
    <3> QED
      BY <2>5, <3>1
  <2> HIDE DEF body, q
  <2> QED
    BY <2>6 DEF LogHeld
<1>4. LogLink(config, q, l, vault)
  BY <1>1, <1>2, <1>3 DEF LogLink
<1>5. log' = [log EXCEPT ![r] = l] /\ UNCHANGED <<config, vault, req>>
  BY DEF LogCall
<1> QED
  BY <1>4, <1>5, LogLinkStep

LEMMA LogAssignLinks ==
    ASSUME IInv, LInv, NEW r \in Requests, NEW t \in Terms, LogAssign(r, t)
    PROVE  LInv'
<1> DEFINE l == [log[r] EXCEPT !.todo = @ \ {t}]
           w == vault \cup {Code(ConfigScope, t)}
<1>1. log[r] \in LogStates /\ LogLink(config, req[r], log[r], vault)
  BY DEF IInv, InvOf, LogInv, LInv
<1>2. /\ l.state = log[r].state /\ l.body = log[r].body /\ l.left = log[r].left
      /\ l.todo = log[r].todo \ {t}
  BY <1>1 DEF LogStates
<1>3. LogLink(config, req[r], log[r], w)
  BY <1>1, LinkGrows
<1>4. LogHeld(req[r], l, w)
  <2>1. LogHeld(req[r], log[r], w)
    BY <1>3 DEF LogLink
  <2> HIDE DEF l
  <2> QED
    BY <1>2, <2>1 DEF LogHeld
<1>5. LogLink(config, req[r], l, w)
  <2> HIDE DEF l, w
  <2> QED
    BY <1>2, <1>3, <1>4 DEF LogLink
<1>6. /\ log' = [log EXCEPT ![r] = l] /\ vault' = w /\ vault \subseteq w
      /\ UNCHANGED <<config, req>>
  BY DEF LogAssign
<1> QED
  BY <1>5, <1>6, LogLinkStep

LEMMA LogSlotLinks ==
    ASSUME IInv, LInv, ~SharedResult, NEW r \in Requests, LogSlot(r)
    PROVE  LInv'
<1>1. /\ log[r] \in LogStates /\ LogInv(log[r]) /\ LogLink(config, req[r], log[r], vault)
      /\ log[r].state = "remasking" /\ log[r].todo = {}
  BY DEF IInv, InvOf, LogInv, LInv, LogSlot
<1>2. PICK i \in First(log[r].left) : LogWrite(r, i)
  BY DEF LogSlot
<1> DEFINE field == Mask(log[r].body[i], ConfigScope)
           masked == [log[r].body EXCEPT ![i] = field]
           rest == log[r].left \ {i}
           todo == TermsAt(masked, rest)
           l == [log[r] EXCEPT !.body = masked, !.left = rest, !.todo = todo]
<1>3. /\ log[r].body \in Seq(Fields) /\ i \in DOMAIN log[r].body
      /\ log[r].body[i] \in Fields
      /\ TermsAt(log[r].body, log[r].left) = log[r].body[i].terms
  <2>1. /\ log[r].left \in SUBSET Nat
        /\ log[r].left \subseteq DOMAIN log[r].body /\ log[r].body \in Seq(Fields)
    BY <1>1 DEF LogInv, LogStates
  <2>2. i \in log[r].left
    BY <1>2, <2>1, FirstIsOne
  <2> QED
    BY <1>2, <2>1, <2>2, TermsAtFirst
<1>4. /\ field.terms = {}
      /\ field.holders = log[r].body[i].holders
                            \cup {Code(ConfigScope, t) : t \in log[r].body[i].terms}
  BY <1>3 DEF Mask, Fields
<1>5. l.state = "remasking" /\ l.left = rest /\ l.body = masked /\ l.todo = todo
  <2> HIDE DEF masked, rest, todo
  <2> QED
    BY <1>1 DEF LogStates
<1>6. {Code(ConfigScope, t) : t \in log[r].body[i].terms} \subseteq vault
  BY <1>1, <1>3 DEF LogLink, LogHeld
<1>7. LogHeld(req[r], l, vault)
  <2>1. LogHeld(req[r], log[r], vault)
    BY <1>1 DEF LogLink
  <2>2. DOMAIN masked = DOMAIN log[r].body /\ Len(masked) = Len(log[r].body)
    BY <1>3
  <2> DEFINE written == req[r].call.body \o req[r].response.body
  <2>3. ASSUME NEW j \in DOMAIN masked
        PROVE  masked[j].holders \ written[j].holders \subseteq vault
    <3>1. log[r].body[j].holders \ written[j].holders \subseteq vault
      BY <1>1, <2>1, <2>2, <2>3 DEF LogHeld
    <3>2. CASE j = i
      <4>1. masked[j] = field
        BY <1>3, <3>2
      <4> HIDE DEF field, masked, written
      <4> QED
        BY <1>4, <1>6, <3>1, <3>2, <4>1
    <3>3. CASE j # i
      <4>1. masked[j] = log[r].body[j]
        BY <2>2, <2>3, <3>3
      <4> QED
        BY <3>1, <4>1
    <3> QED
      BY <3>2, <3>3
  <2>4. Len(log[r].body) = Len(req[r].call.body) + Len(req[r].response.body)
    BY <1>1, <2>1 DEF LogHeld
  <2> HIDE DEF l, masked, rest
  <2> QED
    BY <1>5, <2>2, <2>3, <2>4 DEF LogHeld
<1>8. \A j \in PayloadSlots(config, req[r]) \ rest :
        j \in DOMAIN masked => masked[j].terms = {}
  BY <1>1, <1>3, <1>4 DEF LogLink
<1>9. LogLink(config, req[r], l, vault)
  <2> HIDE DEF l, masked, rest, todo
  <2> QED
    BY <1>1, <1>5, <1>7, <1>8 DEF LogLink
<1>10. /\ log' = [log EXCEPT ![r].body = masked, ![r].left = rest, ![r].todo = todo]
       /\ req' = req
  BY <1>2, LogWritten
<1>11. log' = [log EXCEPT ![r] = l]
  BY <1>10, Zenon
<1>12. config' = config /\ vault' = vault
  BY DEF LogSlot
<1> QED
  BY <1>9, <1>10, <1>11, <1>12, LogLinkStep

LEMMA LogEndLinks ==
    ASSUME IInv, LInv, NEW r \in Requests, LogDone(r) \/ LogFails(r)
    PROVE  LInv'
<1>1. /\ log[r] \in LogStates /\ LogLink(config, req[r], log[r], vault)
      /\ log[r].state = "remasking"
  BY DEF IInv, InvOf, LogInv, LInv, LogDone, LogFails
<1>2. ASSUME NEW st \in {"logged", "unmasked"}, st = "logged" => log[r].left = {},
             log' = [log EXCEPT ![r].state = st]
      PROVE  LInv'
  <2> DEFINE l == [log[r] EXCEPT !.state = st]
  <2>1. l.state = st /\ l.body = log[r].body /\ l.left = log[r].left
    BY <1>1 DEF LogStates
  <2>2. LogLink(config, req[r], l, vault)
    <3> HIDE DEF l
    <3>1. LogHeld(req[r], l, vault)
      BY <1>1, <1>2, <2>1 DEF LogLink, LogHeld
    <3> QED
      BY <1>1, <1>2, <2>1, <3>1 DEF LogLink
  <2>3. log' = [log EXCEPT ![r] = l] /\ UNCHANGED <<config, vault, req>>
    BY <1>2 DEF LogDone, LogFails
  <2> QED
    BY <2>2, <2>3, LogLinkStep
<1>3. CASE LogDone(r)
  BY <1>2, <1>3 DEF LogDone
<1>4. CASE LogFails(r)
  BY <1>2, <1>4 DEF LogFails
<1> QED
  BY <1>3, <1>4

-----------------------------------------------------------------------------

LEMMA LinksAtInit == Init => LInv
<1> SUFFICES ASSUME Init, NEW r \in Requests PROVE LogLink(config, req[r], log[r], vault)
  BY DEF LInv
<1>1. req[r] = Idle /\ log[r] = Silent
  BY DEF Init
<1>2. Idle.call = NoCall /\ Idle.body = <<>> /\ Idle.answer = <<>> /\ NoCall.body = <<>>
  BY DEF Idle, NoCall
<1>3. SameSlots(config, Idle) /\ AnswerHeld(Idle)
  BY <1>2 DEF SameSlots, Asked, AnswerHeld
<1> QED
  BY <1>1, <1>2, <1>3, NoLogYet DEF Silent

LEMMA NextLinks == ASSUME ~SharedResult, IInv, LInv, [Next]_vars PROVE LInv'
<1>1. CASE UNCHANGED vars
  <2>1. \A r \in Requests : LogLink(config', req'[r], log'[r], vault')
    BY <1>1 DEF LInv, vars
  <2> QED
    BY <2>1 DEF LInv
<1>2. CASE Next
  <2>1. PICK r \in Requests :
          \/ \E call \in Calls : Call(r, call)
          \/ \E t \in Terms : Assign(r, t)
          \/ SetSlot(r) \/ Forward(r) \/ MaskFails(r)
          \/ \E response \in Responses : Answer(r, response)
          \/ RestoreSlot(r) \/ Deliver(r) \/ RestoreFails(r)
          \/ \E response \in Responses : StreamPiece(r, response)
          \/ StreamEnds(r) \/ StreamFails(r)
          \/ \E rereads \in BOOLEAN : LogCall(r, rereads)
          \/ \E t \in Terms : LogAssign(r, t)
          \/ LogSlot(r) \/ LogDone(r) \/ LogFails(r)
    BY <1>2, Zenon DEF Next, AnswersFor
  <2>2. CASE \E call \in Calls : Call(r, call)
    BY <2>2, CallLinks
  <2>3. CASE SetSlot(r)
    BY <2>3, SetSlotLinks
  <2>4. CASE \E response \in Responses : Answer(r, response)
    BY <2>4, AnswerLinks
  <2>5. CASE RestoreSlot(r)
    BY <2>5, RestoreSlotLinks
  <2>6. CASE \E response \in Responses : StreamPiece(r, response)
    BY <2>6, StreamPieceLinks
  <2>7. CASE \E rereads \in BOOLEAN : LogCall(r, rereads)
    BY <2>7, LogCallLinks
  <2>8. CASE LogSlot(r)
    BY <2>8, LogSlotLinks
  <2>9. CASE LogDone(r) \/ LogFails(r)
    BY <2>9, LogEndLinks
  <2>10. CASE \E t \in Terms : LogAssign(r, t)
    BY <2>10, LogAssignLinks
  <2> QED
    BY <2>1, <2>2, <2>3, <2>4, <2>5, <2>6, <2>7, <2>8, <2>9, <2>10, RequestLinks,
       Zenon
<1> QED
  BY <1>1, <1>2

(* What the hooks keep of a request agrees with its log.                   *)
LEMMA LinkInvariant == ASSUME ~SharedResult PROVE Spec => []LInv
<1>1. Init => LInv
  BY LinksAtInit
<1>2. IInv /\ LInv /\ [Next]_vars => LInv'
  BY NextLinks
<1> QED
  BY <1>1, <1>2, BookkeepingInvariant, PTL DEF Spec

(* A payload whose re-mask came to its end shows no dictionary term in any *)
(* slot of the request or of the response, however far the response had    *)
(* been restored when the hook ran and whether the request is given as     *)
(* sent or as the client wrote it (logging.py:3-7).                        *)
THEOREM LogsAreMasked == ASSUME ~SharedResult PROVE Spec => []LoggedMasked
<1>1. LInv => LoggedMasked
  <2> SUFFICES ASSUME LInv, NEW r \in Requests, log[r].state = "logged",
                      NEW i \in Masked(r) \cup {j + RequestLength(r) : j \in Restored(r)},
                      i \in DOMAIN log[r].body
               PROVE  log[r].body[i].terms = {}
    BY DEF LoggedMasked
  <2>1. i \in PayloadSlots(config, req[r])
    BY AskedIsMasked DEF PayloadSlots, Answered, Restored, RequestLength
  <2>2. LogLink(config, req[r], log[r], vault)
    BY DEF LInv
  <2> QED
    BY <2>1, <2>2 DEF LogLink
<1> QED
  BY <1>1, LinkInvariant, PTL

(* Every placeholder lexvault put into a log, for the request or when the  *)
(* log was re-masked, has its row in the vault, in a payload that is still *)
(* worked on and in one whose re-mask failed half-way too                  *)
(* (logging.py:67-125, guardrail.py:401-403).                              *)
THEOREM LogsHaveRows == ASSUME ~SharedResult PROVE Spec => []LoggedRestorable
<1>1. LInv => LoggedRestorable
  <2> SUFFICES ASSUME LInv, NEW r \in Requests, NEW i \in DOMAIN log[r].body
               PROVE  log[r].body[i].holders \ Written(r)[i].holders \subseteq vault
    BY DEF LoggedRestorable
  <2>1. LogHeld(req[r], log[r], vault)
    BY DEF LInv, LogLink
  <2>2. log[r].state # "none"
    BY <2>1 DEF LogHeld
  <2> QED
    BY <2>1, <2>2 DEF LogHeld, Written
<1> QED
  BY <1>1, LinkInvariant, PTL

-----------------------------------------------------------------------------

(* The LLM wrote a placeholder into a slot that is of none of the terms it *)
(* was sent for q.                                                         *)
Reason(c, q) ==
    \E i \in Answered(q) : \E h \in q.response.body[i].holders :
        \A j \in Asked(c, q) : \A t \in q.call.body[j].terms : h # Code(q.scope, t)

(* The terms q asked in the slots of J have their placeholders in v.       *)
Known(q, J, v) == \A j \in J : \A t \in q.call.body[j].terms : Code(q.scope, t) \in v

(* Without an error, every term asked is known before the LLM can answer,  *)
(* a slot the loop has not reached is as it came, and the flag has a reason.*)
FilterInv(c, q, v) ==
    ~q.error =>
        /\ q.state \in {"idle", "masking", "sent"} => ~q.leaked
        /\ q.state = "masking" =>
              /\ Known(q, Asked(c, q) \ q.left, v)
              /\ \A i \in q.left : q.body[i] = q.call.body[i]
        /\ q.state \in {"sent", "restoring"} => Known(q, Asked(c, q), v)
        /\ q.state = "restoring" =>
              /\ \A i \in q.left : q.answer[i] = q.response.body[i]
              /\ q.leaked => Reason(c, q)
        /\ q.state = "filtered" => Reason(c, q)

FInv == \A r \in Requests : FilterInv(config, req[r], vault)

-----------------------------------------------------------------------------

LEMMA FilterGrows ==
    ASSUME NEW c, NEW q, NEW v, NEW w, v \subseteq w, FilterInv(c, q, v)
    PROVE  FilterInv(c, q, w)
BY DEF FilterInv, Known

(* A step of one request, with the vault only growing.                     *)
LEMMA FilterStep ==
    ASSUME IInv, FInv, NEW r \in Requests, NEW n, NEW w, config' = config,
           vault \subseteq w, vault' = w, req' = [req EXCEPT ![r] = n],
           FilterInv(config, n, w)
    PROVE  FInv'
<1>1. \A s \in Requests : FilterInv(config, req'[s], w)
  <2> TAKE s \in Requests
  <2>1. CASE s = r
    BY <2>1 DEF IInv, InvOf
  <2>2. CASE s # r
    <3>1. req'[s] = req[s] /\ FilterInv(config, req[s], vault)
      BY <2>2 DEF IInv, InvOf, FInv
    <3> QED
      BY <3>1, FilterGrows
  <2> QED
    BY <2>1, <2>2
<1>2. \A s \in Requests : FilterInv(config', req'[s], vault')
  BY <1>1
<1> QED
  BY <1>2 DEF FInv

(* A step that leaves the requests alone.                                  *)
LEMMA FilterLog ==
    ASSUME FInv, config' = config, vault \subseteq vault', req' = req
    PROVE  FInv'
<1>1. \A s \in Requests : FilterInv(config', req'[s], vault')
  BY FilterGrows DEF FInv
<1> QED
  BY <1>1 DEF FInv

(* What the filter goes by does not depend on how far the loop is.         *)
LEMMA SameReason ==
    ASSUME NEW c, NEW q, NEW n,
           n.call = q.call, n.scope = q.scope, n.response = q.response
    PROVE  Asked(c, n) = Asked(c, q) /\ (Reason(c, n) <=> Reason(c, q))
<1>1. Asked(c, n) = Asked(c, q) /\ Answered(n) = Answered(q)
  BY DEF Asked, Answered
<1> QED
  BY <1>1 DEF Reason

LEMMA SameKnown ==
    ASSUME NEW c, NEW q, NEW n, NEW J, NEW v, n.call = q.call, n.scope = q.scope
    PROVE  Asked(c, n) = Asked(c, q) /\ (Known(n, J, v) <=> Known(q, J, v))
BY DEF Asked, Known

LEMMA CallFilter ==
    ASSUME IInv, FInv, NEW r \in Requests, NEW call \in Calls, Call(r, call)
    PROVE  FInv'
<1> DEFINE nontext == call.call_type \in NonTextCallTypes
           slots == IF nontext THEN {} ELSE RequestSlots(call.call_type, call.body)
           n == [Idle EXCEPT !.state = IF nontext THEN "sent" ELSE "masking",
                             !.call = call, !.body = call.body,
                             !.scope = PerRequestScope(call.scopes),
                             !.left = slots, !.todo = TermsAt(call.body, slots)]
<1>1. /\ n.state = (IF nontext THEN "sent" ELSE "masking") /\ n.call = call
      /\ n.body = call.body /\ n.left = slots /\ n.leaked = FALSE
  BY DEF Idle
<1>2. ~nontext => slots = Asked(config, n)
  BY <1>1 DEF RequestSlots, Asked
<1>3. nontext => Asked(config, n) = {}
  <2> SUFFICES ASSUME nontext, NEW i \in Asked(config, n) PROVE FALSE
    OBVIOUS
  <2>1. /\ i \in DOMAIN call.body
        /\ RequestSlot(AdapterOf(call.call_type), call.body[i], config.mask_system)
    BY <1>1 DEF Asked
  <2>2. call.body[i].place = "input"
    BY <2>1, NonTextAssumption
  <2>3. AdapterOf(call.call_type) = "openai"
    BY DEF NonTextCallTypes, AdapterOf
  <2> QED
    BY <2>1, <2>2, <2>3 DEF RequestSlot, OpenAIRequestSlot
<1>4. FilterInv(config, n, vault)
  <2>1. CASE nontext
    BY <1>1, <1>3, <2>1 DEF FilterInv, Known
  <2>2. CASE ~nontext
    BY <1>1, <1>2, <2>2 DEF FilterInv, Known
  <2> QED
    BY <2>1, <2>2
<1>5. req' = [req EXCEPT ![r] = n] /\ UNCHANGED <<config, vault>>
  BY DEF Call
<1> QED
  BY <1>4, <1>5, FilterStep

LEMMA AssignFilter ==
    ASSUME IInv, FInv, NEW r \in Requests, NEW t \in Terms, Assign(r, t)
    PROVE  FInv'
<1> DEFINE q == req[r]
           n == [q EXCEPT !.todo = @ \ {t}]
           w == vault \cup {Code(q.scope, t)}
<1>1. q \in RequestStates /\ FilterInv(config, q, vault)
  BY DEF IInv, InvOf, ReqInv, FInv
<1>2. /\ n.state = q.state /\ n.call = q.call /\ n.body = q.body /\ n.left = q.left
      /\ n.scope = q.scope /\ n.response = q.response /\ n.answer = q.answer
      /\ n.leaked = q.leaked /\ n.error = q.error
  BY <1>1 DEF RequestStates
<1>3. FilterInv(config, q, w)
  BY <1>1, FilterGrows
<1>4. FilterInv(config, n, w)
  <2>1. Asked(config, n) = Asked(config, q) /\ (Reason(config, n) <=> Reason(config, q))
    BY <1>2, SameReason
  <2>2. \A J : Known(n, J, w) <=> Known(q, J, w)
    BY <1>2 DEF Known
  <2> HIDE DEF n, w
  <2> QED
    BY <1>2, <1>3, <2>1, <2>2 DEF FilterInv
<1>5. req' = [req EXCEPT ![r] = n] /\ vault' = w /\ config' = config
  BY DEF Assign
<1> QED
  BY <1>4, <1>5, FilterStep

LEMMA SetSlotFilter ==
    ASSUME IInv, FInv, NEW r \in Requests, SetSlot(r)
    PROVE  FInv'
<1> DEFINE q == req[r]
<1>1. /\ q \in RequestStates /\ ReqInv(config, q, vault) /\ FilterInv(config, q, vault)
      /\ q.state = "masking" /\ q.todo = {}
  BY DEF IInv, InvOf, ReqInv, FInv, SetSlot
<1>2. PICK i \in First(q.left) : NextSlot(r, i)
  BY DEF SetSlot
<1> DEFINE todo == TermsAt(q.body, q.left \ {i})
           masked == Mask(q.body[i], q.scope)
           n == [q EXCEPT !.body = [@ EXCEPT ![i] = masked], !.left = @ \ {i}, !.todo = todo]
<1>3. /\ q.left \in SUBSET Nat /\ i \in q.left
      /\ TermsAt(q.body, q.left) = q.body[i].terms
  BY <1>1, <1>2, FirstIsOne, TermsAtFirst DEF RequestStates
<1>4. /\ n.state = q.state /\ n.call = q.call /\ n.left = q.left \ {i}
      /\ n.scope = q.scope /\ n.leaked = q.leaked /\ n.error = q.error
      /\ n.body = [q.body EXCEPT ![i] = masked]
  <2> HIDE DEF masked, todo
  <2> QED
    BY <1>1 DEF RequestStates
<1>5. \A t \in q.body[i].terms : Code(q.scope, t) \in vault
  BY <1>1, <1>3 DEF ReqInv, MaskingInv
<1>6. ASSUME ~q.error PROVE Known(n, Asked(config, n) \ n.left, vault)
  <2>1. Known(q, Asked(config, q) \ q.left, vault) /\ q.body[i] = q.call.body[i]
    BY <1>1, <1>3, <1>6 DEF FilterInv
  <2>2. Known(q, {i}, vault)
    BY <1>5, <2>1 DEF Known
  <2>3. Asked(config, n) = Asked(config, q)
    <3>1. n.call = q.call /\ n.scope = q.scope
      BY <1>4
    <3> HIDE DEF n, q
    <3> QED
      BY <3>1 DEF Asked
  <2>4. Known(q, Asked(config, n) \ n.left, vault)
    BY <1>4, <2>1, <2>2, <2>3 DEF Known
  <2> HIDE DEF n
  <2> QED
    BY <1>4, <2>4, SameKnown
<1>7. ~q.error => \A j \in n.left : n.body[j] = n.call.body[j]
  BY <1>1, <1>4 DEF FilterInv
<1>8. FilterInv(config, n, vault)
  <2> HIDE DEF n
  <2> QED
    BY <1>1, <1>4, <1>6, <1>7 DEF FilterInv
<1>9. req' = [req EXCEPT ![r] = n]
  BY <1>2, Zenon DEF NextSlot
<1>10. UNCHANGED <<config, vault>>
  BY DEF SetSlot
<1> QED
  BY <1>8, <1>9, <1>10, FilterStep

LEMMA ForwardFilter ==
    ASSUME IInv, FInv, NEW r \in Requests, Forward(r)
    PROVE  FInv'
<1> DEFINE q == req[r]
           n == [q EXCEPT !.state = "sent"]
<1>1. /\ q \in RequestStates /\ FilterInv(config, q, vault)
      /\ q.state = "masking" /\ q.left = {}
  BY DEF IInv, InvOf, ReqInv, FInv, Forward
<1>2. /\ n.state = "sent" /\ n.call = q.call /\ n.scope = q.scope
      /\ n.leaked = q.leaked /\ n.error = q.error
  BY <1>1 DEF RequestStates
<1>3. ~q.error => Known(q, Asked(config, q), vault) /\ ~q.leaked
  BY <1>1 DEF FilterInv, Known
<1>4. FilterInv(config, n, vault)
  <2> HIDE DEF n
  <2>1. Asked(config, n) = Asked(config, q)
        /\ (Known(n, Asked(config, q), vault) <=> Known(q, Asked(config, q), vault))
    BY <1>2, SameKnown
  <2> QED
    BY <1>2, <1>3, <2>1 DEF FilterInv
<1>5. req' = [req EXCEPT ![r] = n] /\ UNCHANGED <<config, vault>>
  BY DEF Forward
<1> QED
  BY <1>4, <1>5, FilterStep

LEMMA AnswerFilter ==
    ASSUME IInv, FInv, NEW r \in Requests, NEW response \in Responses, Answer(r, response)
    PROVE  FInv'
<1> DEFINE q == req[r]
           slots == ResponseSlots(response)
           st == IF slots = {} THEN "delivered" ELSE "restoring"
           n == [q EXCEPT !.state = st, !.response = response, !.answer = response.body,
                          !.left = slots, !.todo = {}]
<1>1. q \in RequestStates /\ FilterInv(config, q, vault) /\ q.state = "sent"
  BY DEF IInv, InvOf, ReqInv, FInv, Answer
<1>2. /\ n.state = st /\ n.call = q.call /\ n.scope = q.scope /\ n.response = response
      /\ n.answer = response.body /\ n.leaked = q.leaked /\ n.error = q.error
  <2> HIDE DEF st, slots
  <2> QED
    BY <1>1 DEF RequestStates
<1>3. st \in {"delivered", "restoring"}
  OBVIOUS
<1>4. ~q.error => Known(q, Asked(config, q), vault) /\ ~q.leaked
  BY <1>1 DEF FilterInv
<1>5. FilterInv(config, n, vault)
  <2> HIDE DEF n, st
  <2>1. Asked(config, n) = Asked(config, q)
        /\ (Known(n, Asked(config, q), vault) <=> Known(q, Asked(config, q), vault))
    BY <1>2, SameKnown
  <2> QED
    BY <1>2, <1>3, <1>4, <2>1 DEF FilterInv
<1>6. req' = [req EXCEPT ![r] = n] /\ UNCHANGED <<config, vault>>
  BY DEF Answer
<1> QED
  BY <1>5, <1>6, FilterStep

LEMMA RestoreSlotFilter ==
    ASSUME IInv, FInv, NEW r \in Requests, RestoreSlot(r)
    PROVE  FInv'
<1> DEFINE q == req[r]
<1>1. /\ q \in RequestStates /\ ReqInv(config, q, vault) /\ FilterInv(config, q, vault)
      /\ q.state = "restoring" /\ vault \subseteq Codes
  BY DEF IInv, InvOf, ReqInv, FInv, RestoreSlot
<1>2. PICK i \in First(q.left) :
        req' = [req EXCEPT
            ![r].answer[i] = Unmask(@),
            ![r].leaked = @ \/ (~config.fail_open /\ Unmask(req[r].answer[i]).holders # {}),
            ![r].left = @ \ {i}]
  BY Zenon DEF RestoreSlot
<1> DEFINE clear == Unmask(q.answer[i])
           flag == q.leaked \/ (~config.fail_open /\ clear.holders # {})
           n == [q EXCEPT !.answer = [@ EXCEPT ![i] = clear], !.leaked = flag,
                          !.left = @ \ {i}]
<1>3. /\ i \in q.left /\ i \in Answered(q) /\ q.answer[i] \in Fields
  <2>1. /\ q.left \in SUBSET Nat /\ q.left \subseteq Answered(q)
        /\ Answered(q) \subseteq DOMAIN q.answer /\ q.answer \in Seq(Fields)
    BY <1>1 DEF ReqInv, RestoringInv, AnswerInv, Answered, ResponseSlots, RequestStates
  <2>2. i \in q.left
    BY <1>2, <2>1, FirstIsOne
  <2> QED
    BY <2>1, <2>2
<1>4. /\ n.state = q.state /\ n.call = q.call /\ n.scope = q.scope
      /\ n.response = q.response /\ n.answer = [q.answer EXCEPT ![i] = clear]
      /\ n.leaked = flag /\ n.left = q.left \ {i} /\ n.error = q.error
  <2> HIDE DEF clear, flag
  <2> QED
    BY <1>1 DEF RequestStates
<1>5. clear.holders = q.answer[i].holders \ vault
  BY <1>3 DEF Unmask, Fields
<1>6. ASSUME ~q.error PROVE flag => Reason(config, q)
  <2>1. /\ Known(q, Asked(config, q), vault) /\ q.answer[i] = q.response.body[i]
        /\ q.leaked => Reason(config, q)
    BY <1>1, <1>3, <1>6 DEF FilterInv
  <2>2. ASSUME clear.holders # {} PROVE Reason(config, q)
    <3>1. PICK h : h \in q.response.body[i].holders /\ h \notin vault
      BY <1>5, <2>1, <2>2
    <3>2. \A j \in Asked(config, q) : \A t \in q.call.body[j].terms : h # Code(q.scope, t)
      BY <2>1, <3>1 DEF Known
    <3> QED
      BY <1>3, <3>1, <3>2, Zenon DEF Reason
  <2> QED
    BY <2>1, <2>2
<1>7. ~q.error => \A j \in n.left : n.answer[j] = n.response.body[j]
  <2>1. \A j \in n.left : n.answer[j] = q.answer[j]
    BY <1>4
  <2> QED
    BY <1>1, <1>4, <2>1 DEF FilterInv
<1>8. FilterInv(config, n, vault)
  <2> HIDE DEF n, flag
  <2>1. /\ Asked(config, n) = Asked(config, q)
        /\ Known(n, Asked(config, q), vault) <=> Known(q, Asked(config, q), vault)
        /\ Reason(config, n) <=> Reason(config, q)
    BY <1>4, SameKnown, SameReason
  <2> QED
    BY <1>1, <1>4, <1>6, <1>7, <2>1 DEF FilterInv
<1>9. req' = [req EXCEPT ![r] = n]
  BY <1>2, Zenon
<1>10. UNCHANGED <<config, vault>>
  BY DEF RestoreSlot
<1> QED
  BY <1>8, <1>9, <1>10, FilterStep

LEMMA DeliverFilter ==
    ASSUME IInv, FInv, NEW r \in Requests, Deliver(r)
    PROVE  FInv'
<1> DEFINE q == req[r]
           st == IF q.leaked THEN "filtered" ELSE "delivered"
           n == [q EXCEPT !.state = st]
<1>1. q \in RequestStates /\ FilterInv(config, q, vault) /\ q.state = "restoring"
  BY DEF IInv, InvOf, ReqInv, FInv, Deliver
<1>2. /\ n.state = st /\ n.call = q.call /\ n.scope = q.scope
      /\ n.response = q.response /\ n.error = q.error
  <2> HIDE DEF st
  <2> QED
    BY <1>1 DEF RequestStates
<1>3. st = "delivered" \/ (st = "filtered" /\ q.leaked)
  OBVIOUS
<1>4. FilterInv(config, n, vault)
  <2>1. Reason(config, n) <=> Reason(config, q)
    BY <1>2, SameReason
  <2> HIDE DEF n, st
  <2> QED
    BY <1>1, <1>2, <1>3, <2>1 DEF FilterInv
<1>5. req' = [req EXCEPT ![r] = n] /\ UNCHANGED <<config, vault>>
  BY DEF Deliver
<1> QED
  BY <1>4, <1>5, FilterStep

(* After an error there is nothing to account for.                         *)
LEMMA FailureFilter ==
    ASSUME IInv, FInv, NEW r \in Requests,
           MaskFails(r) \/ RestoreFails(r) \/ StreamFails(r)
    PROVE  FInv'
<1> DEFINE n(st) == [req[r] EXCEPT !.state = st, !.error = TRUE]
<1>1. \A st : FilterInv(config, n(st), vault)
  <2> TAKE st
  <2>1. n(st).error
    BY DEF IInv, InvOf, ReqInv, RequestStates
  <2> HIDE DEF n
  <2> QED
    BY <2>1 DEF FilterInv
<1>2. PICK st : req' = [req EXCEPT ![r].state = st, ![r].error = TRUE]
  BY Zenon DEF MaskFails, RestoreFails, StreamFails
<1>3. req' = [req EXCEPT ![r] = n(st)] /\ UNCHANGED <<config, vault>>
  BY <1>2 DEF MaskFails, RestoreFails, StreamFails
<1> QED
  BY <1>1, <1>3, FilterStep

(* A stream is not filtered.                                               *)
LEMMA StreamedFilter ==
    ASSUME NEW c, NEW n, NEW v, n.state \in {"streaming", "delivered"}
    PROVE  FilterInv(c, n, v)
BY DEF FilterInv

LEMMA StreamFilter ==
    ASSUME IInv, FInv, NEW r \in Requests,
           StreamEnds(r) \/ \E response \in Responses : StreamPiece(r, response)
    PROVE  FInv'
<1>1. CASE StreamEnds(r)
  <2> DEFINE n == [req[r] EXCEPT !.state = "delivered"]
  <2>1. n.state = "delivered"
    BY DEF IInv, InvOf, ReqInv, RequestStates
  <2>2. req' = [req EXCEPT ![r] = n] /\ UNCHANGED <<config, vault>>
    BY <1>1 DEF StreamEnds
  <2> HIDE DEF n
  <2>3. FilterInv(config, n, vault)
    BY <2>1, StreamedFilter
  <2> QED
    BY <2>2, <2>3, FilterStep
<1>2. ASSUME NEW response, StreamPiece(r, response) PROVE FInv'
  <2>1. PICK piece :
          req' = [req EXCEPT ![r].state = "streaming", ![r].response = response,
                             ![r].answer = Append(@, piece)]
    BY <1>2, Zenon DEF StreamPiece
  <2> DEFINE n == [req[r] EXCEPT !.state = "streaming", !.response = response,
                                 !.answer = Append(@, piece)]
  <2>2. n.state = "streaming"
    BY DEF IInv, InvOf, ReqInv, RequestStates
  <2>3. req' = [req EXCEPT ![r] = n]
    BY <2>1, Zenon
  <2>4. UNCHANGED <<config, vault>>
    BY <1>2 DEF StreamPiece
  <2> HIDE DEF n
  <2>5. FilterInv(config, n, vault)
    BY <2>2, StreamedFilter
  <2> QED
    BY <2>3, <2>4, <2>5, FilterStep
<1> QED
  BY <1>1, <1>2

LEMMA LogFilter ==
    ASSUME ~SharedResult, FInv, NEW r \in Requests,
           \/ \E rereads \in BOOLEAN : LogCall(r, rereads)
           \/ \E t \in Terms : LogAssign(r, t)
           \/ LogSlot(r) \/ LogDone(r) \/ LogFails(r)
    PROVE  FInv'
<1>1. config' = config /\ vault \subseteq vault' /\ req' = req
  BY LogWritten DEF LogCall, LogAssign, LogSlot, LogDone, LogFails
<1> QED
  BY <1>1, FilterLog

LEMMA FilterAtInit == Init => FInv
<1> SUFFICES ASSUME Init, NEW r \in Requests PROVE FilterInv(config, req[r], vault)
  BY DEF FInv
<1>1. req[r] = Idle /\ Idle.state = "idle" /\ Idle.leaked = FALSE
  BY DEF Init, Idle
<1> QED
  BY <1>1 DEF FilterInv

LEMMA NextFilter == ASSUME ~SharedResult, IInv, FInv, [Next]_vars PROVE FInv'
<1>1. CASE UNCHANGED vars
  BY <1>1, FilterLog DEF vars
<1>2. CASE Next
  <2>1. PICK r \in Requests :
          \/ \E call \in Calls : Call(r, call)
          \/ \E t \in Terms : Assign(r, t)
          \/ SetSlot(r) \/ Forward(r)
          \/ MaskFails(r) \/ RestoreFails(r) \/ StreamFails(r)
          \/ \E response \in Responses : Answer(r, response)
          \/ RestoreSlot(r) \/ Deliver(r)
          \/ StreamEnds(r) \/ \E response \in Responses : StreamPiece(r, response)
          \/ \E rereads \in BOOLEAN : LogCall(r, rereads)
          \/ \E t \in Terms : LogAssign(r, t)
          \/ LogSlot(r) \/ LogDone(r) \/ LogFails(r)
    BY <1>2, Zenon DEF Next, AnswersFor
  <2>2. CASE \E call \in Calls : Call(r, call)
    BY <2>2, CallFilter
  <2>3. CASE \E t \in Terms : Assign(r, t)
    BY <2>3, AssignFilter
  <2>4. CASE SetSlot(r)
    BY <2>4, SetSlotFilter
  <2>5. CASE Forward(r)
    BY <2>5, ForwardFilter
  <2>6. CASE MaskFails(r) \/ RestoreFails(r) \/ StreamFails(r)
    BY <2>6, FailureFilter
  <2>7. CASE \E response \in Responses : Answer(r, response)
    BY <2>7, AnswerFilter
  <2>8. CASE RestoreSlot(r)
    BY <2>8, RestoreSlotFilter
  <2>9. CASE Deliver(r)
    BY <2>9, DeliverFilter
  <2>10. CASE StreamEnds(r) \/ \E response \in Responses : StreamPiece(r, response)
    BY <2>10, StreamFilter
  <2>11. CASE \/ \E rereads \in BOOLEAN : LogCall(r, rereads)
              \/ \E t \in Terms : LogAssign(r, t)
              \/ LogSlot(r) \/ LogDone(r) \/ LogFails(r)
    BY <2>11, LogFilter
  <2> QED
    BY <2>1, <2>2, <2>3, <2>4, <2>5, <2>6, <2>7, <2>8, <2>9, <2>10, <2>11, Zenon
<1> QED
  BY <1>1, <1>2

(* Nothing failed and the response is withheld: then the LLM wrote a       *)
(* placeholder that is of no term it was sent, because every term of the   *)
(* request is in the vault before the LLM can answer, whatever the other   *)
(* requests and the logs are doing (guardrail.py:307-323).                 *)
THEOREM NoFalseAlarm == ASSUME ~SharedResult PROVE Spec => []FilteredForAReason
<1>1. Init => FInv
  BY FilterAtInit
<1>2. IInv /\ FInv /\ [Next]_vars => FInv'
  BY NextFilter
<1>3. FInv => FilteredForAReason
  <2> SUFFICES ASSUME FInv, NEW r \in Requests, req[r].state = "filtered", ~req[r].error
               PROVE  \E i \in Restored(r) : \E h \in req[r].response.body[i].holders :
                          \A j \in Masked(r) : \A t \in req[r].call.body[j].terms :
                              h # Code(req[r].scope, t)
    BY DEF FilteredForAReason
  <2>1. Reason(config, req[r])
    BY DEF FInv, FilterInv
  <2>2. Masked(r) = Asked(config, req[r]) /\ Restored(r) = Answered(req[r])
    BY AskedIsMasked DEF Restored, Answered
  <2> QED
    BY <2>1, <2>2 DEF Reason
<1> QED
  BY <1>1, <1>2, <1>3, BookkeepingInvariant, PTL DEF Spec
=============================================================================
