------------------------- MODULE PendingTTFTProofs -------------------------
(* Theorems about PendingTTFT and their proofs.                             *)
EXTENDS PendingTTFT, FiniteSetTheorems, TLAPS

-----------------------------------------------------------------------------
(* The inductive invariant.  A span delivered once is in one place only: in  *)
(* a handler's hands, parked, or on one row.                                 *)

Holds(h, s) == job[h] # Idle /\ job[h].span = s

NotSentNowhere ==
    \A s \in Spans : sent[s] = 0 =>
        /\ \A h \in Handlers : ~Holds(h, s)
        /\ \A p \in Waiting : p.span # s
        /\ \A r \in Requests : ttft[r] # s

OnePlace ==
    \A s \in Spans : sent[s] <= 1 =>
        /\ \A h, g \in Handlers : Holds(h, s) /\ Holds(g, s) => h = g
        /\ \A p, q \in Waiting : p.span = s /\ q.span = s => p = q
        /\ \A r, q \in Requests : ttft[r] = s /\ ttft[q] = s => r = q
        /\ \A h \in Handlers, p \in Waiting : ~(Holds(h, s) /\ p.span = s)
        /\ \A h \in Handlers, r \in Requests : ~(Holds(h, s) /\ ttft[r] = s)
        /\ \A p \in Waiting, r \in Requests : ~(p.span = s /\ ttft[r] = s)

UnstoredEmpty == \A r \in Requests : r \notin stored => ttft[r] = NoTtft

TtftInv ==
    /\ TypeOK /\ UnstoredEmpty /\ AnsweredSpanKept /\ NotSentNowhere /\ OnePlace

-----------------------------------------------------------------------------

LEMMA JobForms ==
    ASSUME TypeOK, NEW h \in Handlers, job[h] # Idle
    PROVE  /\ job[h].span \in Spans
           /\ job[h].step = "fill" => job[h].row \in Requests /\ job[h].then \in {"loose", "park"}
BY DEF TypeOK, Job

LEMMA NextType == TypeOK /\ [Next]_vars => TypeOK'
<1> SUFFICES ASSUME TypeOK, [Next]_vars PROVE TypeOK'
  OBVIOUS
<1> USE DEF Goto, Finish, AfterId
<1>1. CASE UNCHANGED vars
  BY <1>1 DEF vars, TypeOK
<1>2. ASSUME NEW h \in Handlers, NEW s \in Spans, Deliver(h, s) PROVE TypeOK'
  <2>1. job' \in [Handlers -> Job \cup {Idle}] /\ sent' \in [Spans -> Nat]
    BY <1>2 DEF Deliver, TypeOK, Job
  <2> QED
    BY <1>2, <2>1 DEF Deliver, TypeOK
<1>3. ASSUME NEW h \in Handlers, FillById(h) PROVE TypeOK'
  <2>1. job[h].span \in Spans /\ Trace[job[h].span].of \in Requests
    BY <1>3, JobForms, RecordAssumption DEF FillById, Idle, SpanRecord
  <2> QED
    BY <1>3, <2>1 DEF FillById, TypeOK, Job, Idle
<1>4. ASSUME NEW h \in Handlers, SelectNearest(h) \/ SelectLoose(h) PROVE TypeOK'
  <2>1. job[h].span \in Spans
    BY <1>4, JobForms DEF SelectNearest, SelectLoose
  <2>2. job' \in [Handlers -> Job \cup {Idle}]
    BY <1>4, <2>1 DEF SelectNearest, SelectLoose, Select, TypeOK, Job, Nearest, SamePrompt,
       SameWindow, Open
  <2> QED
    BY <1>4, <2>2 DEF SelectNearest, SelectLoose, Select, TypeOK
<1>5. ASSUME NEW h \in Handlers, FillSelected(h) PROVE TypeOK'
  <2>1. job[h].span \in Spans /\ job[h].row \in Requests /\ job[h].then \in {"loose", "park"}
    BY <1>5, JobForms DEF FillSelected, Idle
  <2>2. [step |-> job[h].then, span |-> job[h].span] \in Job
    BY <2>1 DEF Job
  <2> QED
    BY <1>5, <2>1, <2>2 DEF FillSelected, TypeOK
<1>6. ASSUME NEW h \in Handlers, Park(h) PROVE TypeOK'
  <2>1. job[h].span \in Spans
    BY <1>6, JobForms DEF Park, Idle
  <2>2. PICK i \in Ids :
            pending' = pending \cup {[id |-> i, span |-> job[h].span, processed |-> FALSE]}
    BY <1>6 DEF Park
  <2>3. [id |-> i, span |-> job[h].span, processed |-> FALSE] \in Parked
    BY <2>1 DEF Parked
  <2> QED
    BY <1>6, <2>1, <2>2, <2>3 DEF Park, TypeOK
<1>7. ASSUME NEW h \in Handlers, Fail(h) PROVE TypeOK'
  BY <1>7 DEF Fail, TypeOK
<1>8. ASSUME NEW r \in Requests, InsertRequest(r) PROVE TypeOK'
  <2>1. ASSUME NEW p \in Candidates(r), Take(r, p)
        PROVE  ttft' \in [Requests -> Spans \cup {NoTtft, Own}] /\ pending' \subseteq Parked
    <3>1. p \in Parked
      BY DEF Candidates, ParkedById, ParkedInWindow, Waiting, TypeOK
    <3> QED
      BY <2>1, <3>1 DEF Take, TypeOK, Parked
  <2>2. ttft' \in [Requests -> Spans \cup {NoTtft, Own}] /\ pending' \subseteq Parked
    BY <1>8, <2>1 DEF InsertRequest, TypeOK
  <2> QED
    BY <1>8, <2>2 DEF InsertRequest, TypeOK
<1>9. CASE CleanupRaw
  <2>1. PICK old \in SUBSET Waiting :
            pending' = Waiting \ old /\ expired' = expired \cup {p.span : p \in old}
    BY <1>9 DEF CleanupRaw
  <2>2. pending' \subseteq Parked /\ expired' \subseteq Spans
    BY <2>1 DEF Waiting, TypeOK, Parked
  <2> QED
    BY <1>9, <2>2 DEF CleanupRaw, TypeOK
<1> QED
  BY <1>1, <1>2, <1>3, <1>4, <1>5, <1>6, <1>7, <1>8, <1>9 DEF Next

-----------------------------------------------------------------------------
(* What a step of a trace handler amounts to.                               *)

Others(h) == \A g \in Handlers : g # h => job'[g] = job[g]

\* The handler goes on with its span.
MoveStep(h) ==
    /\ job[h] # Idle /\ job'[h] # Idle /\ job'[h].span = job[h].span
    /\ Others(h)
    /\ UNCHANGED <<stored, ttft, pending, sent, answered, expired>>

\* The handler fills an open row with its span and is done.
FillStep(h, s, r) ==
    /\ Holds(h, s) /\ job'[h] = Idle /\ Others(h)
    /\ r \in Open /\ ttft' = [ttft EXCEPT ![r] = s]
    /\ answered' = answered \cup {s}
    /\ UNCHANGED <<stored, pending, sent, expired>>

LEMMA HandlerKinds ==
    ASSUME TypeOK, NEW h \in Handlers,
           FillById(h) \/ SelectNearest(h) \/ SelectLoose(h) \/ FillSelected(h)
    PROVE  MoveStep(h) \/ \E s \in Spans, r \in Requests : FillStep(h, s, r)
<1> USE DEF Goto, Finish, Others
<1>1. job[h] # Idle
  BY DEF FillById, SelectNearest, SelectLoose, FillSelected, Idle
<1>2. job[h].span \in Spans /\ (job[h].step = "fill" => job[h].row \in Requests)
  BY <1>1, JobForms
<1>3. CASE FillById(h)
  <2>1. Trace[job[h].span].of \in Requests
    BY <1>2, RecordAssumption DEF SpanRecord
  <2>2. CASE job' = [job EXCEPT ![h] = [step |-> AfterId(job[h].span), span |-> job[h].span]]
             /\ UNCHANGED <<ttft, answered>>
    <3>1. AfterId(job[h].span) # "idle"
      BY DEF AfterId
    <3> QED
      BY <1>1, <1>3, <2>2, <3>1 DEF FillById, MoveStep, TypeOK, Idle
  <2>3. CASE /\ Trace[job[h].span].of \in Open
             /\ ttft' = [ttft EXCEPT ![Trace[job[h].span].of] = job[h].span]
             /\ job' = [job EXCEPT ![h] = Idle] /\ answered' = answered \cup {job[h].span}
    <3>1. FillStep(h, job[h].span, Trace[job[h].span].of)
      BY <1>1, <1>3, <2>3 DEF FillById, FillStep, Holds, TypeOK
    <3> QED
      BY <1>2, <2>1, <3>1
  <2> QED
    BY <1>3, <2>2, <2>3 DEF FillById
<1>4. CASE SelectNearest(h) \/ SelectLoose(h)
  <2>1. \/ \E r, then : job' = [job EXCEPT ![h] = [step |-> "fill", span |-> job[h].span,
                                                    row |-> r, then |-> then]]
        \/ \E step \in {"loose", "park"} :
              job' = [job EXCEPT ![h] = [step |-> step, span |-> job[h].span]]
    BY <1>4 DEF SelectNearest, SelectLoose, Select
  <2>2. UNCHANGED <<stored, ttft, pending, sent, answered, expired>>
    BY <1>4 DEF SelectNearest, SelectLoose, Select
  <2> QED
    BY <1>1, <2>1, <2>2 DEF MoveStep, TypeOK, Idle
<1>5. CASE FillSelected(h)
  <2>1. job[h].row \in Requests /\ job[h].then # "idle"
    BY <1>1, <1>5, JobForms DEF FillSelected
  <2>2. CASE job[h].row \in Open /\ ttft' = [ttft EXCEPT ![job[h].row] = job[h].span]
             /\ job' = [job EXCEPT ![h] = Idle] /\ answered' = answered \cup {job[h].span}
    <3>1. FillStep(h, job[h].span, job[h].row)
      BY <1>1, <1>5, <2>2 DEF FillSelected, FillStep, Holds, TypeOK
    <3> QED
      BY <1>2, <2>1, <3>1
  <2>3. CASE job' = [job EXCEPT ![h] = [step |-> job[h].then, span |-> job[h].span]]
             /\ UNCHANGED <<ttft, answered>>
    BY <1>1, <1>5, <2>1, <2>3 DEF FillSelected, MoveStep, TypeOK, Idle
  <2> QED
    BY <1>5, <2>2, <2>3 DEF FillSelected
<1> QED
  BY <1>3, <1>4, <1>5

-----------------------------------------------------------------------------
(* Each kind of step keeps the invariant.                                   *)

LEMMA MoveKeeps ==
    ASSUME TtftInv, TypeOK', NEW h \in Handlers, MoveStep(h)
    PROVE  TtftInv'
<1>1. \A g \in Handlers, s \in Spans : Holds(g, s)' <=> Holds(g, s)
  BY DEF MoveStep, Others, Holds
<1>2. /\ stored' = stored /\ ttft' = ttft /\ pending' = pending /\ sent' = sent
      /\ answered' = answered /\ expired' = expired
  BY DEF MoveStep
<1>3. Waiting' = Waiting
  BY <1>2 DEF Waiting
<1> QED
  BY <1>1, <1>2, <1>3 DEF TtftInv, UnstoredEmpty, AnsweredSpanKept, NotSentNowhere, OnePlace

LEMMA FillKeeps ==
    ASSUME TtftInv, TypeOK', NEW h \in Handlers, NEW s \in Spans, NEW r \in Requests,
           FillStep(h, s, r)
    PROVE  TtftInv'
<1> USE DEF TtftInv, FillStep
<1>1. \A g \in Handlers, t \in Spans : Holds(g, t)' => Holds(g, t) /\ g # h
  BY DEF Others, Holds
<1>2. /\ stored' = stored /\ pending' = pending /\ sent' = sent /\ expired' = expired
      /\ r \in stored /\ ttft[r] = NoTtft
  BY DEF Open
<1>3. \A q \in Requests : ttft'[q] = IF q = r THEN s ELSE ttft[q]
  BY DEF TypeOK
<1>4. Waiting' = Waiting
  BY <1>2 DEF Waiting
<1>5. NoTtft # s /\ sent[s] # 0
  BY ValueAssumption DEF NotSentNowhere
<1>6. UnstoredEmpty'
  BY <1>2, <1>3 DEF UnstoredEmpty
<1>7. AnsweredSpanKept'
  <2> SUFFICES ASSUME NEW t \in answered'
               PROVE  \/ \E q \in stored : ttft'[q] = t
                      \/ \E p \in Waiting : p.span = t
                      \/ t \in expired
    BY <1>2, <1>4 DEF AnsweredSpanKept
  <2>1. CASE t = s
    BY <2>1, <1>2, <1>3
  <2>2. CASE t \in answered
    <3>1. CASE \E q \in stored : ttft[q] = t
      <4>1. PICK q \in stored : ttft[q] = t
        BY <3>1
      <4>2. t \in Spans /\ q \in Requests
        BY <2>2 DEF TypeOK
      <4> QED
        BY <4>1, <4>2, <1>2, <1>3, ValueAssumption
    <3> QED
      BY <2>2, <3>1 DEF AnsweredSpanKept
  <2> QED
    BY <2>1, <2>2
<1>8. NotSentNowhere'
  BY <1>1, <1>2, <1>3, <1>4, <1>5 DEF NotSentNowhere
<1>9. OnePlace'
  <2> SUFFICES ASSUME NEW t \in Spans, sent[t] <= 1
               PROVE  /\ \A g, k \in Handlers : Holds(g, t)' /\ Holds(k, t)' => g = k
                      /\ \A p, q \in Waiting : p.span = t /\ q.span = t => p = q
                      /\ \A x, q \in Requests : ttft'[x] = t /\ ttft'[q] = t => x = q
                      /\ \A g \in Handlers, p \in Waiting : ~(Holds(g, t)' /\ p.span = t)
                      /\ \A g \in Handlers, x \in Requests : ~(Holds(g, t)' /\ ttft'[x] = t)
                      /\ \A p \in Waiting, x \in Requests : ~(p.span = t /\ ttft'[x] = t)
    BY <1>2, <1>4 DEF OnePlace
  <2>1. CASE t # s
    BY <2>1, <1>1, <1>3 DEF OnePlace
  <2>2. CASE t = s
    <3>1. /\ \A x \in Requests : ttft[x] # s
          /\ \A p \in Waiting : p.span # s
          /\ \A g \in Handlers : Holds(g, s) => g = h
      BY <2>2 DEF OnePlace
    <3> QED
      BY <2>2, <3>1, <1>1, <1>3
  <2> QED
    BY <2>1, <2>2
<1> QED
  BY <1>6, <1>7, <1>8, <1>9

LEMMA DeliverKeeps ==
    ASSUME TtftInv, TypeOK', NEW h \in Handlers, NEW s \in Spans, Deliver(h, s)
    PROVE  TtftInv'
<1> USE DEF TtftInv
<1>1. /\ stored' = stored /\ ttft' = ttft /\ pending' = pending /\ answered' = answered
      /\ expired' = expired /\ job[h] = Idle
  BY DEF Deliver
<1>2. \A g \in Handlers, t \in Spans : Holds(g, t)' => Holds(g, t) \/ (g = h /\ t = s)
  BY DEF Deliver, Goto, Holds, TypeOK
<1>3. Waiting' = Waiting
  BY <1>1 DEF Waiting
<1>4. /\ sent'[s] = sent[s] + 1 /\ sent[s] \in Nat
      /\ \A t \in Spans : t # s => sent'[t] = sent[t]
  BY DEF Deliver, TypeOK
<1>5. UnstoredEmpty' /\ AnsweredSpanKept'
  BY <1>1, <1>3 DEF UnstoredEmpty, AnsweredSpanKept
<1>6. NotSentNowhere'
  BY <1>1, <1>2, <1>3, <1>4 DEF NotSentNowhere
<1>7. OnePlace'
  <2> SUFFICES ASSUME NEW t \in Spans, sent'[t] <= 1
               PROVE  /\ \A g, k \in Handlers : Holds(g, t)' /\ Holds(k, t)' => g = k
                      /\ \A p, q \in Waiting : p.span = t /\ q.span = t => p = q
                      /\ \A x, q \in Requests : ttft[x] = t /\ ttft[q] = t => x = q
                      /\ \A g \in Handlers, p \in Waiting : ~(Holds(g, t)' /\ p.span = t)
                      /\ \A g \in Handlers, x \in Requests : ~(Holds(g, t)' /\ ttft[x] = t)
                      /\ \A p \in Waiting, x \in Requests : ~(p.span = t /\ ttft[x] = t)
    BY <1>1, <1>3 DEF OnePlace
  <2>1. CASE t # s
    BY <2>1, <1>2, <1>4 DEF OnePlace
  <2>2. CASE t = s
    <3>1. sent[s] = 0
      BY <2>2, <1>4
    <3> QED
      BY <2>2, <3>1, <1>2 DEF NotSentNowhere
  <2> QED
    BY <2>1, <2>2
<1> QED
  BY <1>5, <1>6, <1>7

LEMMA ParkKeeps ==
    ASSUME TtftInv, TypeOK', NEW h \in Handlers, Park(h)
    PROVE  TtftInv'
<1> USE DEF TtftInv
<1>1. job[h] # Idle /\ job[h].span \in Spans
  BY JobForms DEF Park, Idle
<1>2. PICK s \in Spans : Holds(h, s) /\ s = job[h].span
  BY <1>1 DEF Holds
<1>3. PICK i \in Ids \ {p.id : p \in pending} :
          pending' = pending \cup {[id |-> i, span |-> s, processed |-> FALSE]}
  BY <1>2 DEF Park
<1> DEFINE new == [id |-> i, span |-> s, processed |-> FALSE]
<1>4. Waiting' = Waiting \cup {new} /\ new.span = s
  BY <1>3 DEF Waiting
<1>5. /\ stored' = stored /\ ttft' = ttft /\ sent' = sent /\ expired' = expired
      /\ answered' = answered \cup {s}
  BY <1>2 DEF Park, Finish
<1>6. \A g \in Handlers, t \in Spans : Holds(g, t)' => Holds(g, t) /\ g # h
  BY DEF Park, Finish, Holds, TypeOK
<1>7. sent[s] # 0
  BY <1>2 DEF NotSentNowhere
<1> HIDE DEF new
<1>8. UnstoredEmpty' /\ AnsweredSpanKept'
  BY <1>4, <1>5 DEF UnstoredEmpty, AnsweredSpanKept
<1>9. NotSentNowhere'
  BY <1>4, <1>5, <1>6, <1>7 DEF NotSentNowhere
<1>10. OnePlace'
  <2> SUFFICES ASSUME NEW t \in Spans, sent[t] <= 1
               PROVE  /\ \A g, k \in Handlers : Holds(g, t)' /\ Holds(k, t)' => g = k
                      /\ \A p, q \in Waiting' : p.span = t /\ q.span = t => p = q
                      /\ \A x, q \in Requests : ttft[x] = t /\ ttft[q] = t => x = q
                      /\ \A g \in Handlers, p \in Waiting' : ~(Holds(g, t)' /\ p.span = t)
                      /\ \A g \in Handlers, x \in Requests : ~(Holds(g, t)' /\ ttft[x] = t)
                      /\ \A p \in Waiting', x \in Requests : ~(p.span = t /\ ttft[x] = t)
    BY <1>5 DEF OnePlace
  <2>1. CASE t # s
    BY <2>1, <1>4, <1>6 DEF OnePlace
  <2>2. CASE t = s
    <3>1. /\ \A x \in Requests : ttft[x] # s
          /\ \A p \in Waiting : p.span # s
          /\ \A g \in Handlers : Holds(g, s) => g = h
      BY <1>2, <2>2 DEF OnePlace
    <3> QED
      BY <2>2, <3>1, <1>4, <1>6
  <2> QED
    BY <2>1, <2>2
<1> QED
  BY <1>8, <1>9, <1>10

LEMMA FailKeeps ==
    ASSUME TtftInv, TypeOK', NEW h \in Handlers, Fail(h)
    PROVE  TtftInv'
<1>1. \A g \in Handlers, t \in Spans : Holds(g, t)' => Holds(g, t)
  BY DEF Fail, Holds, TtftInv, TypeOK
<1>2. /\ stored' = stored /\ ttft' = ttft /\ pending' = pending /\ sent' = sent
      /\ answered' = answered /\ expired' = expired
  BY DEF Fail
<1>3. Waiting' = Waiting
  BY <1>2 DEF Waiting
<1> QED
  BY <1>1, <1>2, <1>3 DEF TtftInv, UnstoredEmpty, AnsweredSpanKept, NotSentNowhere, OnePlace

LEMMA SweepKeeps == TtftInv /\ TypeOK' /\ CleanupRaw => TtftInv'
<1> SUFFICES ASSUME TtftInv, TypeOK', CleanupRaw PROVE TtftInv'
  OBVIOUS
<1>1. PICK old \in SUBSET Waiting :
          pending' = Waiting \ old /\ expired' = expired \cup {p.span : p \in old}
  BY DEF CleanupRaw
<1>2. stored' = stored /\ ttft' = ttft /\ job' = job /\ sent' = sent /\ answered' = answered
  BY DEF CleanupRaw
<1>3. Waiting' = Waiting \ old
  BY <1>1 DEF Waiting
<1>4. \A h \in Handlers, t \in Spans : Holds(h, t)' <=> Holds(h, t)
  BY <1>2 DEF Holds
<1>5. AnsweredSpanKept'
  BY <1>1, <1>2, <1>3 DEF TtftInv, AnsweredSpanKept
<1> QED
  BY <1>2, <1>3, <1>4, <1>5 DEF TtftInv, UnstoredEmpty, NotSentNowhere, OnePlace

LEMMA InsertKeeps ==
    ASSUME TtftInv, TypeOK', NEW r \in Requests, InsertRequest(r)
    PROVE  TtftInv'
<1> USE DEF TtftInv
<1>1. /\ job' = job /\ sent' = sent /\ answered' = answered /\ expired' = expired
      /\ stored' = stored \cup {r} /\ r \notin stored /\ ttft[r] = NoTtft
  BY DEF InsertRequest, UnstoredEmpty
<1>2. \A h \in Handlers, t \in Spans : Holds(h, t)' <=> Holds(h, t)
  BY <1>1 DEF Holds
<1>3. \A q \in Requests : q # r => ttft'[q] = ttft[q]
  BY DEF InsertRequest, Take, TypeOK
<1>4. UnstoredEmpty'
  BY <1>1, <1>3 DEF UnstoredEmpty
<1>5. CASE UNCHANGED pending /\ ttft'[r] \in {NoTtft, Own}
  <2>1. Waiting' = Waiting
    BY <1>5 DEF Waiting
  <2>2. \A q \in Requests, t \in Spans : ttft'[q] = t => ttft[q] = t
    BY <1>3, <1>5, ValueAssumption
  <2>3. AnsweredSpanKept'
    <3> SUFFICES ASSUME NEW t \in answered, NEW q \in stored, ttft[q] = t
                 PROVE  ttft'[q] = t /\ q \in stored'
      BY <1>1, <2>1 DEF AnsweredSpanKept
    <3> QED
      BY <1>1, <1>3 DEF TypeOK
  <2>4. NotSentNowhere' /\ OnePlace'
    BY <1>1, <1>2, <2>1, <2>2 DEF NotSentNowhere, OnePlace
  <2> QED
    BY <1>4, <2>3, <2>4
<1>6. ASSUME NEW p \in Candidates(r), Take(r, p) PROVE TtftInv'
  <2>1. p \in Waiting /\ p \in Parked
    BY DEF Candidates, ParkedById, ParkedInWindow, Waiting, TypeOK
  <2>2. [p EXCEPT !.processed = TRUE].processed
    BY <2>1 DEF Parked
  <2>3. Waiting' = Waiting \ {p}
    BY <1>6, <2>2 DEF Take, Waiting
  <2>4. p.span \in Spans /\ ttft'[r] = p.span
    BY <1>6, <2>1 DEF Take, Parked, TypeOK
  <2>5. sent[p.span] # 0
    BY <2>1, <2>4 DEF NotSentNowhere
  <2>6. AnsweredSpanKept'
    <3> SUFFICES ASSUME NEW t \in answered
                 PROVE  \/ \E q \in stored' : ttft'[q] = t
                        \/ \E w \in Waiting' : w.span = t
                        \/ t \in expired
      BY <1>1 DEF AnsweredSpanKept
    <3>1. CASE \E q \in stored : ttft[q] = t
      BY <3>1, <1>1, <1>3 DEF TypeOK
    <3>2. CASE \E w \in Waiting : w.span = t
      BY <3>2, <1>1, <2>3, <2>4
    <3> QED
      BY <3>1, <3>2 DEF AnsweredSpanKept
  <2>7. NotSentNowhere'
    BY <1>1, <1>2, <1>3, <2>3, <2>4, <2>5 DEF NotSentNowhere
  <2>8. OnePlace'
    <3> SUFFICES ASSUME NEW t \in Spans, sent[t] <= 1
                 PROVE  /\ \A g, k \in Handlers : Holds(g, t) /\ Holds(k, t) => g = k
                        /\ \A w, q \in Waiting' : w.span = t /\ q.span = t => w = q
                        /\ \A x, q \in Requests : ttft'[x] = t /\ ttft'[q] = t => x = q
                        /\ \A g \in Handlers, w \in Waiting' : ~(Holds(g, t) /\ w.span = t)
                        /\ \A g \in Handlers, x \in Requests : ~(Holds(g, t) /\ ttft'[x] = t)
                        /\ \A w \in Waiting', x \in Requests : ~(w.span = t /\ ttft'[x] = t)
      BY <1>1, <1>2 DEF OnePlace
    <3>1. CASE t # p.span
      BY <3>1, <1>3, <2>3, <2>4 DEF OnePlace
    <3>2. CASE t = p.span
      <4>1. /\ \A x \in Requests : ttft[x] # t
            /\ \A w \in Waiting : w.span = t => w = p
            /\ \A g \in Handlers : ~Holds(g, t)
        BY <3>2, <2>1 DEF OnePlace
      <4> QED
        BY <3>2, <4>1, <1>3, <2>3, <2>4
    <3> QED
      BY <3>1, <3>2
  <2> QED
    BY <1>4, <2>6, <2>7, <2>8
<1> QED
  BY <1>1, <1>5, <1>6 DEF InsertRequest, TypeOK

LEMMA TtftInit == Init => TtftInv
<1> SUFFICES ASSUME Init PROVE TtftInv
  OBVIOUS
<1>1. TypeOK
  BY DEF Init, TypeOK
<1>2. Waiting = {} /\ \A h \in Handlers, s \in Spans : ~Holds(h, s)
  BY DEF Init, Waiting, Holds
<1> QED
  BY <1>1, <1>2, ValueAssumption DEF Init, TtftInv, UnstoredEmpty, AnsweredSpanKept,
     NotSentNowhere, OnePlace

LEMMA TtftStep == TtftInv /\ [Next]_vars => TtftInv'
<1> SUFFICES ASSUME TtftInv, [Next]_vars PROVE TtftInv'
  OBVIOUS
<1>1. TypeOK'
  BY NextType DEF TtftInv
<1>2. CASE UNCHANGED vars
  BY <1>1, <1>2 DEF vars, TtftInv, UnstoredEmpty, AnsweredSpanKept, NotSentNowhere, OnePlace,
     Waiting, Holds
<1>3. ASSUME NEW h \in Handlers,
             FillById(h) \/ SelectNearest(h) \/ SelectLoose(h) \/ FillSelected(h)
      PROVE  TtftInv'
  BY <1>1, <1>3, HandlerKinds, MoveKeeps, FillKeeps DEF TtftInv
<1> QED
  BY <1>1, <1>2, <1>3, DeliverKeeps, ParkKeeps, FailKeeps, InsertKeeps, SweepKeeps DEF Next

LEMMA TtftInvariance == Spec => []TtftInv
BY TtftInit, TtftStep, PTL DEF Spec

-----------------------------------------------------------------------------

\* Every variable of the join stays within its type.
THEOREM TtftTypeCorrect == Spec => []TypeOK
BY TtftInvariance, PTL DEF TtftInv

\* An answered export never loses its span, in any interleaving of any number
\* of handlers, inserts, failures and sweeps.
THEOREM TtftSpanKept == Spec => []AnsweredSpanKept
BY TtftInvariance, PTL DEF TtftInv

\* A span delivered once fills at most one row.
THEOREM TtftOneRow == Spec => []SpanFillsOneRow
<1>1. TtftInv => SpanFillsOneRow
  <2> SUFFICES ASSUME TtftInv, NEW s \in Spans, sent[s] <= 1
               PROVE  Cardinality({r \in Requests : ttft[r] = s}) <= 1
    BY DEF SpanFillsOneRow
  <2>1. CASE {r \in Requests : ttft[r] = s} = {}
    BY <2>1, FS_EmptySet
  <2>2. CASE \E r \in Requests : ttft[r] = s
    <3>1. PICK r \in Requests : ttft[r] = s
      BY <2>2
    <3>2. {q \in Requests : ttft[q] = s} = {r}
      BY <3>1 DEF TtftInv, OnePlace
    <3> QED
      BY <3>2, FS_Singleton
  <2> QED
    BY <2>1, <2>2
<1> QED
  BY TtftInvariance, <1>1, PTL

\* A filled time to first token is final.
THEOREM TtftFilledStays == Spec => FilledStays
<1>1. TtftInv /\ [Next]_vars => [\A r \in stored : ttft[r] # NoTtft => ttft'[r] = ttft[r]]_vars
  <2> SUFFICES ASSUME TtftInv, Next, NEW r \in stored, ttft[r] # NoTtft
               PROVE  ttft'[r] = ttft[r]
    BY DEF vars
  <2>1. ASSUME NEW h \in Handlers,
               FillById(h) \/ SelectNearest(h) \/ SelectLoose(h) \/ FillSelected(h)
        PROVE  ttft'[r] = ttft[r]
    BY <2>1, HandlerKinds DEF TtftInv, TypeOK, MoveStep, FillStep, Open
  <2>2. ASSUME NEW q \in Requests, InsertRequest(q) PROVE ttft'[r] = ttft[r]
    BY <2>2 DEF InsertRequest, Take, TtftInv, TypeOK
  <2>3. CASE ttft' = ttft
    BY <2>3
  <2> QED
    BY <2>1, <2>2, <2>3 DEF Next, Deliver, Park, Fail, CleanupRaw
<1> QED
  BY TtftInvariance, <1>1, PTL DEF Spec, FilledStays
=============================================================================
