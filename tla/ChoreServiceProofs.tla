------------------------- MODULE ChoreServiceProofs -------------------------
(***************************************************************************)
(* Proofs that the invariants of ChoreService hold for any number of       *)
(* chores, users, lists, requests in flight and days.                      *)
(*                                                                         *)
(* The tables change one chore at a time, so what the invariants say of    *)
(* the tables is gathered in ChoreOK(c): a step has to restore it for the  *)
(* chore it writes and leaves the others alone.  What they say of the      *)
(* requests in flight is stable: no step of another request can spoil it.  *)
(***************************************************************************)
EXTENDS ChoreService, ChoreProofs

ChoreOK(c) ==
  /\ Stored(c) =>
       /\ c \in issued
       /\ WellFormed(chore[c])
       /\ chore[c].choreType # "date" =>
            \/ chore[c].lastCompletion = ZeroDate
            \/ event[c][chore[c].lastCompletion] > 0
       /\ chore[c].snoozedFor # NotSnoozed => NextCompletion(chore[c]) <= day + 1
       /\ RepeatsOnRecord(c)
  /\ ~Stored(c) => event[c] = NoEvents

RequestOK(w) ==
  /\ ~Idle(w) => reply[w] = "none"
  /\ Serving(w, "add") => AddOK(request[w])
  /\ Serving(w, "snooze") \/ Serving(w, "expedite") => PostponeOK(request[w])
  /\ Serving(w, "update") => EditOK(request[w])

LEMMA ByChoreAndRequest ==
  IInv <=> /\ TypeOK
           /\ \A c \in ChoreIDs : ChoreOK(c)
           /\ \A w \in Workers : RequestOK(w)
BY DEF IInv, ChoreOK, RequestOK, IssuedOK, RequestsOK, ShapeOK, NoOrphanEvents,
       LastCompletionRecorded, SnoozedIsSoon, RepeatsAccountedFor

LEMMA ByChoreAndRequestNext ==
  IInv' <=> /\ TypeOK'
            /\ \A c \in ChoreIDs : ChoreOK(c)'
            /\ \A w \in Workers : RequestOK(w)'
BY DEF IInv, ChoreOK, RequestOK, IssuedOK, RequestsOK, ShapeOK, NoOrphanEvents,
       LastCompletionRecorded, SnoozedIsSoon, RepeatsAccountedFor

-----------------------------------------------------------------------------
(* What the steps that write nothing of it do to a chore or a request *)

LEMMA RowType ==
  ASSUME TypeOK, NEW c \in ChoreIDs, Stored(c)
  PROVE  chore[c] \in Row
BY DEF TypeOK, Stored

LEMMA NextCompletionIsNumber ==
  ASSUME NEW row \in Row
  PROVE  NextCompletion(row) \in Int
BY RowNumbers DEF NextCompletion

\* The count stays on record when neither it nor the events change.
LEMMA CountKept ==
  ASSUME NEW c, RepeatsOnRecord(c), event'[c] = event[c],
         chore'[c].choreType = chore[c].choreType,
         chore'[c].repeatsLeft = chore[c].repeatsLeft
  PROVE  RepeatsOnRecord(c)'
BY DEF RepeatsOnRecord, CompletedTwice

\* A chore that is not written stays as it should be, also when time passes.
LEMMA OtherChore ==
  ASSUME TypeOK, NEW c \in ChoreIDs, ChoreOK(c),
         chore'[c] = chore[c], event'[c] = event[c], issued \subseteq issued',
         day' \in Int, day <= day'
  PROVE  ChoreOK(c)'
<1>1. CASE Stored(c)
  <2>1. NextCompletion(chore[c]) \in Int /\ day \in Int
    BY <1>1, RowType, NextCompletionIsNumber, DatesAreNumbers DEF TypeOK
  <2>2. NextCompletion(chore[c]) <= day + 1 => NextCompletion(chore[c]) <= day' + 1
    BY <2>1
  <2>3. RepeatsOnRecord(c)'
    BY <1>1, CountKept DEF ChoreOK
  <2> QED BY <1>1, <2>2, <2>3 DEF ChoreOK, Stored
<1>2. CASE ~Stored(c)
  BY <1>2 DEF ChoreOK, Stored
<1> QED BY <1>1, <1>2

\* What an edit in flight carries stays good as long as its row, if it is still
\* there, keeps its type and its events.
LEMMA EditStable ==
  ASSUME NEW r, EditOK(r), issued \subseteq issued',
         Stored(r.id)' =>
           /\ Stored(r.id)
           /\ chore'[r.id].choreType = chore[r.id].choreType
           /\ event[r.id][r.input.date] > 0 => event'[r.id][r.input.date] > 0
  PROVE  EditOK(r)'
BY DEF EditOK

\* A request that is not served in this step stays as it should be.
LEMMA OtherRequest ==
  ASSUME TypeOK, NEW w \in Workers, RequestOK(w),
         request'[w] = request[w], reply'[w] = reply[w],
         day' \in Int, day <= day',
         Serving(w, "update") => EditOK(request[w])'
  PROVE  RequestOK(w)'
<1>1. day \in Int
  BY DatesAreNumbers DEF TypeOK
<1>2. ASSUME PostponeOK(request[w])
      PROVE  PostponeOK(request[w])'
  <2>1. request[w].date \in RealDate /\ request[w].date <= day
    BY <1>2 DEF PostponeOK
  <2>2. request[w].date \in Int
    BY <2>1, DatesAreNumbers
  <2>3. request[w].date <= day'
    BY <1>1, <2>1, <2>2
  <2> QED BY <2>1, <2>3 DEF PostponeOK
<1> QED BY <1>2 DEF RequestOK, Idle, Serving, AddOK

\* A worker that has answered carries nothing.
LEMMA IdleRequest ==
  ASSUME NEW w, request'[w] = NoRequest
  PROVE  RequestOK(w)'
BY DEF RequestOK, Idle, Serving

\* What Answer does to the workers.
LEMMA AnswerFacts ==
  ASSUME TypeOK, NEW w \in Workers, NEW a \in {"ok", "error"}, Answer(w, a)
  PROVE  /\ request' \in [Workers -> Request \cup {NoRequest}]
         /\ reply' \in [Workers -> {"none", "ok", "error"}]
         /\ request'[w] = NoRequest
         /\ reply'[w] = a
         /\ \A v \in Workers \ {w} : request'[v] = request[v] /\ reply'[v] = reply[v]
BY DEF TypeOK, Answer

\* What Begin does to them.
LEMMA BeginFacts ==
  ASSUME TypeOK, NEW w \in Workers, NEW op \in Ops, NEW u \in Users, NEW c \in ChoreIDs,
         NEW d \in Date, NEW inp \in Input, Begin(w, op, u, c, d, inp)
  PROVE  /\ TypeOK'
         /\ request'[w] = [op |-> op, user |-> u, id |-> c, date |-> d, input |-> inp]
         /\ request'[w] # NoRequest
         /\ reply'[w] = "none"
         /\ \A v \in Workers \ {w} : request'[v] = request[v] /\ reply'[v] = reply[v]
<1> DEFINE r == [op |-> op, user |-> u, id |-> c, date |-> d, input |-> inp]
<1>1. r \in Request
  BY DEF Request
<1>2. request' = [request EXCEPT ![w] = r] /\ reply' = [reply EXCEPT ![w] = "none"]
  BY DEF Begin
<1>3. request' \in [Workers -> Request \cup {NoRequest}]
  BY <1>1, <1>2 DEF TypeOK
<1>4. reply' \in [Workers -> {"none", "ok", "error"}]
  BY <1>2 DEF TypeOK
<1>5. TypeOK'
  BY <1>3, <1>4 DEF TypeOK, Begin, database
<1>6. request'[w] = r /\ r # NoRequest
  BY <1>1, <1>2, RequestAssumption DEF TypeOK
<1> QED BY <1>2, <1>5, <1>6 DEF TypeOK

\* A step of one worker that writes no table, and leaves its own request in order.
LEMMA TablesKept ==
  ASSUME IInv, TypeOK', UNCHANGED <<day, database>>, NEW w \in Workers, RequestOK(w)',
         \A v \in Workers \ {w} : request'[v] = request[v] /\ reply'[v] = reply[v]
  PROVE  IInv'
<1>1. /\ TypeOK
      /\ \A c \in ChoreIDs : ChoreOK(c)
      /\ \A v \in Workers : RequestOK(v)
  BY ByChoreAndRequest
<1>2. day' = day /\ day \in Int
  BY <1>1, DatesAreNumbers DEF TypeOK
<1>3. chore' = chore /\ event' = event /\ issued' = issued
  BY DEF database
<1>4. ASSUME NEW c \in ChoreIDs
      PROVE  ChoreOK(c)'
  BY <1>1, <1>2, <1>3, OtherChore
<1>5. ASSUME NEW v \in Workers, v # w
      PROVE  RequestOK(v)'
  <2>1. EditOK(request[v]) => EditOK(request[v])'
    BY <1>3, <1>5 DEF EditOK, Stored
  <2> QED BY <1>1, <1>2, <1>5, <2>1, OtherRequest DEF RequestOK
<1> QED BY <1>4, <1>5, ByChoreAndRequestNext

\* A step of one worker that writes the tables of one chore c and answers.  It has
\* to leave c as it should be, and must not spoil an edit of c in flight.
LEMMA OneChoreWritten ==
  ASSUME IInv, NEW w \in Workers, NEW c \in ChoreIDs, Answer(w, "ok"),
         UNCHANGED <<day, choreList, member>>, issued \subseteq issued',
         issued' \subseteq ChoreIDs,
         chore' \in [ChoreIDs -> Row \cup {NoChore}],
         event' \in [ChoreIDs -> [Date -> Nat]],
         \A x \in ChoreIDs \ {c} : chore'[x] = chore[x] /\ event'[x] = event[x],
         ChoreOK(c)',
         c \in issued /\ Stored(c)' =>
           /\ Stored(c)
           /\ chore'[c].choreType = chore[c].choreType
           /\ \A d \in Date : event[c][d] > 0 => event'[c][d] > 0
  PROVE  IInv'
<1>1. /\ TypeOK
      /\ \A x \in ChoreIDs : ChoreOK(x)
      /\ \A v \in Workers : RequestOK(v)
  BY ByChoreAndRequest
<1>2. day' = day /\ day \in Int
  BY <1>1, DatesAreNumbers DEF TypeOK
<1>3. /\ request' \in [Workers -> Request \cup {NoRequest}]
      /\ reply' \in [Workers -> {"none", "ok", "error"}]
      /\ request'[w] = NoRequest
      /\ \A v \in Workers \ {w} : request'[v] = request[v] /\ reply'[v] = reply[v]
  BY <1>1, AnswerFacts
<1>4. TypeOK'
  BY <1>1, <1>3 DEF TypeOK
<1>5. ASSUME NEW x \in ChoreIDs, x # c
      PROVE  ChoreOK(x)'
  BY <1>1, <1>2, <1>5, OtherChore
<1>6. ASSUME NEW v \in Workers, v # w
      PROVE  RequestOK(v)'
  <2>1. ASSUME Serving(v, "update")
        PROVE  EditOK(request[v])'
    <3>1. PICK r : r = request[v]
      OBVIOUS
    <3>2. r \in Request /\ r = request'[v]
      BY <1>1, <1>3, <1>6, <2>1, <3>1 DEF TypeOK, Serving, Idle
    <3>3. r.id \in ChoreIDs /\ r.input.date \in Date
      BY <3>2 DEF Request, Input
    <3>4. EditOK(r)
      BY <1>1, <2>1, <3>1 DEF RequestOK
    <3>5. r.id \in issued
      BY <3>4 DEF EditOK
    <3>6. Stored(r.id)' =>
            /\ Stored(r.id)
            /\ chore'[r.id].choreType = chore[r.id].choreType
            /\ event[r.id][r.input.date] > 0 => event'[r.id][r.input.date] > 0
      BY <3>3, <3>5 DEF Stored
    <3>7. EditOK(r)'
      BY <3>4, <3>6, EditStable
    <3> QED BY <3>2, <3>7
  <2> QED BY <1>1, <1>2, <1>3, <1>6, <2>1, OtherRequest
<1>7. RequestOK(w)'
  BY <1>3, IdleRequest
<1> QED BY <1>4, <1>5, <1>6, <1>7, ByChoreAndRequestNext

-----------------------------------------------------------------------------
(* The invariant holds initially and every step preserves it *)

LEMMA InitInvariant == Init => IInv
<1> SUFFICES ASSUME Init PROVE IInv
  OBVIOUS
<1>1. NoEvents \in [Date -> Nat] /\ 1 \in RealDate
  BY ChoreAssumption DEF NoEvents, RealDate, Date, ZeroDate
<1>2. TypeOK
  BY <1>1 DEF Init, TypeOK
<1>3. \A c \in ChoreIDs : ~Stored(c) /\ event[c] = NoEvents
  BY DEF Init, Stored
<1>4. \A w \in Workers : Idle(w)
  BY DEF Init, Idle
<1> QED BY <1>2, <1>3, <1>4, ByChoreAndRequest DEF ChoreOK, RequestOK, Serving

\* A request that begins leaves the tables alone, so all there is to show is that
\* it carries what RequestOK asks for.
LEMMA BeginInvariant ==
  ASSUME IInv, NEW w \in Workers, NEW op \in Ops, NEW u \in Users, NEW c \in ChoreIDs,
         NEW d \in Date, NEW inp \in Input, Begin(w, op, u, c, d, inp),
         RequestOK(w)'
  PROVE  IInv'
<1>1. TypeOK
  BY DEF IInv
<1>2. UNCHANGED <<day, database>>
  BY DEF Begin
<1> QED BY <1>1, <1>2, BeginFacts, TablesKept

LEMMA NoInputType == NoInput \in Input /\ ZeroDate \in Date
BY ChoreAssumption DEF NoInput, Input, Date, ZeroDate, FormTypes, Durations, Repeats, Forever

LEMMA AddBegins ==
  ASSUME IInv, NEW w \in Workers, NEW u \in Users, NEW c \in ChoreIDs, NEW inp \in Inputs,
         BeginAdd(w, u, c, inp)
  PROVE  IInv'
<1>1. inp \in Input /\ day \in RealDate /\ day \in Date /\ TypeOK
  BY ServiceAssumption, DatesAreNumbers DEF IInv, TypeOK
<1>2. ValidNew(inp) /\ Begin(w, "add", u, c, day, inp) /\ "add" \in Ops
  BY DEF BeginAdd, Ops
<1>3. /\ request'[w] = [op |-> "add", user |-> u, id |-> c, date |-> day, input |-> inp]
      /\ reply'[w] = "none"
  BY <1>1, <1>2, BeginFacts
<1>4. RequestOK(w)'
  BY <1>1, <1>2, <1>3 DEF RequestOK, Serving, Idle, AddOK
<1> QED BY <1>1, <1>2, <1>4, BeginInvariant

\* Complete and delete carry nothing the tables have to agree with.
LEMMA CompleteBegins ==
  ASSUME IInv, NEW w \in Workers, NEW u \in Users, NEW c \in ChoreIDs, NEW d \in Date,
         BeginComplete(w, u, c, d)
  PROVE  IInv'
<1>1. Begin(w, "complete", u, c, d, NoInput) /\ "complete" \in Ops /\ TypeOK
  BY DEF BeginComplete, Ops, IInv
<1>2. /\ request'[w] = [op |-> "complete", user |-> u, id |-> c, date |-> d, input |-> NoInput]
      /\ reply'[w] = "none"
  BY <1>1, NoInputType, BeginFacts
<1>3. RequestOK(w)'
  BY <1>2 DEF RequestOK, Serving, Idle
<1> QED BY <1>1, <1>3, NoInputType, BeginInvariant

LEMMA DeleteBegins ==
  ASSUME IInv, NEW w \in Workers, NEW u \in Users, NEW c \in ChoreIDs, BeginDelete(w, u, c)
  PROVE  IInv'
<1>1. Begin(w, "delete", u, c, ZeroDate, NoInput) /\ "delete" \in Ops /\ TypeOK
  BY DEF BeginDelete, Ops, IInv
<1>2. /\ request'[w]
           = [op |-> "delete", user |-> u, id |-> c, date |-> ZeroDate, input |-> NoInput]
      /\ reply'[w] = "none"
  BY <1>1, NoInputType, BeginFacts
<1>3. RequestOK(w)'
  BY <1>2 DEF RequestOK, Serving, Idle
<1> QED BY <1>1, <1>3, NoInputType, BeginInvariant

\* The day a postponement carries is the day it began on.
LEMMA PostponementBegins ==
  ASSUME IInv, NEW w \in Workers, NEW u \in Users, NEW c \in ChoreIDs,
         BeginSnooze(w, u, c) \/ BeginExpedite(w, u, c)
  PROVE  IInv'
<1>1. day \in RealDate /\ day \in Date /\ day \in Int /\ TypeOK
  BY DatesAreNumbers DEF IInv, TypeOK
<1>2. PICK op \in {"snooze", "expedite"} : Begin(w, op, u, c, day, NoInput)
  BY DEF BeginSnooze, BeginExpedite
<1>3. op \in Ops
  BY DEF Ops
<1>4. /\ request'[w] = [op |-> op, user |-> u, id |-> c, date |-> day, input |-> NoInput]
      /\ reply'[w] = "none"
  BY <1>1, <1>2, <1>3, NoInputType, BeginFacts
<1>5. day' = day
  BY <1>2 DEF Begin
<1>6. RequestOK(w)'
  BY <1>1, <1>4, <1>5 DEF RequestOK, Serving, Idle, PostponeOK
<1> QED BY <1>1, <1>2, <1>3, <1>6, NoInputType, BeginInvariant

\* An edit carries what Validate resolved against the row as it is now.
LEMMA UpdateBegins ==
  ASSUME IInv, NEW w \in Workers, NEW u \in Users, NEW c \in ChoreIDs, NEW inp \in Inputs,
         BeginUpdate(w, u, c, inp)
  PROVE  IInv'
<1> DEFINE res == Resolve(inp, chore[c])
<1>1. inp \in Input /\ TypeOK /\ ChoreOK(c) /\ Stored(c)
  BY ServiceAssumption, ByChoreAndRequest DEF IInv, BeginUpdate, Visible
<1>2. chore[c] \in Row
  BY <1>1, RowType
<1>3. /\ res \in Input
      /\ res.choreType = chore[c].choreType
      /\ res.choreType = "interval" <=> res.interval # 0
      /\ res.choreType = "date" => res.date # ZeroDate
      /\ res.choreType # "date" => res.date = chore[c].lastCompletion
      /\ res.repeats # 0
      /\ res.choreType # "interval" => res.repeats = 1
  BY <1>1, <1>2, ResolveFacts DEF BeginUpdate
<1> HIDE DEF res
<1>4. Begin(w, "update", u, c, ZeroDate, res) /\ "update" \in Ops
  BY DEF BeginUpdate, Ops, res
<1>5. /\ request'[w]
           = [op |-> "update", user |-> u, id |-> c, date |-> ZeroDate, input |-> res]
      /\ reply'[w] = "none"
  BY <1>1, <1>3, <1>4, NoInputType, BeginFacts
<1>6. chore' = chore /\ event' = event /\ issued' = issued
  BY <1>4 DEF Begin, database
<1>7. EditOK(request[w])'
  BY <1>1, <1>3, <1>5, <1>6 DEF EditOK, ChoreOK, Stored
<1>8. RequestOK(w)'
  BY <1>5, <1>7 DEF RequestOK, Serving, Idle
<1> QED BY <1>1, <1>3, <1>4, <1>8, NoInputType, BeginInvariant

\* An answer that stores nothing.
LEMMA AnswerInvariant ==
  ASSUME IInv, NEW w \in Workers, NEW a \in {"ok", "error"}, Answer(w, a),
         UNCHANGED <<day, database>>
  PROVE  IInv'
<1>1. TypeOK
  BY DEF IInv
<1>2. /\ request' \in [Workers -> Request \cup {NoRequest}]
      /\ reply' \in [Workers -> {"none", "ok", "error"}]
      /\ request'[w] = NoRequest
      /\ \A v \in Workers \ {w} : request'[v] = request[v] /\ reply'[v] = reply[v]
  BY <1>1, AnswerFacts
<1>3. TypeOK'
  BY <1>1, <1>2 DEF TypeOK, database
<1>4. RequestOK(w)'
  BY <1>2, IdleRequest
<1> QED BY <1>2, <1>3, <1>4, TablesKept

\* What a worker's request is, by type and by invariant.
LEMMA RequestFacts ==
  ASSUME IInv, NEW w \in Workers, ~Idle(w)
  PROVE  /\ TypeOK
         /\ request[w] \in Request
         /\ request[w].id \in ChoreIDs
         /\ request[w].user \in Users
         /\ request[w].date \in Date
         /\ request[w].input \in Input
         /\ RequestOK(w)
         /\ ChoreOK(request[w].id)
<1>1. TypeOK /\ RequestOK(w)
  BY ByChoreAndRequest
<1>2. request[w] \in Request
  BY <1>1 DEF TypeOK, Idle
<1> QED BY <1>1, <1>2, ByChoreAndRequest DEF Request

\* A completion that reads the day carries no more than before.
LEMMA CompletionDated ==
  ASSUME IInv, NEW w \in Workers, DateCompletion(w)
  PROVE  IInv'
<1>1. ~Idle(w) /\ TypeOK /\ "complete" \in Ops
  BY DEF DateCompletion, Serving, IInv, Ops
<1>2. PICK u \in Users, c \in ChoreIDs, inp \in Input :
        u = request[w].user /\ c = request[w].id /\ inp = request[w].input
  BY <1>1, RequestFacts
<1>3. day \in Date
  BY <1>1, DatesAreNumbers DEF TypeOK
<1>4. Begin(w, "complete", u, c, day, inp)
  BY <1>2 DEF DateCompletion
<1>5. /\ request'[w] = [op |-> "complete", user |-> u, id |-> c, date |-> day, input |-> inp]
      /\ reply'[w] = "none"
  BY <1>1, <1>3, <1>4, BeginFacts
<1>6. RequestOK(w)'
  BY <1>5 DEF RequestOK, Serving, Idle
<1> QED BY <1>1, <1>3, <1>4, <1>6, BeginInvariant

LEMMA AddCommits ==
  ASSUME IInv, NEW w \in Workers, AddCommit(w)
  PROVE  IInv'
<1>1. ~Idle(w) /\ Serving(w, "add")
  BY DEF AddCommit, Serving
<1>2. PICK c \in ChoreIDs, inp \in Input, d \in RealDate :
        c = request[w].id /\ inp = request[w].input /\ d = request[w].date /\ ValidNew(inp)
  BY <1>1, RequestFacts DEF RequestOK, AddOK
<1>3. TypeOK /\ ChoreOK(c)
  BY <1>1, <1>2, RequestFacts
<1>4. c \notin issued
  BY <1>2 DEF AddCommit, FreshIDs
<1>5. ~Stored(c) /\ event[c] = NoEvents
  BY <1>3, <1>4 DEF ChoreOK
<1> DEFINE new == NewRow(inp, d)
<1>6. /\ new \in Row
      /\ new.choreType = inp.choreType
      /\ new.lastCompletion = inp.date
      /\ new.snoozedFor = NotSnoozed
      /\ new.choreType = "interval" <=> new.interval # 0
      /\ new.choreType = "date" <=> new.lastCompletion # ZeroDate
      /\ new.choreType # "interval" => new.repeatsLeft = 1
  BY <1>2, NewRowFacts
<1>7. /\ chore' = [chore EXCEPT ![c] = new]
      /\ event' = event /\ issued' = issued \cup {c}
      /\ Answer(w, "ok")
      /\ UNCHANGED <<day, choreList, member>>
  BY <1>2 DEF AddCommit
<1> HIDE DEF new
<1>8. chore'[c] = new /\ chore' \in [ChoreIDs -> Row \cup {NoChore}]
  BY <1>3, <1>6, <1>7 DEF TypeOK
<1>9. ChoreOK(c)'
  <2>1. RepeatsOnRecord(c)'
    BY <1>6, <1>8 DEF RepeatsOnRecord, Forever
  <2> QED BY <1>6, <1>7, <1>8, <2>1, ServiceAssumption DEF ChoreOK, Stored, WellFormed
<1>10. \A x \in ChoreIDs \ {c} : chore'[x] = chore[x] /\ event'[x] = event[x]
  BY <1>3, <1>7 DEF TypeOK
<1>11. event' \in [ChoreIDs -> [Date -> Nat]] /\ issued' \subseteq ChoreIDs
  BY <1>3, <1>7 DEF TypeOK
<1> QED BY <1>4, <1>7, <1>8, <1>9, <1>10, <1>11, OneChoreWritten

\* One completion more on record accounts for one repetition less.
LEMMA CountCompleted ==
  ASSUME NEW c, NEW d \in Date, RepeatsOnRecord(c), chore[c] \in Row,
         event[c] \in [Date -> Nat],
         event'[c] = [event[c] EXCEPT ![d] = event[c][d] + 1],
         chore'[c].choreType = chore[c].choreType,
         chore'[c].repeatsLeft = RepeatsAfterCompletion(chore[c].repeatsLeft)
  PROVE  RepeatsOnRecord(c)'
<1> SUFFICES ASSUME chore[c].choreType # "interval"
             PROVE  /\ chore'[c].repeatsLeft <= 1
                    /\ chore'[c].repeatsLeft = 0 => \E e \in Date : event'[c][e] > 0
                    /\ chore'[c].repeatsLeft = Forever => CompletedTwice(c)'
  BY DEF RepeatsOnRecord
<1>1. chore[c].repeatsLeft \in Repeats /\ chore[c].repeatsLeft <= 1
  BY DEF Row, RepeatsOnRecord
<1>2. /\ chore'[c].repeatsLeft <= 1
      /\ chore'[c].repeatsLeft = Forever =>
           chore[c].repeatsLeft = 0 \/ chore[c].repeatsLeft = Forever
  BY <1>1, RepeatsRunOut
<1>3. event'[c][d] = event[c][d] + 1 /\ event[c][d] \in Nat
  OBVIOUS
<1>4. event'[c][d] > 0
  BY <1>3
<1>5. \A e \in Date : event[c][e] > 0 => event'[c][e] > 0 /\ (e = d => event'[c][e] > 1)
  BY <1>3
<1>6. ASSUME chore[c].repeatsLeft = 0
      PROVE  CompletedTwice(c)'
  <2>1. PICK e \in Date : event[c][e] > 0
    BY <1>6 DEF RepeatsOnRecord
  <2>2. event'[c][e] > 0 /\ event'[c][d] > 0 /\ (e = d => event'[c][e] > 1)
    BY <1>4, <1>5, <2>1
  <2> QED BY <2>2 DEF CompletedTwice
<1>7. ASSUME chore[c].repeatsLeft = Forever
      PROVE  CompletedTwice(c)'
  <2>1. PICK e, f \in Date :
          event[c][e] > 0 /\ event[c][f] > 0 /\ (e = f => event[c][e] > 1)
    BY <1>7 DEF RepeatsOnRecord, CompletedTwice
  <2>2. event'[c][e] > 0 /\ event'[c][f] > 0 /\ (e = f => event'[c][e] > 1)
    <3>1. event'[c][e] >= event[c][e] /\ event[c][e] \in Nat /\ event'[c][e] \in Nat
      BY <1>3
    <3> QED BY <1>5, <2>1, <3>1
  <2> QED BY <2>2 DEF CompletedTwice
<1> QED BY <1>2, <1>4, <1>6, <1>7

\* The event lands on the day the row then shows.
LEMMA CompleteCommits ==
  ASSUME IInv, NEW w \in Workers, CompleteCommit(w)
  PROVE  IInv'
<1>1. ~Idle(w) /\ Serving(w, "complete")
  BY DEF CompleteCommit, Serving
<1>2. PICK c \in ChoreIDs : c = request[w].id
  BY <1>1, RequestFacts
<1>3. TypeOK /\ ChoreOK(c) /\ request[w].date \in Date
  BY <1>1, <1>2, RequestFacts
<1>4. PICK occ \in RealDate : occ = request[w].date
  BY <1>3 DEF RealDate, CompleteCommit, CompleteRuns
<1>5. Stored(c) /\ chore[c] \in Row /\ occ \in Date
  BY <1>2, <1>3, RowType, DatesAreNumbers DEF CompleteCommit, CompleteRuns, CanHaveEvents
<1> DEFINE done == CompletedRow(chore[c], occ)
<1>6. /\ done \in Row
      /\ done.lastCompletion = occ
      /\ done.snoozedFor = NotSnoozed
      /\ done.choreType = chore[c].choreType
      /\ done.interval = chore[c].interval
      /\ done.repeatsLeft = RepeatsAfterCompletion(chore[c].repeatsLeft)
  BY <1>5, CompletedRowFacts
<1>7. /\ chore' = [chore EXCEPT ![c] = done]
      /\ event' = [event EXCEPT ![c][occ] = @ + 1]
      /\ issued' = issued
      /\ Answer(w, "ok")
      /\ UNCHANGED <<day, choreList, member>>
  BY <1>2, <1>4, <1>5 DEF CompleteCommit, EventAdded
<1> HIDE DEF done
<1>8. chore'[c] = done /\ chore' \in [ChoreIDs -> Row \cup {NoChore}]
  BY <1>3, <1>6, <1>7 DEF TypeOK
<1>9. event[c] \in [Date -> Nat]
  BY <1>3 DEF TypeOK
<1>10. /\ event'[c] = [event[c] EXCEPT ![occ] = event[c][occ] + 1]
       /\ event'[c] \in [Date -> Nat]
       /\ event' \in [ChoreIDs -> [Date -> Nat]]
  BY <1>3, <1>5, <1>7, <1>9 DEF TypeOK
<1>11. event'[c][occ] > 0 /\ \A d \in Date : event[c][d] > 0 => event'[c][d] > 0
  BY <1>5, <1>9, <1>10
<1>12. ChoreOK(c)'
  <2>1. c \in issued /\ WellFormed(chore[c])
    BY <1>3, <1>5 DEF ChoreOK
  <2>2. WellFormed(done)
    BY <1>6, <2>1 DEF WellFormed, RealDate
  <2>3. Stored(c)'
    BY <1>6, <1>8, ServiceAssumption DEF Stored
  <2>4. \/ chore'[c].lastCompletion = ZeroDate
        \/ event'[c][chore'[c].lastCompletion] > 0
    BY <1>6, <1>8, <1>11
  <2>5. RepeatsOnRecord(c)'
    BY <1>3, <1>5, <1>6, <1>8, <1>9, <1>10, CountCompleted DEF ChoreOK
  <2> QED BY <1>6, <1>7, <1>8, <2>1, <2>2, <2>3, <2>4, <2>5 DEF ChoreOK
<1>13. \A x \in ChoreIDs \ {c} : chore'[x] = chore[x] /\ event'[x] = event[x]
  BY <1>3, <1>7 DEF TypeOK
<1>14. issued' \subseteq ChoreIDs
  BY <1>3, <1>7 DEF TypeOK
<1>15. chore'[c].choreType = chore[c].choreType
  BY <1>6, <1>8
<1> QED BY <1>5, <1>7, <1>8, <1>10, <1>11, <1>12, <1>13, <1>14, <1>15, OneChoreWritten

\* The day the handler read may have passed, so the chore is due tomorrow or sooner.
LEMMA PostponementCommits ==
  ASSUME IInv, NEW w \in Workers, SnoozeCommit(w) \/ ExpediteCommit(w)
  PROVE  IInv'
<1>1. ~Idle(w) /\ (Serving(w, "snooze") \/ Serving(w, "expedite"))
  BY DEF SnoozeCommit, ExpediteCommit, Serving
<1>2. PICK c \in ChoreIDs, t \in RealDate :
        c = request[w].id /\ t = request[w].date /\ t <= day
  BY <1>1, RequestFacts DEF RequestOK, PostponeOK
<1>3. TypeOK /\ ChoreOK(c)
  BY <1>1, <1>2, RequestFacts
<1>4. day \in Int /\ t \in Int
  BY <1>3, DatesAreNumbers DEF TypeOK
<1>5. PICK n \in {0, OneDay} : chore' = [chore EXCEPT ![c] = SnoozedRow(@, t, n)]
  BY <1>2 DEF SnoozeCommit, ExpediteCommit
<1>6. n \in Int /\ n <= 1
  BY DEF OneDay
<1>7. Stored(c) /\ chore[c] \in Row
  BY <1>2, <1>3, RowType
     DEF SnoozeCommit, ExpediteCommit, SnoozeRuns, ExpediteRuns, Visible
<1> DEFINE new == SnoozedRow(chore[c], t, n)
<1>8. /\ new \in Row
      /\ NextCompletion(new) = t + n
      /\ new.choreType = chore[c].choreType
      /\ new.interval = chore[c].interval
      /\ new.lastCompletion = chore[c].lastCompletion
      /\ new.repeatsLeft = chore[c].repeatsLeft
  BY <1>4, <1>6, <1>7, SnoozeLands, SnoozedRowFacts
<1>9. /\ chore' = [chore EXCEPT ![c] = new]
      /\ Answer(w, "ok")
      /\ UNCHANGED <<day, choreList, member, event, issued>>
  BY <1>5 DEF SnoozeCommit, ExpediteCommit
<1> HIDE DEF new
<1>10. chore'[c] = new /\ chore' \in [ChoreIDs -> Row \cup {NoChore}]
  BY <1>3, <1>8, <1>9 DEF TypeOK
<1>11. NextCompletion(new) <= day + 1
  BY <1>2, <1>4, <1>6, <1>8
<1>12. Stored(c)'
  BY <1>8, <1>10, ServiceAssumption DEF Stored
<1>13. ChoreOK(c)'
  <2>1. RepeatsOnRecord(c)'
    BY <1>3, <1>7, <1>8, <1>9, <1>10, CountKept DEF ChoreOK
  <2> QED BY <1>3, <1>7, <1>8, <1>9, <1>10, <1>11, <1>12, <2>1 DEF ChoreOK, WellFormed
<1>14. \A x \in ChoreIDs \ {c} : chore'[x] = chore[x] /\ event'[x] = event[x]
  BY <1>3, <1>9 DEF TypeOK
<1>15. event' \in [ChoreIDs -> [Date -> Nat]] /\ issued' \subseteq ChoreIDs /\ event'[c] = event[c]
  BY <1>3, <1>9 DEF TypeOK
<1>16. chore'[c].choreType = chore[c].choreType
  BY <1>8, <1>10
<1> QED BY <1>7, <1>9, <1>10, <1>13, <1>14, <1>15, <1>16, OneChoreWritten

\* What the edit carries still fits the row, which only kept its type.
LEMMA UpdateCommits ==
  ASSUME IInv, NEW w \in Workers, UpdateCommit(w)
  PROVE  IInv'
<1>1. ~Idle(w) /\ Serving(w, "update")
  BY DEF UpdateCommit, Serving
<1>2. PICK c \in ChoreIDs, inp \in Input : c = request[w].id /\ inp = request[w].input
  BY <1>1, RequestFacts
<1>3. TypeOK /\ ChoreOK(c) /\ EditOK(request[w])
  BY <1>1, <1>2, RequestFacts DEF RequestOK
<1>4. Stored(c) /\ chore[c] \in Row
  BY <1>2, <1>3, RowType DEF UpdateCommit
<1>5. /\ inp.choreType = chore[c].choreType
      /\ inp.choreType = "interval" <=> inp.interval # 0
      /\ inp.choreType = "date" => inp.date # ZeroDate
      /\ inp.choreType # "date" => inp.date = ZeroDate \/ event[c][inp.date] > 0
      /\ inp.choreType # "interval" => inp.repeats = 1
  BY <1>2, <1>3, <1>4 DEF EditOK
<1> DEFINE new == UpdatedRow(chore[c], inp)
<1>6. /\ new \in Row
      /\ new.choreType = chore[c].choreType
      /\ new.interval = inp.interval
      /\ new.lastCompletion = inp.date
      /\ new.snoozedFor = NotSnoozed
      /\ new.repeatsLeft = inp.repeats
  BY <1>4, UpdatedRowFacts
<1>7. /\ chore' = [chore EXCEPT ![c] = new]
      /\ Answer(w, "ok")
      /\ UNCHANGED <<day, choreList, member, event, issued>>
  BY <1>2 DEF UpdateCommit
<1> HIDE DEF new
<1>8. chore'[c] = new /\ chore' \in [ChoreIDs -> Row \cup {NoChore}]
  BY <1>3, <1>6, <1>7 DEF TypeOK
<1>9. Stored(c)'
  BY <1>6, <1>8, ServiceAssumption DEF Stored
<1>10. WellFormed(new)
  BY <1>5, <1>6 DEF WellFormed
<1>11. ChoreOK(c)'
  <2>1. RepeatsOnRecord(c)'
    BY <1>5, <1>6, <1>8 DEF RepeatsOnRecord, Forever
  <2> QED BY <1>3, <1>4, <1>5, <1>6, <1>7, <1>8, <1>9, <1>10, <2>1 DEF ChoreOK
<1>12. \A x \in ChoreIDs \ {c} : chore'[x] = chore[x] /\ event'[x] = event[x]
  BY <1>3, <1>7 DEF TypeOK
<1>13. event' \in [ChoreIDs -> [Date -> Nat]] /\ issued' \subseteq ChoreIDs /\ event'[c] = event[c]
  BY <1>3, <1>7 DEF TypeOK
<1>14. chore'[c].choreType = chore[c].choreType
  BY <1>6, <1>8
<1> QED BY <1>4, <1>7, <1>8, <1>11, <1>12, <1>13, <1>14, OneChoreWritten

\* The cascade takes the events with the row.
LEMMA DeleteCommits ==
  ASSUME IInv, NEW w \in Workers, DeleteCommit(w)
  PROVE  IInv'
<1>1. ~Idle(w) /\ Serving(w, "delete")
  BY DEF DeleteCommit, Serving
<1>2. PICK c \in ChoreIDs : c = request[w].id
  BY <1>1, RequestFacts
<1>3. TypeOK
  BY <1>1, RequestFacts
<1>4. /\ chore' = [chore EXCEPT ![c] = NoChore]
      /\ event' = [event EXCEPT ![c] = NoEvents]
      /\ issued' = issued
      /\ Answer(w, "ok")
      /\ UNCHANGED <<day, choreList, member>>
  BY <1>2 DEF DeleteCommit, EventsDeleted
<1>5. NoEvents \in [Date -> Nat]
  BY DEF NoEvents
<1>6. /\ chore' \in [ChoreIDs -> Row \cup {NoChore}]
      /\ event' \in [ChoreIDs -> [Date -> Nat]]
      /\ chore'[c] = NoChore /\ event'[c] = NoEvents
      /\ \A x \in ChoreIDs \ {c} : chore'[x] = chore[x] /\ event'[x] = event[x]
  BY <1>3, <1>4, <1>5 DEF TypeOK
<1>7. ~Stored(c)'
  BY <1>6 DEF Stored
<1>8. NoEvents' = NoEvents
  BY DEF NoEvents
<1>9. ChoreOK(c)'
  BY <1>6, <1>7, <1>8 DEF ChoreOK
<1>10. issued' \subseteq ChoreIDs
  BY <1>3, <1>4 DEF TypeOK
<1> QED BY <1>4, <1>6, <1>7, <1>9, <1>10, OneChoreWritten

-----------------------------------------------------------------------------
(* Steps that are no worker's *)

LEMMA CrashInvariant == IInv /\ Crash => IInv'
<1> SUFFICES ASSUME IInv, Crash PROVE IInv'
  OBVIOUS
<1>1. TypeOK /\ \A c \in ChoreIDs : ChoreOK(c)
  BY ByChoreAndRequest
<1>2. /\ \A w \in Workers : request'[w] = NoRequest
      /\ UNCHANGED <<day, choreList, member, chore, event, issued>>
  BY DEF Crash, database
<1>3. TypeOK'
  BY <1>1, <1>2 DEF TypeOK, Crash
<1>4. \A c \in ChoreIDs : ChoreOK(c)'
  BY <1>1, <1>2, CountKept DEF ChoreOK, Stored
<1>5. \A w \in Workers : RequestOK(w)'
  BY <1>2, IdleRequest
<1> QED BY <1>3, <1>4, <1>5, ByChoreAndRequestNext

\* Lists and members, and midnight, leave chores and requests as they are.
LEMMA SurroundingsInvariant ==
  ASSUME IInv, TypeOK', UNCHANGED <<chore, event, issued, request, reply>>, day <= day'
  PROVE  IInv'
<1>1. /\ TypeOK
      /\ \A c \in ChoreIDs : ChoreOK(c)
      /\ \A w \in Workers : RequestOK(w)
  BY ByChoreAndRequest
<1>2. day' \in Int
  BY DatesAreNumbers DEF TypeOK
<1>3. \A c \in ChoreIDs : ChoreOK(c)'
  BY <1>1, <1>2, OtherChore
<1>4. ASSUME NEW w \in Workers
      PROVE  RequestOK(w)'
  <2>1. Serving(w, "update") => EditOK(request[w])'
    BY <1>1 DEF RequestOK, EditOK, Stored
  <2> QED BY <1>1, <1>2, <2>1, OtherRequest
<1> QED BY <1>3, <1>4, ByChoreAndRequestNext

LEMMA ListInvariant ==
  ASSUME IInv, NEW u \in Users, NEW l \in ChoreListIDs,
         CreateList(u, l) \/ LeaveList(u, l) \/ JoinList(u, l)
  PROVE  IInv'
<1>1. TypeOK
  BY DEF IInv
<1>2. TypeOK' /\ UNCHANGED <<day, chore, event, issued, request, reply>>
  BY <1>1 DEF TypeOK, CreateList, LeaveList, JoinList
<1>3. day <= day'
  BY <1>1, <1>2, DatesAreNumbers DEF TypeOK
<1> QED BY <1>2, <1>3, SurroundingsInvariant

LEMMA TickInvariant == IInv /\ Tick => IInv'
<1> SUFFICES ASSUME IInv, Tick PROVE IInv'
  OBVIOUS
<1>1. TypeOK
  BY DEF IInv
<1>2. day' \in RealDate /\ day <= day'
  BY <1>1, ChoreAssumption DEF TypeOK, Tick, RealDate, Date, ZeroDate
<1>3. UNCHANGED <<choreList, member, chore, event, issued, request, reply>>
  BY DEF Tick, database
<1>4. TypeOK'
  BY <1>1, <1>2, <1>3 DEF TypeOK
<1> QED BY <1>2, <1>3, <1>4, SurroundingsInvariant

-----------------------------------------------------------------------------
(* The invariants *)

LEMMA StutterInvariant == IInv /\ UNCHANGED vars => IInv'
<1> SUFFICES ASSUME IInv, UNCHANGED vars PROVE IInv'
  OBVIOUS
<1>1. TypeOK
  BY DEF IInv
<1>2. TypeOK' /\ UNCHANGED <<day, chore, event, issued, request, reply>>
  BY <1>1 DEF TypeOK, vars
<1>3. day <= day'
  BY <1>1, <1>2, DatesAreNumbers DEF TypeOK
<1> QED BY <1>2, <1>3, SurroundingsInvariant

LEMMA NextInvariant == IInv /\ [Next]_vars => IInv'
<1> SUFFICES ASSUME IInv, [Next]_vars PROVE IInv'
  OBVIOUS
<1>1. ASSUME NEW w \in Workers, FirstStep(w)
      PROVE  IInv'
  <2>1. CASE Refuse(w)
    BY <2>1, AnswerInvariant DEF Refuse
  <2>2. ASSUME NEW u \in Users, NEW c \in ChoreIDs,
               \/ \E inp \in Inputs : BeginAdd(w, u, c, inp)
               \/ \E inp \in Inputs : BeginUpdate(w, u, c, inp)
               \/ \E d \in Date : BeginComplete(w, u, c, d)
               \/ BeginSnooze(w, u, c)
               \/ BeginExpedite(w, u, c)
               \/ BeginDelete(w, u, c)
        PROVE  IInv'
    <3>1. CASE \E inp \in Inputs : BeginAdd(w, u, c, inp)
      BY <3>1, AddBegins
    <3>2. CASE \E inp \in Inputs : BeginUpdate(w, u, c, inp)
      BY <3>2, UpdateBegins
    <3>3. CASE \E d \in Date : BeginComplete(w, u, c, d)
      BY <3>3, CompleteBegins
    <3>4. CASE BeginSnooze(w, u, c) \/ BeginExpedite(w, u, c)
      BY <3>4, PostponementBegins
    <3>5. CASE BeginDelete(w, u, c)
      BY <3>5, DeleteBegins
    <3> QED BY <2>2, <3>1, <3>2, <3>3, <3>4, <3>5
  <2>3. CASE DateCompletion(w)
    BY <2>3, CompletionDated
  <2> QED BY <1>1, <2>1, <2>2, <2>3 DEF FirstStep
<1>2. ASSUME NEW w \in Workers, SecondStep(w)
      PROVE  IInv'
  <2>1. CASE AddCommit(w)
    BY <2>1, AddCommits
  <2>2. CASE CompleteCommit(w)
    BY <2>2, CompleteCommits
  <2>3. CASE SnoozeCommit(w) \/ ExpediteCommit(w)
    BY <2>3, PostponementCommits
  <2>4. CASE UpdateCommit(w)
    BY <2>4, UpdateCommits
  <2>5. CASE DeleteCommit(w)
    BY <2>5, DeleteCommits
  <2>6. CASE Abort(w) \/ CommitLost(w)
    BY <2>6, AnswerInvariant DEF Abort, CommitLost
  <2> QED BY <1>2, <2>1, <2>2, <2>3, <2>4, <2>5, <2>6 DEF SecondStep
<1>3. ASSUME NEW u \in Users, NEW l \in ChoreListIDs,
             CreateList(u, l) \/ LeaveList(u, l) \/ JoinList(u, l)
      PROVE  IInv'
  BY <1>3, ListInvariant
<1>4. CASE Crash
  BY <1>4, CrashInvariant
<1>5. CASE Tick
  BY <1>5, TickInvariant
<1>6. CASE UNCHANGED vars
  BY <1>6, StutterInvariant
<1> QED BY <1>1, <1>2, <1>3, <1>4, <1>5, <1>6 DEF Next

\* The inductive invariant holds in every reachable state.
THEOREM InvariantHolds == Spec => []IInv
BY InitInvariant, NextInvariant, PTL DEF Spec

\* Every variable keeps its type: no operation writes a row, an event or a request
\* outside the schema, the repeat count of a completed chore included.
THEOREM TypeCorrect == Spec => []TypeOK
<1>1. IInv => TypeOK
  BY DEF IInv
<1> QED BY <1>1, InvariantHolds, PTL

\* Every stored row has the shape its type asks for (Input.Validate), though edits
\* are validated against a row that may have changed since it was read.
THEOREM ShapeCorrect == Spec => []ShapeOK
<1>1. IInv => ShapeOK
  BY DEF IInv
<1> QED BY <1>1, InvariantHolds, PTL

\* No event without its chore, whichever way completions and deletes interleave.
THEOREM NoOrphans == Spec => []NoOrphanEvents
<1>1. IInv => NoOrphanEvents
  BY DEF IInv
<1> QED BY <1>1, InvariantHolds, PTL

\* The last completion of a chore without a date of its own is on record.
THEOREM LastCompletionOnRecord == Spec => []LastCompletionRecorded
<1>1. IInv => LastCompletionRecorded
  BY DEF IInv
<1> QED BY <1>1, InvariantHolds, PTL

\* What is left of a chore done once is on record: one completion, wherever it comes
\* between the edits and snoozes of others, never makes it repeat without end.
THEOREM RepeatsOnRecordAlways == Spec => []RepeatsAccountedFor
<1>1. IInv => RepeatsAccountedFor
  BY DEF IInv
<1> QED BY <1>1, InvariantHolds, PTL

\* A snoozed or expedited chore is due tomorrow at the latest.
THEOREM SnoozedDueSoon == Spec => []SnoozedIsSoon
<1>1. IInv => SnoozedIsSoon
  BY DEF IInv
<1> QED BY <1>1, InvariantHolds, PTL

-----------------------------------------------------------------------------
(* Steps *)

\* Only a transaction that answers writes the tables of chores.
LEMMA ChoresWritten ==
  ASSUME [Next]_vars, chore' # chore \/ event' # event \/ issued' # issued
  PROVE  \E w \in Workers :
           \/ AddCommit(w) \/ CompleteCommit(w) \/ SnoozeCommit(w)
           \/ ExpediteCommit(w) \/ UpdateCommit(w) \/ DeleteCommit(w)
<1>1. ASSUME NEW w, NEW op, NEW u, NEW c, NEW d, NEW inp, Begin(w, op, u, c, d, inp)
      PROVE  UNCHANGED <<chore, event, issued>>
  BY <1>1 DEF Begin, database
<1>2. ASSUME NEW w \in Workers, FirstStep(w)
      PROVE  FALSE
  BY <1>1, <1>2 DEF FirstStep, Refuse, DateCompletion, database, BeginAdd, BeginUpdate,
                    BeginComplete, BeginSnooze, BeginExpedite, BeginDelete
<1>3. \A w \in Workers : ~Abort(w) /\ ~CommitLost(w)
  BY DEF Abort, CommitLost, database
<1>4. ~Crash /\ ~Tick /\ ~UNCHANGED vars
  BY DEF Crash, Tick, database, vars
<1>5. \A u \in Users, l \in ChoreListIDs :
        ~CreateList(u, l) /\ ~LeaveList(u, l) /\ ~JoinList(u, l)
  BY DEF CreateList, LeaveList, JoinList
<1> QED BY <1>2, <1>3, <1>4, <1>5 DEF Next, SecondStep

LEMMA DirectionStep ==
  ASSUME IInv, [Next]_vars, NEW w \in Workers, reply'[w] = "ok", chore' # chore,
         NEW c \in ChoreIDs, c = request[w].id
  PROVE  /\ Serving(w, "snooze") => NextCompletion(chore'[c]) > NextCompletion(chore[c])
         /\ Serving(w, "expedite") => NextCompletion(chore'[c]) < NextCompletion(chore[c])
<1> SUFFICES ASSUME Serving(w, "snooze") \/ Serving(w, "expedite")
             PROVE  /\ Serving(w, "snooze") =>
                         NextCompletion(chore'[c]) > NextCompletion(chore[c])
                    /\ Serving(w, "expedite") =>
                         NextCompletion(chore'[c]) < NextCompletion(chore[c])
  OBVIOUS
<1>1. ~Idle(w) /\ TypeOK /\ RequestOK(w)
  BY ByChoreAndRequest DEF Serving
<1>2. reply[w] = "none"
  BY <1>1 DEF RequestOK
<1>3. PICK v \in Workers :
        \/ AddCommit(v) \/ CompleteCommit(v) \/ SnoozeCommit(v)
        \/ ExpediteCommit(v) \/ UpdateCommit(v) \/ DeleteCommit(v)
  BY ChoresWritten
<1>4. Answer(v, "ok")
  BY <1>3 DEF AddCommit, CompleteCommit, SnoozeCommit, ExpediteCommit, UpdateCommit, DeleteCommit
<1>5. v = w
  BY <1>1, <1>2, <1>4, AnswerFacts
<1>6. PICK t \in RealDate : t = request[w].date
  BY <1>1 DEF RequestOK, PostponeOK
<1>7. t \in Int /\ chore[c] \in Row \cup {NoChore}
  BY <1>1, <1>6, DatesAreNumbers DEF TypeOK
<1>8. ASSUME Serving(w, "snooze")
      PROVE  NextCompletion(chore'[c]) > NextCompletion(chore[c])
  <2>1. SnoozeCommit(w)
    BY <1>3, <1>5, <1>8 DEF AddCommit, CompleteCommit, ExpediteCommit, UpdateCommit,
                            DeleteCommit, Serving
  <2>2. Stored(c) /\ CanSnooze(chore[c], t)
    BY <1>6, <2>1 DEF SnoozeCommit, SnoozeRuns, Visible
  <2>3. chore[c] \in Row /\ NextCompletion(chore[c]) \in Int
    BY <1>1, <2>2, RowType, NextCompletionIsNumber
  <2>4. chore'[c] = SnoozedRow(chore[c], t, OneDay)
    BY <1>1, <1>6, <2>1 DEF SnoozeCommit, TypeOK
  <2>5. NextCompletion(chore'[c]) = t + OneDay
    BY <1>7, <2>3, <2>4, SnoozeLands DEF OneDay
  <2> QED BY <1>7, <2>2, <2>3, <2>5 DEF CanSnooze, DurationToNextFrom, OneDay
<1>9. ASSUME Serving(w, "expedite")
      PROVE  NextCompletion(chore'[c]) < NextCompletion(chore[c])
  <2>1. ExpediteCommit(w)
    BY <1>3, <1>5, <1>9 DEF AddCommit, CompleteCommit, SnoozeCommit, UpdateCommit,
                            DeleteCommit, Serving
  <2>2. Stored(c) /\ CanExpedite(chore[c], t)
    BY <1>6, <2>1 DEF ExpediteCommit, ExpediteRuns, Visible
  <2>3. chore[c] \in Row /\ NextCompletion(chore[c]) \in Int
    BY <1>1, <2>2, RowType, NextCompletionIsNumber
  <2>4. chore'[c] = SnoozedRow(chore[c], t, 0)
    BY <1>1, <1>6, <2>1 DEF ExpediteCommit, TypeOK
  <2>5. NextCompletion(chore'[c]) = t + 0
    BY <1>7, <2>3, <2>4, SnoozeLands
  <2> QED BY <1>7, <2>2, <2>3, <2>5 DEF CanExpedite, DurationToNextFrom
<1> QED BY <1>8, <1>9

\* A snooze only ever postpones and an expedite only ever hastens, whatever else
\* happened to the chore since the request began.
THEOREM SnoozeDirectionHolds == Spec => SnoozeDirection
<1>1. ASSUME IInv, [Next]_vars, NEW w \in Workers, reply'[w] = "ok", chore' # chore
      PROVE  /\ Serving(w, "snooze") =>
                  NextCompletion(chore'[request[w].id]) > NextCompletion(chore[request[w].id])
             /\ Serving(w, "expedite") =>
                  NextCompletion(chore'[request[w].id]) < NextCompletion(chore[request[w].id])
  <2>1. CASE Idle(w)
    BY <2>1 DEF Serving
  <2>2. CASE ~Idle(w)
    <3>1. PICK c \in ChoreIDs : c = request[w].id
      BY <1>1, <2>2, RequestFacts
    <3> QED BY <1>1, <3>1, DirectionStep
  <2> QED BY <2>1, <2>2
<1>2. IInv /\ [Next]_vars =>
        [\A w \in Workers :
           LET c == request[w].id IN
           reply'[w] = "ok" /\ chore' # chore =>
             /\ Serving(w, "snooze") =>
                  NextCompletion(chore'[c]) > NextCompletion(chore[c])
             /\ Serving(w, "expedite") =>
                  NextCompletion(chore'[c]) < NextCompletion(chore[c])]_vars
  BY <1>1
<1> QED BY <1>2, InvariantHolds, PTL DEF Spec, SnoozeDirection

-----------------------------------------------------------------------------
(* The service implements the ledger *)

\* How the ledger's view of one chore follows from its row.
LEMMA LedgerOfStored ==
  ASSUME NEW c \in ChoreIDs, Stored(c)
  PROVE  /\ StatusMap[c] = "open"
         /\ LastOrDateMap[c] = chore[c].lastCompletion
         /\ RepeatsLeftMap[c] = chore[c].repeatsLeft
         /\ c \in Dated <=> chore[c].choreType = "date"
BY DEF StatusMap, Status, LastOrDateMap, LastOrDate, RepeatsLeftMap, RepeatsLeft, Dated

\* What the ledger sees of a step that writes chore c alone.
LEMMA LedgerOfStep ==
  ASSUME NEW c \in ChoreIDs, issued' \ {c} = issued \ {c},
         \A x \in ChoreIDs \ {c} : chore'[x] = chore[x]
  PROVE  /\ StatusMap' = [StatusMap EXCEPT ![c] = Status(c)']
         /\ LastOrDateMap' = [LastOrDateMap EXCEPT ![c] = LastOrDate(c)']
         /\ RepeatsLeftMap' = [RepeatsLeftMap EXCEPT ![c] = RepeatsLeft(c)']
         /\ Dated' = IF Stored(c)' /\ chore'[c].choreType = "date"
                     THEN Dated \cup {c} ELSE Dated \ {c}
<1>1. \A x \in ChoreIDs \ {c} : /\ Status(x)' = Status(x)
                                /\ LastOrDate(x)' = LastOrDate(x)
                                /\ RepeatsLeft(x)' = RepeatsLeft(x)
                                /\ x \in Dated' <=> x \in Dated
  BY DEF Status, LastOrDate, RepeatsLeft, Dated, Stored
<1>2. StatusMap' = [StatusMap EXCEPT ![c] = Status(c)']
  BY <1>1 DEF StatusMap
<1>3. LastOrDateMap' = [LastOrDateMap EXCEPT ![c] = LastOrDate(c)']
  BY <1>1 DEF LastOrDateMap
<1>4. RepeatsLeftMap' = [RepeatsLeftMap EXCEPT ![c] = RepeatsLeft(c)']
  BY <1>1 DEF RepeatsLeftMap
<1>5. Dated' = IF Stored(c)' /\ chore'[c].choreType = "date"
               THEN Dated \cup {c} ELSE Dated \ {c}
  BY <1>1 DEF Dated
<1> QED BY <1>2, <1>3, <1>4, <1>5

LEMMA LedgerNumbers == /\ Ledger!Day = Date
                       /\ Ledger!Blank = NoEvents
                       /\ \A n \in Repeats : n # 0 => n \in Ledger!Plan
BY ChoreAssumption DEF Ledger!Day, Ledger!Blank, Ledger!Plan, Date, ZeroDate, NoEvents,
                       Repeats, Forever

LEMMA LedgerInit == Init => Ledger!Init
<1> SUFFICES ASSUME Init PROVE Ledger!Init
  OBVIOUS
<1>1. \A c \in ChoreIDs : ~Stored(c) /\ c \notin issued
  BY DEF Init, Stored
<1>2. StatusMap = [c \in ChoreIDs |-> "unborn"]
  BY <1>1 DEF StatusMap, Status
<1>3. LastOrDateMap = [c \in ChoreIDs |-> 0] /\ RepeatsLeftMap = [c \in ChoreIDs |-> 0]
  BY <1>1 DEF LastOrDateMap, LastOrDate, RepeatsLeftMap, RepeatsLeft, ZeroDate
<1>4. Dated = {}
  BY <1>1 DEF Dated
<1>5. event = [c \in ChoreIDs |-> Ledger!Blank]
  BY LedgerNumbers DEF Init
<1> QED BY <1>2, <1>3, <1>4, <1>5 DEF Ledger!Init

LEMMA AddIsCreate ==
  ASSUME IInv, NEW w \in Workers, AddCommit(w)
  PROVE  Ledger!Next
<1>1. ~Idle(w) /\ Serving(w, "add")
  BY DEF AddCommit, Serving
<1>2. PICK c \in ChoreIDs, inp \in Input, d \in RealDate :
        c = request[w].id /\ inp = request[w].input /\ d = request[w].date /\ ValidNew(inp)
  BY <1>1, RequestFacts DEF RequestOK, AddOK
<1>3. TypeOK /\ ChoreOK(c)
  BY <1>1, <1>2, RequestFacts
<1>4. c \notin issued /\ ~Stored(c)
  BY <1>2, <1>3 DEF AddCommit, FreshIDs, ChoreOK
<1> DEFINE new == NewRow(inp, d)
<1>5. /\ new \in Row
      /\ new.choreType = inp.choreType
      /\ new.lastCompletion = inp.date
      /\ new.repeatsLeft = inp.repeats
      /\ inp.repeats # 0
      /\ new.choreType = "date" <=> new.lastCompletion # ZeroDate
  BY <1>2, NewRowFacts
<1>6. chore' = [chore EXCEPT ![c] = new] /\ event' = event /\ issued' = issued \cup {c}
  BY <1>2 DEF AddCommit
<1> HIDE DEF new
<1>7. chore'[c] = new /\ \A x \in ChoreIDs \ {c} : chore'[x] = chore[x]
  BY <1>3, <1>6 DEF TypeOK
<1>8. Stored(c)'
  BY <1>5, <1>7, ServiceAssumption DEF Stored
<1>9. /\ StatusMap' = [StatusMap EXCEPT ![c] = "open"]
      /\ LastOrDateMap' = [LastOrDateMap EXCEPT ![c] = inp.date]
      /\ RepeatsLeftMap' = [RepeatsLeftMap EXCEPT ![c] = inp.repeats]
      /\ Dated' = IF inp.date = 0 THEN Dated \ {c} ELSE Dated \cup {c}
  BY <1>5, <1>6, <1>7, <1>8, LedgerOfStep DEF Status, LastOrDate, RepeatsLeft, ZeroDate
<1>10. StatusMap[c] = "unborn" /\ c \notin Dated
  BY <1>4 DEF StatusMap, Status, Dated
<1>11. inp.date \in Ledger!Day /\ inp.repeats \in Ledger!Plan
  BY <1>2, <1>5, LedgerNumbers DEF Input
<1>12. Dated' = IF inp.date = 0 THEN Dated ELSE Dated \cup {c}
  BY <1>9, <1>10
<1>13. Ledger!Create(c, inp.date)
  BY <1>6, <1>9, <1>10, <1>11, <1>12 DEF Ledger!Create
<1> QED BY <1>11, <1>13 DEF Ledger!Next

LEMMA CompleteIsComplete ==
  ASSUME IInv, NEW w \in Workers, CompleteCommit(w)
  PROVE  Ledger!Next
<1>1. ~Idle(w) /\ Serving(w, "complete")
  BY DEF CompleteCommit, Serving
<1>2. PICK c \in ChoreIDs : c = request[w].id
  BY <1>1, RequestFacts
<1>3. TypeOK /\ request[w].date \in Date
  BY <1>1, RequestFacts
<1>4. PICK occ \in RealDate : occ = request[w].date
  BY <1>3 DEF RealDate, CompleteCommit, CompleteRuns
<1>5. Stored(c) /\ chore[c] \in Row /\ occ \in Date
  BY <1>2, <1>3, RowType, DatesAreNumbers DEF CompleteCommit, CompleteRuns, CanHaveEvents
<1> DEFINE done == CompletedRow(chore[c], occ)
<1>6. /\ done \in Row
      /\ done.lastCompletion = occ
      /\ done.choreType = chore[c].choreType
      /\ done.repeatsLeft = RepeatsAfterCompletion(chore[c].repeatsLeft)
  BY <1>5, CompletedRowFacts
<1>7. /\ chore' = [chore EXCEPT ![c] = done]
      /\ event' = [event EXCEPT ![c][occ] = @ + 1]
      /\ issued' = issued
  BY <1>2, <1>4, <1>5 DEF CompleteCommit, EventAdded
<1> HIDE DEF done
<1>8. chore'[c] = done /\ \A x \in ChoreIDs \ {c} : chore'[x] = chore[x]
  BY <1>3, <1>7 DEF TypeOK
<1>9. Stored(c)'
  BY <1>6, <1>8, ServiceAssumption DEF Stored
<1>10. /\ StatusMap[c] = "open"
       /\ RepeatsLeftMap[c] = chore[c].repeatsLeft
       /\ c \in Dated <=> chore[c].choreType = "date"
  BY <1>5, LedgerOfStored
<1>11. /\ StatusMap' = [StatusMap EXCEPT ![c] = "open"]
       /\ LastOrDateMap' = [LastOrDateMap EXCEPT ![c] = occ]
       /\ RepeatsLeftMap'
            = [RepeatsLeftMap EXCEPT ![c] = RepeatsAfterCompletion(chore[c].repeatsLeft)]
       /\ Dated' = IF c \in Dated THEN Dated \cup {c} ELSE Dated \ {c}
  BY <1>6, <1>7, <1>8, <1>9, <1>10, LedgerOfStep DEF Status, LastOrDate, RepeatsLeft
<1>12. StatusMap' = StatusMap /\ Dated' = Dated
  BY <1>10, <1>11 DEF StatusMap
<1>13. RepeatsAfterCompletion(chore[c].repeatsLeft)
         = IF chore[c].repeatsLeft > 0 THEN chore[c].repeatsLeft - 1 ELSE -1
  <2>1. chore[c].repeatsLeft \in Repeats
    BY <1>5 DEF Row
  <2> QED BY <2>1, ChoreAssumption DEF Repeats, RepeatsAfterCompletion, Forever
<1>14. RepeatsLeftMap'
         = [RepeatsLeftMap EXCEPT ![c] = IF @ > 0 THEN @ - 1 ELSE -1]
  BY <1>10, <1>11, <1>13
<1>15. Ledger!Complete(c, occ)
  BY <1>7, <1>10, <1>11, <1>12, <1>14 DEF Ledger!Complete
<1>16. occ \in Ledger!Day \ {0}
  BY <1>5, LedgerNumbers DEF RealDate, ZeroDate
<1> QED BY <1>15, <1>16 DEF Ledger!Next

\* The ledger does not see when a chore is due.
LEMMA PostponementIsNoEntry ==
  ASSUME IInv, NEW w \in Workers, SnoozeCommit(w) \/ ExpediteCommit(w)
  PROVE  UNCHANGED Ledger!ledger
<1>1. ~Idle(w)
  BY DEF SnoozeCommit, ExpediteCommit, Serving
<1>2. PICK c \in ChoreIDs : c = request[w].id
  BY <1>1, RequestFacts
<1>3. TypeOK /\ request[w].date \in Int
  BY <1>1, RequestFacts, DatesAreNumbers
<1>4. PICK n \in {0, OneDay} : chore' = [chore EXCEPT ![c] = SnoozedRow(@, request[w].date, n)]
  BY <1>2 DEF SnoozeCommit, ExpediteCommit
<1>5. Stored(c) /\ chore[c] \in Row
  BY <1>2, <1>3, RowType
     DEF SnoozeCommit, ExpediteCommit, SnoozeRuns, ExpediteRuns, Visible
<1> DEFINE new == SnoozedRow(chore[c], request[w].date, n)
<1>6. n \in Int
  BY DEF OneDay
<1>7. /\ new \in Row
      /\ new.choreType = chore[c].choreType
      /\ new.lastCompletion = chore[c].lastCompletion
      /\ new.repeatsLeft = chore[c].repeatsLeft
  BY <1>3, <1>5, <1>6, SnoozeLands, SnoozedRowFacts
<1>8. chore' = [chore EXCEPT ![c] = new] /\ event' = event /\ issued' = issued
  BY <1>4 DEF SnoozeCommit, ExpediteCommit
<1> HIDE DEF new
<1>9. chore'[c] = new /\ \A x \in ChoreIDs \ {c} : chore'[x] = chore[x]
  BY <1>3, <1>8 DEF TypeOK
<1>10. Stored(c)'
  BY <1>7, <1>9, ServiceAssumption DEF Stored
<1>11. /\ StatusMap[c] = "open"
       /\ LastOrDateMap[c] = chore[c].lastCompletion
       /\ RepeatsLeftMap[c] = chore[c].repeatsLeft
       /\ c \in Dated <=> chore[c].choreType = "date"
  BY <1>5, LedgerOfStored
<1>12. /\ StatusMap' = [StatusMap EXCEPT ![c] = StatusMap[c]]
       /\ LastOrDateMap' = [LastOrDateMap EXCEPT ![c] = LastOrDateMap[c]]
       /\ RepeatsLeftMap' = [RepeatsLeftMap EXCEPT ![c] = RepeatsLeftMap[c]]
       /\ Dated' = IF c \in Dated THEN Dated \cup {c} ELSE Dated \ {c}
  BY <1>7, <1>8, <1>9, <1>10, <1>11, LedgerOfStep DEF Status, LastOrDate, RepeatsLeft
<1> QED BY <1>8, <1>12 DEF Ledger!ledger, StatusMap, LastOrDateMap, RepeatsLeftMap

LEMMA UpdateIsEdit ==
  ASSUME IInv, NEW w \in Workers, UpdateCommit(w)
  PROVE  Ledger!Next
<1>1. ~Idle(w) /\ Serving(w, "update")
  BY DEF UpdateCommit, Serving
<1>2. PICK c \in ChoreIDs, inp \in Input : c = request[w].id /\ inp = request[w].input
  BY <1>1, RequestFacts
<1>3. TypeOK /\ EditOK(request[w])
  BY <1>1, RequestFacts DEF RequestOK
<1>4. Stored(c) /\ chore[c] \in Row
  BY <1>2, <1>3, RowType DEF UpdateCommit
<1>5. /\ inp.choreType = chore[c].choreType
      /\ inp.choreType # "date" => inp.date = ZeroDate \/ event[c][inp.date] > 0
      /\ inp.repeats # 0
  BY <1>2, <1>3, <1>4 DEF EditOK
<1> DEFINE new == UpdatedRow(chore[c], inp)
<1>6. /\ new \in Row
      /\ new.choreType = chore[c].choreType
      /\ new.lastCompletion = inp.date
      /\ new.repeatsLeft = inp.repeats
  BY <1>4, UpdatedRowFacts
<1>7. chore' = [chore EXCEPT ![c] = new] /\ event' = event /\ issued' = issued
  BY <1>2 DEF UpdateCommit
<1> HIDE DEF new
<1>8. chore'[c] = new /\ \A x \in ChoreIDs \ {c} : chore'[x] = chore[x]
  BY <1>3, <1>7 DEF TypeOK
<1>9. Stored(c)'
  BY <1>6, <1>8, ServiceAssumption DEF Stored
<1>10. StatusMap[c] = "open" /\ (c \in Dated <=> chore[c].choreType = "date")
  BY <1>4, LedgerOfStored
<1>11. /\ StatusMap' = [StatusMap EXCEPT ![c] = "open"]
       /\ LastOrDateMap' = [LastOrDateMap EXCEPT ![c] = inp.date]
       /\ RepeatsLeftMap' = [RepeatsLeftMap EXCEPT ![c] = inp.repeats]
       /\ Dated' = IF c \in Dated THEN Dated \cup {c} ELSE Dated \ {c}
  BY <1>6, <1>7, <1>8, <1>9, <1>10, LedgerOfStep DEF Status, LastOrDate, RepeatsLeft
<1>12. StatusMap' = StatusMap /\ Dated' = Dated
  BY <1>10, <1>11 DEF StatusMap
<1>13. inp.repeats \in Ledger!Plan /\ inp.date \in Ledger!Day
  BY <1>5, LedgerNumbers DEF Input
<1>14. inp.date \in Ledger!Datable(c)
  BY <1>5, <1>10, <1>13 DEF Ledger!Datable, ZeroDate
<1>15. Ledger!Edit(c)
  BY <1>7, <1>10, <1>11, <1>12, <1>13, <1>14 DEF Ledger!Edit
<1> QED BY <1>15 DEF Ledger!Next

LEMMA DeleteIsRemove ==
  ASSUME IInv, NEW w \in Workers, DeleteCommit(w)
  PROVE  [Ledger!Next]_(Ledger!ledger)
<1>1. ~Idle(w) /\ Serving(w, "delete")
  BY DEF DeleteCommit, Serving
<1>2. PICK c \in ChoreIDs : c = request[w].id
  BY <1>1, RequestFacts
<1>3. TypeOK /\ ChoreOK(c)
  BY <1>1, <1>2, RequestFacts
<1>4. /\ chore' = [chore EXCEPT ![c] = NoChore]
      /\ event' = [event EXCEPT ![c] = NoEvents]
      /\ issued' = issued
  BY <1>2 DEF DeleteCommit, EventsDeleted
<1>5. chore'[c] = NoChore /\ \A x \in ChoreIDs \ {c} : chore'[x] = chore[x]
  BY <1>3, <1>4 DEF TypeOK
<1>6. ~Stored(c)'
  BY <1>5 DEF Stored
<1>7. CASE Stored(c)
  <2>1. c \in issued
    BY <1>3, <1>7 DEF ChoreOK
  <2>2. StatusMap[c] = "open"
    BY <1>7, LedgerOfStored
  <2>3. /\ StatusMap' = [StatusMap EXCEPT ![c] = "gone"]
        /\ LastOrDateMap' = [LastOrDateMap EXCEPT ![c] = 0]
        /\ RepeatsLeftMap' = [RepeatsLeftMap EXCEPT ![c] = 0]
        /\ Dated' = Dated \ {c}
    BY <1>4, <1>5, <1>6, <2>1, LedgerOfStep DEF Status, LastOrDate, RepeatsLeft, ZeroDate
  <2>4. Ledger!Remove(c)
    BY <1>4, <2>2, <2>3, LedgerNumbers DEF Ledger!Remove
  <2> QED BY <2>4 DEF Ledger!Next
<1>8. CASE ~Stored(c)
  <2>1. chore' = chore /\ event' = event
    BY <1>3, <1>4, <1>8 DEF ChoreOK, Stored, TypeOK
  <2> QED BY <1>4, <2>1
       DEF Ledger!ledger, StatusMap, Status, LastOrDateMap, LastOrDate, RepeatsLeftMap,
           RepeatsLeft, Dated, Stored
<1> QED BY <1>7, <1>8

LEMMA LedgerStep ==
  ASSUME IInv, [Next]_vars
  PROVE  [Ledger!Next]_(Ledger!ledger)
<1>1. CASE UNCHANGED <<chore, event, issued>>
  BY <1>1 DEF Ledger!ledger, StatusMap, Status, LastOrDateMap, LastOrDate, RepeatsLeftMap,
              RepeatsLeft, Dated, Stored
<1>2. CASE ~UNCHANGED <<chore, event, issued>>
  <2>1. PICK w \in Workers :
          \/ AddCommit(w) \/ CompleteCommit(w) \/ SnoozeCommit(w)
          \/ ExpediteCommit(w) \/ UpdateCommit(w) \/ DeleteCommit(w)
    BY <1>2, ChoresWritten
  <2> QED BY <2>1, AddIsCreate, CompleteIsComplete, PostponementIsNoEntry, UpdateIsEdit,
             DeleteIsRemove
<1> QED BY <1>1, <1>2

\* The service implements the ledger: chores are created once and do not come back,
\* completions are counted on the day they are for until the chore is removed, and
\* what is left and last changes with a completion or an edit only.
THEOREM LedgerImplemented == Spec => ImplementsLedger
BY LedgerInit, LedgerStep, InvariantHolds, PTL DEF Spec, ImplementsLedger, Ledger!Spec

-----------------------------------------------------------------------------
(* What the repository says and the code does not do: why not.  Each of the *)
(* three expectations holds as soon as one thing is ruled out.               *)

\* Only the second step of its own request answers a worker "ok".
LEMMA WhoAnswers ==
  ASSUME IInv, [Next]_vars, NEW w \in Workers, ~Idle(w), reply'[w] = "ok"
  PROVE  SecondStep(w)
<1>1. TypeOK /\ reply[w] = "none"
  BY ByChoreAndRequest DEF RequestOK
<1>2. ASSUME NEW v \in Workers, NEW a \in {"ok", "error"}, Answer(v, a)
      PROVE  v = w
  BY <1>1, <1>2, AnswerFacts
<1>3. ASSUME NEW v, NEW op, NEW u, NEW c, NEW d, NEW inp, Begin(v, op, u, c, d, inp)
      PROVE  FALSE
  BY <1>1, <1>3 DEF Begin, TypeOK
<1>4. ASSUME NEW v \in Workers, FirstStep(v)
      PROVE  FALSE
  <2>1. ~Refuse(v)
    BY <1>2 DEF Refuse
  <2> QED BY <1>3, <1>4, <2>1 DEF FirstStep, DateCompletion, BeginAdd, BeginUpdate,
             BeginComplete, BeginSnooze, BeginExpedite, BeginDelete
<1>5. ASSUME NEW v \in Workers, SecondStep(v)
      PROVE  v = w
  BY <1>2, <1>5 DEF SecondStep, AddCommit, CompleteCommit, SnoozeCommit, ExpediteCommit,
                    UpdateCommit, DeleteCommit, Abort, CommitLost
<1>6. ~Crash
  BY DEF Crash
<1>7. ~Tick /\ ~UNCHANGED vars
  BY <1>1 DEF Tick, vars
<1>8. \A u \in Users, l \in ChoreListIDs :
        ~CreateList(u, l) /\ ~LeaveList(u, l) /\ ~JoinList(u, l)
  BY <1>1 DEF CreateList, LeaveList, JoinList
<1> QED BY <1>4, <1>5, <1>6, <1>7, <1>8 DEF Next

\* What a completion writes into the row.
LEMMA CompletionWrites ==
  ASSUME IInv, NEW w \in Workers, CompleteCommit(w),
         NEW c \in ChoreIDs, c = request[w].id
  PROVE  /\ Stored(c) /\ Stored(c)'
         /\ chore'[c].lastCompletion = request[w].date
         /\ chore'[c].choreType = chore[c].choreType
         /\ chore'[c].repeatsLeft = RepeatsAfterCompletion(chore[c].repeatsLeft)
         /\ event'[c] # event[c]
         /\ \A x \in ChoreIDs \ {c} : chore'[x] = chore[x]
<1>1. ~Idle(w) /\ TypeOK
  BY DEF CompleteCommit, Serving, IInv
<1>2. PICK occ \in RealDate : occ = request[w].date
  BY <1>1, RequestFacts DEF RealDate, CompleteCommit, CompleteRuns
<1>3. Stored(c) /\ chore[c] \in Row
  BY <1>1, RowType DEF CompleteCommit, CompleteRuns, CanHaveEvents
<1> DEFINE done == CompletedRow(chore[c], occ)
<1>4. /\ done \in Row
      /\ done.lastCompletion = occ
      /\ done.choreType = chore[c].choreType
      /\ done.repeatsLeft = RepeatsAfterCompletion(chore[c].repeatsLeft)
  BY <1>3, CompletedRowFacts
<1>5. chore' = [chore EXCEPT ![c] = done]
  BY <1>2, <1>3 DEF CompleteCommit
<1> HIDE DEF done
<1>6. chore'[c] = done /\ \A x \in ChoreIDs \ {c} : chore'[x] = chore[x]
  BY <1>1, <1>5 DEF TypeOK
<1>7. event'[c] # event[c]
  <2>1. event[c] \in [Date -> Nat] /\ occ \in Date
    BY <1>1, DatesAreNumbers DEF TypeOK
  <2>2. event'[c] = [event[c] EXCEPT ![occ] = event[c][occ] + 1]
    BY <1>1, <1>2 DEF CompleteCommit, EventAdded, TypeOK
  <2>3. event[c][occ] \in Nat /\ event'[c][occ] = event[c][occ] + 1
    BY <2>1, <2>2
  <2> QED BY <2>3
<1> QED BY <1>2, <1>3, <1>4, <1>6, <1>7, ServiceAssumption DEF Stored

\* What the other transactions write into theirs.
LEMMA AddWrites ==
  ASSUME IInv, NEW w \in Workers, AddCommit(w), NEW c \in ChoreIDs, c = request[w].id
  PROVE  /\ c \notin issued
         /\ chore'[c].choreType # "interval" => chore'[c].repeatsLeft = 1
         /\ \A x \in ChoreIDs \ {c} : chore'[x] = chore[x]
<1>1. ~Idle(w) /\ TypeOK /\ Serving(w, "add")
  BY DEF AddCommit, Serving, IInv
<1>2. PICK inp \in Input, d \in RealDate :
        inp = request[w].input /\ d = request[w].date /\ ValidNew(inp)
  BY <1>1, RequestFacts DEF RequestOK, AddOK
<1> DEFINE new == NewRow(inp, d)
<1>3. new.choreType # "interval" => new.repeatsLeft = 1
  BY <1>2, NewRowFacts
<1>4. chore' = [chore EXCEPT ![c] = new] /\ c \notin issued
  BY <1>2 DEF AddCommit, FreshIDs
<1> HIDE DEF new
<1> QED BY <1>1, <1>3, <1>4 DEF TypeOK

LEMMA PostponementWrites ==
  ASSUME IInv, NEW w \in Workers, SnoozeCommit(w) \/ ExpediteCommit(w),
         NEW c \in ChoreIDs, c = request[w].id
  PROVE  /\ Stored(c)
         /\ chore'[c].choreType = chore[c].choreType
         /\ chore'[c].lastCompletion = chore[c].lastCompletion
         /\ chore'[c].repeatsLeft = chore[c].repeatsLeft
         /\ \A x \in ChoreIDs \ {c} : chore'[x] = chore[x]
<1>1. TypeOK
  BY DEF IInv
<1>2. Stored(c) /\ chore[c] \in Row
  BY <1>1, RowType DEF SnoozeCommit, ExpediteCommit, SnoozeRuns, ExpediteRuns, Visible
<1>3. PICK n \in {0, OneDay} : chore' = [chore EXCEPT ![c] = SnoozedRow(@, request[w].date, n)]
  BY DEF SnoozeCommit, ExpediteCommit
<1> DEFINE new == SnoozedRow(chore[c], request[w].date, n)
<1>4. /\ new.choreType = chore[c].choreType
      /\ new.lastCompletion = chore[c].lastCompletion
      /\ new.repeatsLeft = chore[c].repeatsLeft
  BY <1>2, SnoozedRowFacts
<1>5. chore' = [chore EXCEPT ![c] = new]
  BY <1>3
<1> HIDE DEF new
<1> QED BY <1>1, <1>2, <1>4, <1>5 DEF TypeOK

LEMMA EditWrites ==
  ASSUME IInv, NEW w \in Workers, UpdateCommit(w), NEW c \in ChoreIDs, c = request[w].id
  PROVE  /\ Stored(c)
         /\ chore'[c].choreType = chore[c].choreType
         /\ chore'[c].lastCompletion = request[w].input.date
         /\ chore'[c].choreType # "interval" => chore'[c].repeatsLeft = 1
         /\ \A x \in ChoreIDs \ {c} : chore'[x] = chore[x]
<1>1. ~Idle(w) /\ TypeOK /\ Serving(w, "update") /\ Stored(c)
  BY DEF UpdateCommit, Serving, IInv
<1>2. chore[c] \in Row
  BY <1>1, RowType
<1>3. PICK inp \in Input : inp = request[w].input
  BY <1>1, RequestFacts
<1>4. /\ inp.choreType = chore[c].choreType
      /\ inp.choreType # "interval" => inp.repeats = 1
  BY <1>1, <1>3, RequestFacts DEF RequestOK, EditOK
<1> DEFINE new == UpdatedRow(chore[c], inp)
<1>5. /\ new.choreType = chore[c].choreType
      /\ new.lastCompletion = inp.date
      /\ new.repeatsLeft = inp.repeats
  BY <1>2, UpdatedRowFacts
<1>6. chore' = [chore EXCEPT ![c] = new]
  BY <1>3 DEF UpdateCommit
<1> HIDE DEF new
<1> QED BY <1>1, <1>3, <1>4, <1>5, <1>6 DEF TypeOK

LEMMA DeleteWrites ==
  ASSUME TypeOK, NEW w \in Workers, DeleteCommit(w), NEW c \in ChoreIDs, c = request[w].id
  PROVE  ~Stored(c)' /\ \A x \in ChoreIDs \ {c} : chore'[x] = chore[x]
BY DEF DeleteCommit, TypeOK, Stored

\* The chore a step writes is the one its request names.
LEMMA WrittenChore ==
  ASSUME IInv, [Next]_vars, chore' # chore
  PROVE  \E w \in Workers, c \in ChoreIDs :
           /\ c = request[w].id
           /\ \/ AddCommit(w) \/ CompleteCommit(w) \/ SnoozeCommit(w)
              \/ ExpediteCommit(w) \/ UpdateCommit(w) \/ DeleteCommit(w)
<1>1. PICK w \in Workers :
        \/ AddCommit(w) \/ CompleteCommit(w) \/ SnoozeCommit(w)
        \/ ExpediteCommit(w) \/ UpdateCommit(w) \/ DeleteCommit(w)
  BY ChoresWritten
<1>2. ~Idle(w)
  BY <1>1 DEF AddCommit, CompleteCommit, SnoozeCommit, ExpediteCommit, UpdateCommit,
              DeleteCommit, Serving
<1> QED BY <1>1, <1>2, RequestFacts

\* A completion that is acknowledged is stored, unless its COMMIT is lost in the
\* deferred call that drops the error: no race with an edit or a DELETE and no
\* restart can do the same.
THEOREM OnlyALostCommitLies == Spec /\ CommitsSucceed => AcknowledgedCompletionStored
<1>1. ASSUME IInv, [Next]_vars, NEW w \in Workers, ~CommitLost(w),
             Serving(w, "complete"), reply'[w] = "ok"
      PROVE  /\ chore'[request[w].id] # NoChore
             /\ chore'[request[w].id].lastCompletion = request[w].date
  <2>1. ~Idle(w)
    BY <1>1 DEF Serving
  <2>2. PICK c \in ChoreIDs : c = request[w].id
    BY <1>1, <2>1, RequestFacts
  <2>3. TypeOK /\ SecondStep(w)
    BY <1>1, <2>1, WhoAnswers DEF IInv
  <2>4. ~Abort(w)
    BY <1>1, <2>3 DEF Abort, Answer, TypeOK
  <2>5. CompleteCommit(w)
    BY <1>1, <2>3, <2>4 DEF SecondStep, AddCommit, SnoozeCommit, ExpediteCommit,
                            UpdateCommit, DeleteCommit, Serving
  <2> QED BY <1>1, <2>2, <2>5, CompletionWrites DEF Stored
<1>2. IInv /\ [Next]_vars /\ [\A w \in Workers : ~CommitLost(w)]_vars =>
        [\A w \in Workers :
           LET r == request[w] IN
           Serving(w, "complete") /\ reply'[w] = "ok" =>
             /\ chore'[r.id] # NoChore
             /\ chore'[r.id].lastCompletion = r.date]_vars
  BY <1>1
<1> QED BY <1>2, InvariantHolds, PTL DEF Spec, CommitsSucceed, AcknowledgedCompletionStored

\* One step of the next theorem: as long as nobody completes a chore that is done.
LEMMA OneshotStep ==
  ASSUME IInv, OneshotNeverForever, [Next]_vars,
         \A w \in Workers : CompleteCommit(w) => Listed(chore[request[w].id])
  PROVE  OneshotNeverForever'
<1>1. CASE chore' = chore
  BY <1>1 DEF OneshotNeverForever, Stored
<1>2. CASE chore' # chore
  <2>1. PICK w \in Workers, c \in ChoreIDs :
          /\ c = request[w].id
          /\ \/ AddCommit(w) \/ CompleteCommit(w) \/ SnoozeCommit(w)
             \/ ExpediteCommit(w) \/ UpdateCommit(w) \/ DeleteCommit(w)
    BY <1>2, WrittenChore
  <2>2. TypeOK /\ ChoreOK(c)
    BY ByChoreAndRequest
  <2> DEFINE Good == chore'[c].choreType # "interval" => chore'[c].repeatsLeft # Forever
  <2>3. ASSUME \A x \in ChoreIDs \ {c} : chore'[x] = chore[x], Stored(c)' => Good
        PROVE  OneshotNeverForever'
    BY <2>3 DEF OneshotNeverForever, Stored
  <2>4. CASE AddCommit(w) \/ UpdateCommit(w)
    BY <2>1, <2>3, <2>4, AddWrites, EditWrites DEF Forever
  <2>5. CASE SnoozeCommit(w) \/ ExpediteCommit(w)
    BY <2>1, <2>3, <2>5, PostponementWrites DEF OneshotNeverForever
  <2>6. CASE DeleteCommit(w)
    BY <2>1, <2>2, <2>3, <2>6, DeleteWrites
  <2>7. CASE CompleteCommit(w)
    <3>1. /\ Stored(c)
          /\ chore'[c].choreType = chore[c].choreType
          /\ chore'[c].repeatsLeft = RepeatsAfterCompletion(chore[c].repeatsLeft)
          /\ \A x \in ChoreIDs \ {c} : chore'[x] = chore[x]
      BY <2>1, <2>7, CompletionWrites
    <3>2. ASSUME chore[c].choreType # "interval"
          PROVE  chore'[c].repeatsLeft # Forever
      <4>1. chore[c].repeatsLeft \in Repeats /\ chore[c].repeatsLeft <= 1
        BY <2>2, <3>1, <3>2, RowType DEF Row, ChoreOK, RepeatsOnRecord
      <4>2. chore[c].repeatsLeft # 0 /\ chore[c].repeatsLeft # Forever
        BY <2>1, <2>7, <3>1, <3>2 DEF Listed, OneshotNeverForever
      <4> QED BY <3>1, <4>1, <4>2, RepeatsRunOut
    <3> QED BY <2>3, <3>1, <3>2
  <2> QED BY <2>1, <2>4, <2>5, <2>6, <2>7
<1> QED BY <1>1, <1>2

\* A chore that is done once comes to repeat without end only when somebody completes
\* it after it was done and gone from the list (two requests at the same time, or an
\* old page): no edit and no snooze does that.
THEOREM OnlyACompletionTooManyRepeats ==
  Spec /\ OnlyListedCompleted => []OneshotNeverForever
<1>1. Init => OneshotNeverForever
  BY DEF Init, OneshotNeverForever, Stored
<1>2. /\ IInv /\ OneshotNeverForever /\ [Next]_vars
      /\ [\A w \in Workers : CompleteCommit(w) => Listed(chore[request[w].id])]_vars
      => OneshotNeverForever'
  <2>1. CASE UNCHANGED vars
    BY <2>1 DEF OneshotNeverForever, Stored, vars
  <2> QED BY <2>1, OneshotStep
<1> QED BY <1>1, <1>2, InvariantHolds, PTL DEF Spec, OnlyListedCompleted

\* The edits under way carry the last completion as it is.
FreshEdits ==
  \A w \in Workers :
    LET c == request[w].id IN
    Serving(w, "update") /\ Stored(c) /\ chore[c].choreType # "date" =>
      request[w].input.date = chore[c].lastCompletion

NotOvertaken ==
  \A v, w \in Workers :
    CompleteCommit(v) /\ Serving(w, "update") => request[w].id # request[v].id

\* A worker that serves an edit has begun it, or had begun it before.
LEMMA EditUnderWay ==
  ASSUME IInv, [Next]_vars, NEW w \in Workers, Serving(w, "update")'
  PROVE  \/ request'[w] = request[w]
         \/ \E u \in Users, c \in ChoreIDs, inp \in Inputs : BeginUpdate(w, u, c, inp)
<1> SUFFICES ASSUME request'[w] # request[w]
             PROVE  \E u \in Users, c \in ChoreIDs, inp \in Inputs : BeginUpdate(w, u, c, inp)
  OBVIOUS
<1>1. TypeOK /\ request'[w] # NoRequest /\ request'[w].op = "update"
  BY DEF IInv, Serving, Idle
<1>2. ASSUME NEW v \in Workers, NEW a \in {"ok", "error"}, Answer(v, a)
      PROVE  FALSE
  BY <1>1, <1>2, AnswerFacts
<1>3. ASSUME NEW v \in Workers, NEW op, NEW u, NEW c, NEW d, NEW inp,
             Begin(v, op, u, c, d, inp)
      PROVE  v = w /\ op = "update"
  BY <1>1, <1>3 DEF Begin, TypeOK
<1>4. ~Crash /\ ~Tick /\ ~UNCHANGED vars
  BY <1>1 DEF Crash, Tick, vars
<1>5. \A u \in Users, l \in ChoreListIDs :
        ~CreateList(u, l) /\ ~LeaveList(u, l) /\ ~JoinList(u, l)
  BY DEF CreateList, LeaveList, JoinList
<1>6. \A v \in Workers : ~SecondStep(v)
  BY <1>2 DEF SecondStep, AddCommit, CompleteCommit, SnoozeCommit, ExpediteCommit,
              UpdateCommit, DeleteCommit, Abort, CommitLost
<1>7. PICK v \in Workers : FirstStep(v)
  BY <1>4, <1>5, <1>6 DEF Next
<1> QED BY <1>2, <1>3, <1>7 DEF FirstStep, Refuse, DateCompletion, BeginAdd, BeginUpdate,
       BeginComplete, BeginSnooze, BeginExpedite, BeginDelete

LEMMA FreshEditsStep ==
  ASSUME IInv, FreshEdits, [Next]_vars, NotOvertaken
  PROVE  FreshEdits'
<1> SUFFICES ASSUME NEW w \in Workers, Serving(w, "update")', Stored(request[w].id)',
                    chore'[request'[w].id].choreType # "date"
             PROVE  request'[w].input.date = chore'[request'[w].id].lastCompletion
  BY DEF FreshEdits
<1>1. TypeOK
  BY DEF IInv
<1>2. CASE request'[w] = request[w]
  <2>1. Serving(w, "update") /\ ~Idle(w)
    BY <1>2 DEF Serving, Idle
  <2>2. PICK c \in ChoreIDs : c = request[w].id
    BY <2>1, RequestFacts
  <2>3. c \in issued
    BY <2>1, <2>2, RequestFacts DEF RequestOK, EditOK
  <2>4. CASE chore'[c] = chore[c]
    BY <1>2, <2>1, <2>2, <2>4 DEF FreshEdits, Stored
  <2>5. CASE chore'[c] # chore[c]
    <3>1. PICK v \in Workers, x \in ChoreIDs :
            /\ x = request[v].id
            /\ \/ AddCommit(v) \/ CompleteCommit(v) \/ SnoozeCommit(v)
               \/ ExpediteCommit(v) \/ UpdateCommit(v) \/ DeleteCommit(v)
      BY <2>5, WrittenChore
    <3>2. c = request[v].id
      BY <1>1, <2>2, <2>5, <3>1, AddWrites, CompletionWrites, PostponementWrites, EditWrites,
         DeleteWrites
    <3>3. ~AddCommit(v)
      BY <2>3, <3>2, AddWrites
    <3>4. ~CompleteCommit(v)
      BY <2>1, <2>2, <3>2 DEF NotOvertaken
    <3>5. ~DeleteCommit(v)
      BY <1>1, <1>2, <2>2, <3>2, DeleteWrites
    <3>6. CASE SnoozeCommit(v) \/ ExpediteCommit(v)
      <4>1. /\ Stored(c)
            /\ chore'[c].choreType = chore[c].choreType
            /\ chore'[c].lastCompletion = chore[c].lastCompletion
        BY <3>2, <3>6, PostponementWrites
      <4> QED BY <1>2, <2>1, <2>2, <4>1 DEF FreshEdits
    <3>7. CASE UpdateCommit(v)
      <4>1. Serving(v, "update")
        BY <3>7 DEF UpdateCommit
      <4>2. /\ Stored(c)
            /\ chore'[c].choreType = chore[c].choreType
            /\ chore'[c].lastCompletion = request[v].input.date
        BY <3>2, <3>7, EditWrites
      <4>3. request[v].input.date = chore[c].lastCompletion
        BY <1>2, <2>2, <3>2, <4>1, <4>2 DEF FreshEdits
      <4>4. request[w].input.date = chore[c].lastCompletion
        BY <1>2, <2>1, <2>2, <4>2 DEF FreshEdits
      <4> QED BY <1>2, <2>2, <4>2, <4>3, <4>4
    <3> QED BY <3>1, <3>3, <3>4, <3>5, <3>6, <3>7
  <2> QED BY <2>4, <2>5
<1>3. ASSUME NEW u \in Users, NEW c \in ChoreIDs, NEW inp \in Inputs, BeginUpdate(w, u, c, inp)
      PROVE  request'[w].input.date = chore'[request'[w].id].lastCompletion
  <2>1. inp \in Input /\ chore[c] \in Row
    BY <1>1, <1>3, ServiceAssumption, RowType DEF BeginUpdate, Visible
  <2> DEFINE res == Resolve(inp, chore[c])
  <2>2. res \in Input /\ (chore[c].choreType # "date" => res.date = chore[c].lastCompletion)
    BY <1>3, <2>1, ResolveFacts DEF BeginUpdate
  <2>3. Begin(w, "update", u, c, ZeroDate, res)
    BY <1>3 DEF BeginUpdate
  <2> HIDE DEF res
  <2>4. request'[w].id = c /\ request'[w].input = res /\ chore' = chore
    BY <1>1, <2>3 DEF Begin, TypeOK, database
  <2> QED BY <2>2, <2>4
<1> QED BY <1>2, <1>3, EditUnderWay

LEMMA SurvivesStep ==
  ASSUME IInv, FreshEdits, [Next]_vars, NEW c \in ChoreIDs, Stored(c), Stored(c)',
         chore[c].choreType # "date", chore'[c].lastCompletion # chore[c].lastCompletion
  PROVE  event'[c] # event[c]
<1>1. TypeOK /\ ChoreOK(c)
  BY ByChoreAndRequest
<1>2. PICK w \in Workers, x \in ChoreIDs :
        /\ x = request[w].id
        /\ \/ AddCommit(w) \/ CompleteCommit(w) \/ SnoozeCommit(w)
           \/ ExpediteCommit(w) \/ UpdateCommit(w) \/ DeleteCommit(w)
  BY WrittenChore
<1>3. x = c
  BY <1>1, <1>2, AddWrites, CompletionWrites, PostponementWrites, EditWrites, DeleteWrites
<1>4. ~AddCommit(w)
  BY <1>1, <1>2, <1>3, AddWrites DEF ChoreOK
<1>5. ~DeleteCommit(w)
  BY <1>1, <1>2, <1>3, DeleteWrites
<1>6. ~SnoozeCommit(w) /\ ~ExpediteCommit(w)
  BY <1>2, <1>3, PostponementWrites
<1>7. ~UpdateCommit(w)
  <2>1. ASSUME UpdateCommit(w)
        PROVE  FALSE
    <3>1. Serving(w, "update")
      BY <2>1 DEF UpdateCommit
    <3>2. chore'[c].lastCompletion = request[w].input.date
      BY <1>2, <1>3, <2>1, EditWrites
    <3> QED BY <1>2, <1>3, <3>1, <3>2 DEF FreshEdits
  <2> QED BY <2>1
<1> QED BY <1>2, <1>3, <1>4, <1>5, <1>6, <1>7, CompletionWrites

\* A completion is undone only by an edit it overtook, one whose form was resolved
\* before the completion and written after it: edits that meet no completion, deletes,
\* snoozes, two edits at a time and restarts never set the last completion back.
THEOREM OnlyAnOvertakenEditUndoes == Spec /\ EditsNotOvertaken => CompletionSurvivesEdit
<1>1. Init => FreshEdits
  BY DEF Init, FreshEdits, Serving, Idle
<1>2. IInv /\ FreshEdits /\ [Next]_vars /\ [NotOvertaken]_vars => FreshEdits'
  <2>1. CASE UNCHANGED vars
    BY <2>1 DEF FreshEdits, Serving, Idle, Stored, vars
  <2> QED BY <2>1, FreshEditsStep
<1>3. IInv /\ FreshEdits /\ [Next]_vars =>
        [\A c \in ChoreIDs :
           /\ Stored(c) /\ Stored(c)'
           /\ chore[c].choreType # "date"
           /\ chore'[c].lastCompletion # chore[c].lastCompletion
           => event'[c] # event[c]]_vars
  BY SurvivesStep
<1>4. EditsNotOvertaken => [][NotOvertaken]_vars
  BY PTL DEF EditsNotOvertaken, NotOvertaken
<1> QED BY <1>1, <1>2, <1>3, <1>4, InvariantHolds, PTL DEF Spec, CompletionSurvivesEdit

\* In particular a household that sends one request at a time never sees it.
THEOREM CompletionSurvivesOneAtATime == Spec /\ []OneAtATime => CompletionSurvivesEdit
<1>1. OneAtATime =>
        [\A v, w \in Workers :
           CompleteCommit(v) /\ Serving(w, "update") => request[w].id # request[v].id]_vars
  BY DEF OneAtATime, CompleteCommit, Serving
<1> QED BY <1>1, OnlyAnOvertakenEditUndoes, PTL DEF EditsNotOvertaken

=============================================================================
