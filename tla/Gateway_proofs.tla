---------------------------- MODULE Gateway_proofs -----------------------------
(***************************************************************************)
(* That what the user sees of the answers is right (SeenRight of Gateway), *)
(* for each of the eleven adapters, however many attachments and chunks a  *)
(* message has and however the calls end, and that the state has its types *)
(* and a call of the model its budget (TypeOK).                            *)
(*                                                                         *)
(* The argument: the pieces that send() still has to try are in the        *)
(* adapter's order, and all that arrived comes before them; only the last  *)
(* piece to arrive may be the one at hand, which is then tried again.  A   *)
(* retry or a fallback moves "mode" and "tries" on, so that these count    *)
(* the calls that were made for the piece, and it has no more copies than  *)
(* that.  The queue is the end of what was published, so a message that is *)
(* taken is later than all that arrived.  Each adapter call is one of few  *)
(* moves (Goes); that a move keeps the invariant is shown once, for values *)
(* instead of variables, and each adapter only has to make such a move.    *)
(***************************************************************************)
EXTENDS Gateway, SequenceTheorems, TLAPS

(* The invariant *)

Whats == {"media", "chunk", "note"}
PieceSet == [what : Whats, i : Nat]
Messages == [id : Nat, here : BOOLEAN, kind : {"final", "progress", "hint"}, media : Nat, chunks : Nat]
Hands ==
  [id : Nat, todo : Seq(PieceSet), mode : Modes, tries : 0..2, failed : SUBSET Nat, sent : BOOLEAN,
   chunks : Nat]
Seens == [id : Nat, what : Whats, i : Nat]
Sights == [piece : Seens, copies : Nat]
FateRecords == [m : Shapes, is : Fates]

\* What the variables of Outbound hold.
Types(g, out, h, arr, ft) ==
  /\ g \in Configs /\ out \in Seq(Messages) /\ arr \in Seq(Sights) /\ ft \in Seq(FateRecords)
  /\ h # None => h \in Hands /\ h.todo # <<>>

\* The messages that the dispatcher has taken from the queue.
Taken(out, ft) == Len(ft) - Len(out)

\* The queue is the end of what was published, and the message in hand comes right before it.
Line(out, h, ft) ==
  /\ Len(out) <= Len(ft)
  /\ \A k \in 1..Len(out) :
       out[k].id = Taken(out, ft) + k /\ out[k].media = ft[Taken(out, ft) + k].m.media
  /\ \A n \in 1..Len(ft) : ft[n].is = "queued" <=> n > Taken(out, ft)
  /\ h # None => h.id = Taken(out, ft) /\ h.id >= 1 /\ ft[h.id].is = "sending"

\* The order in which the pieces of one message go out; it is stricter than Before, which lets
\* a note stand on either side of an attachment that has its number.
Sooner(a, p, q) ==
  \/ p.what = q.what /\ p.i < q.i
  \/ p.what = "media" /\ q.what = "note" /\ (a \in NoteLast \/ p.i <= q.i)
  \/ p.what = "note" /\ q.what = "media" /\ a \notin NoteLast /\ p.i < q.i
  \/ p.what # q.what /\ (IF a \in TextFirst THEN p.what ELSE q.what) = "chunk"

\* The order in which pieces go out.
Earlier(a, p, q) == p.id < q.id \/ (p.id = q.id /\ Sooner(a, p, q))

Of(id, x) == [id |-> id, what |-> x.what, i |-> x.i]

\* The pieces still to be sent are in order; a note can only be the first.
TodoOK(a, todo) ==
  /\ \A j, k \in 1..Len(todo) : j < k => Sooner(a, todo[j], todo[k])
  /\ \A j \in 1..Len(todo) : j > 1 => todo[j].what # "note"

\* What arrived is in order ...
Row(a, arr) == \A j, k \in 1..Len(arr) : j < k => Earlier(a, arr[j].piece, arr[k].piece)

\* ... and before all that is still to be sent; but the last to arrive may be sent again.
Ahead(a, arr, id, todo) ==
  \A k \in 1..Len(arr), j \in 1..Len(todo) :
    \/ Earlier(a, arr[k].piece, Of(id, todo[j]))
    \/ j = 1 /\ k = Len(arr) /\ arr[k].piece = Of(id, todo[j])

Order(g, h, arr, taken) ==
  /\ \A k \in 1..Len(arr) : arr[k].piece.id <= taken
  /\ Row(g.adapter, arr)
  /\ h # None => TodoOK(g.adapter, h.todo) /\ Ahead(g.adapter, arr, h.id, h.todo)

\* What the mode and the tries of some adapters can be.
ModeOK(g, h) ==
  /\ g.adapter = "telegram" =>
       /\ h.mode \in {"html", "plain"}
       /\ h.todo[1].what # "chunk" => h.mode = "html"
       /\ h.todo[1].what = "note" => h.tries = 0
  /\ g.adapter = "feishu" => (h.mode = "quote" => g.quote)

\* The calls that were already made for the piece in hand, at most.
Made(g, h) ==
  CASE g.adapter = "telegram" -> h.tries + (IF h.mode = "plain" THEN SendRetries ELSE 0)
    [] g.adapter = "discord" -> h.tries
    [] g.adapter = "dingtalk" /\ h.todo[1].what = "media" ->
         (CASE h.mode = "start" -> 0 [] h.mode = "file" -> 2 [] OTHER -> 1)
    [] g.adapter = "feishu" /\ g.quote /\ h.mode # "quote" -> 1
    [] OTHER -> 0

\* MaxCopies, of a configuration.
Limit(g, p) ==
  CASE g.adapter = "telegram" -> (CASE p.what = "chunk" -> 2 * SendRetries [] p.what = "media" -> SendRetries [] OTHER -> 1)
    [] g.adapter = "discord" -> SendRetries
    [] g.adapter = "dingtalk" /\ p.what = "media" -> 3
    [] g.adapter = "feishu" /\ g.quote -> 2
    [] OTHER -> 1

\* No piece has more copies than calls were made for it.
Copies(g, h, arr) ==
  /\ h # None => ModeOK(g, h)
  /\ \A k \in 1..Len(arr) :
       /\ arr[k].copies <= Limit(g, arr[k].piece)
       /\ h # None /\ arr[k].piece = Of(h.id, h.todo[1]) => arr[k].copies <= Made(g, h)

Told(arr, n, i) ==
  \E k \in 1..Len(arr) : LET p == arr[k].piece IN p.id = n /\ p.i = i /\ p.what \in {"media", "note"}
Coming(todo, i) == \E j \in 1..Len(todo) : todo[j].i = i /\ todo[j].what \in {"media", "note"}

\* Telegram: an attachment, or its note, has arrived or is still to be sent.
Cover(g, h, arr, ft) ==
  g.adapter = "telegram" =>
    \A n \in 1..Len(ft) : \A i \in 1..ft[n].m.media :
      /\ ft[n].is = "done" => Told(arr, n, i)
      /\ h # None /\ n = h.id => Told(arr, n, i) \/ Coming(h.todo, i)

OutOK(g, out, h, arr, ft) ==
  /\ Types(g, out, h, arr, ft)
  /\ Line(out, h, ft)
  /\ Order(g, h, arr, Taken(out, ft))
  /\ Copies(g, h, arr)
  /\ Cover(g, h, arr, ft)

OutInv == OutOK(config, outbound, hand, arrived, fate) /\ up \in BOOLEAN

\* The call of the model belongs to the stage; there is a call left for one that waits.
CallInv ==
  /\ run \in Runs /\ stage \in Stages /\ call \in CallSet \cup {None}
  /\ (call # None) = (stage \in {"decide", "turn", "evaluate"})
  /\ call # None /\ call.waits => call.calls <= RetryDelays

IInv == OutInv /\ CallInv

-----------------------------------------------------------------------------
(* Pieces *)

\* Nothing goes out before itself.
LEMMA NotEarlier ==
  ASSUME NEW a, NEW p \in Seens
  PROVE  ~Earlier(a, p, p)
BY DEF Earlier, Sooner, Seens

LEMMA OfIs ==
  ASSUME NEW id \in Nat, NEW x \in PieceSet
  PROVE  Of(id, x) \in Seens /\ Of(id, x).id = id /\ Of(id, x).what = x.what /\ Of(id, x).i = x.i
BY DEF Of, PieceSet, Seens

LEMMA NoteIs ==
  ASSUME NEW i \in Nat
  PROVE  Note(i) \in PieceSet /\ Note(i).what = "note" /\ Note(i).i = i
BY DEF Note, PieceSet, Whats

\* What goes out up to an attachment goes out before the note for it.
LEMMA BeforeNote ==
  ASSUME NEW a, NEW p \in Seens, NEW x \in PieceSet, NEW y \in PieceSet, NEW id \in Nat,
         x.what = "media", y.what = "note", a \in NoteLast \/ y.i = x.i,
         Earlier(a, p, Of(id, x)) \/ p = Of(id, x)
  PROVE  Earlier(a, p, Of(id, y))
BY OfIs DEF Earlier, Sooner, NoteLast, TextFirst, PieceSet, Seens

\* The note for an attachment goes out before all that comes after the attachment.
LEMMA NoteBefore ==
  ASSUME NEW a, NEW x \in PieceSet, NEW y \in PieceSet, NEW z \in PieceSet,
         x.what = "media", y.what = "note", y.i = x.i, a \notin NoteLast,
         z.what # "note", Sooner(a, x, z)
  PROVE  Sooner(a, y, z)
BY DEF Sooner, NoteLast, TextFirst, PieceSet

\* What arrived goes out before all of what is to be sent.
Fresh(a, arr, id, todo) ==
  \A k \in 1..Len(arr), j \in 1..Len(todo) : Earlier(a, arr[k].piece, Of(id, todo[j]))

LEMMA SightIs ==
  ASSUME NEW arr \in Seq(Sights), NEW k \in 1..Len(arr)
  PROVE  arr[k].piece \in Seens /\ arr[k].copies \in Nat
<1>1. arr[k] \in Sights
  BY ElementOfSeq
<1> QED
  BY <1>1 DEF Sights

LEMMA TodoIs ==
  ASSUME NEW todo \in Seq(PieceSet), NEW j \in 1..Len(todo)
  PROVE  todo[j] \in PieceSet
BY ElementOfSeq

LEMMA FreshAhead ==
  ASSUME NEW a, NEW arr \in Seq(Sights), NEW id \in Nat, NEW todo \in Seq(PieceSet), todo # <<>>,
         Fresh(a, arr, id, todo)
  PROVE  /\ Ahead(a, arr, id, todo)
         /\ \A k \in 1..Len(arr) : arr[k].piece # Of(id, todo[1])
<1>1. Ahead(a, arr, id, todo)
  BY DEF Fresh, Ahead
<1>2. ASSUME NEW k \in 1..Len(arr)
      PROVE  arr[k].piece # Of(id, todo[1])
  <2>1. 1 \in 1..Len(todo)
    BY EmptySeq, LenProperties
  <2>2. Earlier(a, arr[k].piece, Of(id, todo[1]))
    BY <2>1 DEF Fresh
  <2>3. arr[k].piece \in Seens
    BY SightIs
  <2> QED
    BY <2>2, <2>3, NotEarlier
<1> QED
  BY <1>1, <1>2

\* The ways in which send() goes on to another piece: the next one, the end, the note for the
\* attachment at hand, or the note for all of them.
Move(a, todo, todo2) ==
  \/ todo2 = Tail(todo)
  \/ todo2 = <<>>
  \/ todo[1].what = "media" /\ a \notin NoteLast /\ todo2 = <<Note(todo[1].i)>> \o Tail(todo)
  \/ todo[1].what = "media" /\ a \in NoteLast /\ todo2 = <<Note(1)>>

LEMMA TailFresh ==
  ASSUME NEW a, NEW arr \in Seq(Sights), NEW id \in Nat, NEW todo \in Seq(PieceSet), todo # <<>>,
         TodoOK(a, todo), Ahead(a, arr, id, todo)
  PROVE  /\ Tail(todo) \in Seq(PieceSet)
         /\ TodoOK(a, Tail(todo))
         /\ Fresh(a, arr, id, Tail(todo))
<1>1. /\ Tail(todo) \in Seq(PieceSet) /\ Len(Tail(todo)) = Len(todo) - 1 /\ Len(todo) \in Nat /\ Len(todo) >= 1
      /\ \A j \in 1..Len(Tail(todo)) : Tail(todo)[j] = todo[j + 1]
  BY HeadTailProperties, EmptySeq, LenProperties
<1>2. \A j \in 1..Len(Tail(todo)) : j + 1 \in 1..Len(todo) /\ j + 1 > 1 /\ j + 1 # 1
  BY <1>1
<1>3. TodoOK(a, Tail(todo))
  <2>1. ASSUME NEW j \in 1..Len(Tail(todo)), NEW k \in 1..Len(Tail(todo)), j < k
        PROVE  Sooner(a, Tail(todo)[j], Tail(todo)[k])
    <3>1. j + 1 < k + 1
      BY <1>1, <2>1
    <3> QED
      BY <3>1, <1>1, <1>2, Zenon DEF TodoOK
  <2>2. ASSUME NEW j \in 1..Len(Tail(todo)), j > 1
        PROVE  Tail(todo)[j].what # "note"
    BY <1>1, <1>2, Zenon DEF TodoOK
  <2> QED
    BY <2>1, <2>2 DEF TodoOK
<1>4. Fresh(a, arr, id, Tail(todo))
  BY <1>1, <1>2, Zenon DEF Ahead, Fresh
<1> QED
  BY <1>1, <1>3, <1>4

\* A list that starts with a piece and goes on with another list.
LEMMA ConsIs ==
  ASSUME NEW x \in PieceSet, NEW rest \in Seq(PieceSet)
  PROVE  /\ <<x>> \o rest \in Seq(PieceSet)
         /\ Len(<<x>> \o rest) = Len(rest) + 1
         /\ (<<x>> \o rest)[1] = x
         /\ \A j \in 1..Len(rest) : (<<x>> \o rest)[j + 1] = rest[j]
         /\ <<x>> \o rest # <<>>
<1>1. <<x>> \in Seq(PieceSet) /\ Len(<<x>>) = 1 /\ <<x>>[1] = x
  OBVIOUS
<1>2. Len(rest) \in Nat
  BY LenProperties
<1>3. /\ <<x>> \o rest \in Seq(PieceSet)
      /\ Len(<<x>> \o rest) = 1 + Len(rest)
      /\ \A i \in 1..(1 + Len(rest)) : (<<x>> \o rest)[i] = IF i <= 1 THEN <<x>>[i] ELSE rest[i - 1]
  BY <1>1, ConcatProperties
<1> QED
  BY <1>1, <1>2, <1>3, EmptySeq

LEMMA NoteFresh ==
  ASSUME NEW a, NEW arr \in Seq(Sights), NEW id \in Nat, NEW todo \in Seq(PieceSet), todo # <<>>,
         TodoOK(a, todo), Ahead(a, arr, id, todo), todo[1].what = "media", a \notin NoteLast
  PROVE  /\ <<Note(todo[1].i)>> \o Tail(todo) \in Seq(PieceSet)
         /\ TodoOK(a, <<Note(todo[1].i)>> \o Tail(todo))
         /\ Fresh(a, arr, id, <<Note(todo[1].i)>> \o Tail(todo))
<1> DEFINE x == todo[1]
           y == Note(x.i)
           rest == Tail(todo)
           new == <<y>> \o rest
<1>1. Len(todo) \in Nat /\ Len(todo) >= 1 /\ 1 \in 1..Len(todo)
  BY EmptySeq, LenProperties
<1>2. x \in PieceSet /\ x.i \in Nat
  BY <1>1, TodoIs DEF PieceSet
<1>3. y \in PieceSet /\ y.what = "note" /\ y.i = x.i
  BY <1>2, NoteIs
<1>4. /\ rest \in Seq(PieceSet) /\ TodoOK(a, rest) /\ Fresh(a, arr, id, rest)
  BY TailFresh
<1>5. Len(rest) = Len(todo) - 1 /\ \A j \in 1..Len(rest) : rest[j] = todo[j + 1] /\ j + 1 \in 1..Len(todo) /\ j + 1 > 1
  BY <1>1, HeadTailProperties
<1>6. /\ new \in Seq(PieceSet) /\ Len(new) = Len(rest) + 1 /\ new[1] = y
      /\ \A j \in 1..Len(rest) : new[j + 1] = rest[j]
  BY <1>3, <1>4, ConsIs
<1> HIDE DEF x, y, rest, new
<1>7. Len(rest) \in Nat
  BY <1>4, LenProperties
<1>8. \A j \in 1..Len(new) : j = 1 \/ (j - 1 \in 1..Len(rest) /\ new[j] = rest[j - 1])
  <2> TAKE j \in 1..Len(new)
  <2>1. j = 1 \/ (j - 1 \in 1..Len(rest) /\ (j - 1) + 1 = j)
    BY <1>6, <1>7
  <2> QED
    BY <2>1, <1>6
<1>9. \A j \in 1..Len(rest) : Sooner(a, y, rest[j]) /\ rest[j].what # "note"
  <2> TAKE j \in 1..Len(rest)
  <2>1. rest[j] \in PieceSet /\ rest[j].what # "note" /\ Sooner(a, x, rest[j])
    BY <1>1, <1>4, <1>5, TodoIs DEF TodoOK, x
  <2> QED
    BY <2>1, <1>2, <1>3, NoteBefore DEF x
<1>10. TodoOK(a, new)
  <2>1. ASSUME NEW j \in 1..Len(new), NEW k \in 1..Len(new), j < k
        PROVE  Sooner(a, new[j], new[k])
    <3>1. k - 1 \in 1..Len(rest) /\ new[k] = rest[k - 1]
      BY <2>1, <1>8
    <3>2. CASE j = 1
      BY <3>1, <3>2, <1>6, <1>9
    <3>3. CASE j # 1
      <4>1. j - 1 \in 1..Len(rest) /\ new[j] = rest[j - 1] /\ j - 1 < k - 1
        BY <2>1, <3>3, <1>8
      <4> QED
        BY <4>1, <3>1, <1>4 DEF TodoOK
    <3> QED
      BY <3>2, <3>3
  <2>2. ASSUME NEW j \in 1..Len(new), j > 1
        PROVE  new[j].what # "note"
    <3>1. j # 1
      BY <2>2
    <3> QED
      BY <3>1, <1>8, <1>9
  <2> QED
    BY <2>1, <2>2 DEF TodoOK
<1>11. Fresh(a, arr, id, new)
  <2>1. ASSUME NEW k \in 1..Len(arr), NEW j \in 1..Len(new)
        PROVE  Earlier(a, arr[k].piece, Of(id, new[j]))
    <3>1. CASE j = 1
      <4>1. Earlier(a, arr[k].piece, Of(id, x)) \/ arr[k].piece = Of(id, x)
        BY <1>1 DEF Ahead, x
      <4>2. arr[k].piece \in Seens
        BY SightIs
      <4> QED
        BY <4>1, <4>2, <1>2, <1>3, <1>6, <3>1, BeforeNote DEF x
    <3>2. CASE j # 1
      BY <3>2, <1>4, <1>8 DEF Fresh
    <3> QED
      BY <3>1, <3>2
  <2> QED
    BY <2>1 DEF Fresh
<1> QED
  BY <1>6, <1>10, <1>11 DEF x, y, rest, new

LEMMA LastFresh ==
  ASSUME NEW a, NEW arr \in Seq(Sights), NEW id \in Nat, NEW todo \in Seq(PieceSet), todo # <<>>,
         Ahead(a, arr, id, todo), todo[1].what = "media", a \in NoteLast
  PROVE  /\ <<Note(1)>> \in Seq(PieceSet)
         /\ TodoOK(a, <<Note(1)>>)
         /\ Fresh(a, arr, id, <<Note(1)>>)
<1> DEFINE x == todo[1]
           y == Note(1)
           new == <<y>>
<1>1. Len(todo) \in Nat /\ Len(todo) >= 1 /\ 1 \in 1..Len(todo)
  BY EmptySeq, LenProperties
<1>2. x \in PieceSet
  BY <1>1, TodoIs
<1>3. y \in PieceSet /\ y.what = "note"
  BY NoteIs
<1>4. new \in Seq(PieceSet) /\ Len(new) = 1 /\ new[1] = y
  BY <1>3
<1> HIDE DEF x, y, new
<1>5. \A j \in 1..Len(new) : j = 1
  BY <1>4
<1>6. TodoOK(a, new)
  BY <1>5 DEF TodoOK
<1>7. ASSUME NEW k \in 1..Len(arr), NEW j \in 1..Len(new)
      PROVE  Earlier(a, arr[k].piece, Of(id, new[j]))
  <2>1. Earlier(a, arr[k].piece, Of(id, x)) \/ arr[k].piece = Of(id, x)
    BY <1>1 DEF Ahead, x
  <2>2. arr[k].piece \in Seens
    BY SightIs
  <2>3. x.what = "media"
    BY DEF x
  <2>4. Earlier(a, arr[k].piece, Of(id, y))
    BY <2>1, <2>2, <2>3, <1>2, <1>3, BeforeNote
  <2> QED
    BY <2>4, <1>4, <1>5
<1> QED
  BY <1>4, <1>6, <1>7 DEF Fresh, new, y

LEMMA EmptyFresh ==
  ASSUME NEW a, NEW arr, NEW id
  PROVE  <<>> \in Seq(PieceSet) /\ TodoOK(a, <<>>) /\ Fresh(a, arr, id, <<>>)
<1>1. <<>> \in Seq(PieceSet) /\ Len(<<>>) = 0
  BY EmptySeq
<1> QED
  BY <1>1 DEF TodoOK, Fresh

LEMMA Moved ==
  ASSUME NEW a, NEW arr \in Seq(Sights), NEW id \in Nat, NEW todo \in Seq(PieceSet), NEW todo2, todo # <<>>,
         TodoOK(a, todo), Ahead(a, arr, id, todo), Move(a, todo, todo2)
  PROVE  todo2 \in Seq(PieceSet) /\ TodoOK(a, todo2) /\ Fresh(a, arr, id, todo2)
<1>1. CASE todo2 = Tail(todo)
  BY <1>1, TailFresh
<1>2. CASE todo2 = <<>>
  BY <1>2, EmptyFresh
<1>3. CASE todo[1].what = "media" /\ a \notin NoteLast /\ todo2 = <<Note(todo[1].i)>> \o Tail(todo)
  BY <1>3, NoteFresh
<1>4. CASE todo[1].what = "media" /\ a \in NoteLast /\ todo2 = <<Note(1)>>
  BY <1>4, LastFresh
<1> QED
  BY <1>1, <1>2, <1>3, <1>4, Zenon DEF Move

-----------------------------------------------------------------------------
(* What arrives *)

\* Another copy of the last piece to arrive is seen, or a piece that had not arrived.
Grew(arr, p, arr2) ==
  /\ arr2 \in Seq(Sights)
  /\ \A k \in 1..Len(arr) : arr2[k].piece = arr[k].piece
  /\ \/ /\ Len(arr2) = Len(arr) /\ Len(arr) >= 1 /\ arr[Len(arr)].piece = p
        /\ arr2[Len(arr)].copies = arr[Len(arr)].copies + 1
        /\ \A k \in 1..Len(arr) : k < Len(arr) => arr2[k].copies = arr[k].copies
     \/ /\ Len(arr2) = Len(arr) + 1 /\ (Len(arr) >= 1 => arr[Len(arr)].piece # p)
        /\ arr2[Len(arr2)].piece = p /\ arr2[Len(arr2)].copies = 1
        /\ \A k \in 1..Len(arr) : arr2[k].copies = arr[k].copies

\* Shown, of rigid values.
ShownIn(arr, p) ==
  IF arr # <<>> /\ Last(arr).piece = p
  THEN [arr EXCEPT ![Len(arr)].copies = @ + 1]
  ELSE Append(arr, [piece |-> p, copies |-> 1])

LEMMA SightAgain ==
  ASSUME NEW x \in Sights
  PROVE  /\ [x EXCEPT !.copies = @ + 1] \in Sights
         /\ [x EXCEPT !.copies = @ + 1].piece = x.piece
         /\ [x EXCEPT !.copies = @ + 1].copies = x.copies + 1
BY DEF Sights

LEMMA ShownGrew ==
  ASSUME NEW arr \in Seq(Sights), NEW p \in Seens
  PROVE  Grew(arr, p, ShownIn(arr, p))
<1> DEFINE n == Len(arr)
<1>1. n \in Nat /\ (arr # <<>> => n >= 1) /\ (arr = <<>> => n = 0)
  BY EmptySeq, LenProperties
<1>2. \A k \in 1..n : arr[k] \in Sights
  BY ElementOfSeq
<1>3. CASE arr # <<>> /\ Last(arr).piece = p
  <2> DEFINE e == [arr[n] EXCEPT !.copies = @ + 1]
             new == [arr EXCEPT ![n] = e]
  <2>1. n \in 1..n /\ arr[n] \in Sights /\ arr[n].piece = p
    BY <1>1, <1>2, <1>3 DEF Last
  <2>2. e \in Sights /\ e.piece = p /\ e.copies = arr[n].copies + 1
    BY <2>1, SightAgain
  <2>3. ShownIn(arr, p) = new
    BY <1>3 DEF ShownIn
  <2> HIDE DEF e
  <2>4. /\ new \in Seq(Sights) /\ Len(new) = n
        /\ \A k \in 1..n : new[k] = IF k = n THEN e ELSE arr[k]
    BY <2>1, <2>2, ExceptSeq
  <2> HIDE DEF new
  <2> QED
    BY <1>1, <2>1, <2>2, <2>3, <2>4 DEF Grew
<1>4. CASE ~(arr # <<>> /\ Last(arr).piece = p)
  <2> DEFINE e == [piece |-> p, copies |-> 1]
             new == Append(arr, e)
  <2>1. e \in Sights /\ e.piece = p /\ e.copies = 1
    BY DEF Sights
  <2>2. ShownIn(arr, p) = new
    BY <1>4 DEF ShownIn
  <2> HIDE DEF e
  <2>3. /\ new \in Seq(Sights) /\ Len(new) = n + 1 /\ new[n + 1] = e
        /\ \A k \in 1..n : new[k] = arr[k]
    BY <1>1, <2>1, AppendProperties
  <2>4. n >= 1 => arr[n].piece # p
    BY <1>1, <1>4 DEF Last
  <2> HIDE DEF new
  <2> QED
    BY <1>1, <2>1, <2>2, <2>3, <2>4 DEF Grew
<1> QED
  BY <1>3, <1>4

\* A piece that arrives while it is at hand keeps what arrived in order.
LEMMA GrowOrder ==
  ASSUME NEW a, NEW arr \in Seq(Sights), NEW arr2, NEW id \in Nat, NEW todo \in Seq(PieceSet), todo # <<>>,
         Row(a, arr), TodoOK(a, todo), Ahead(a, arr, id, todo), Grew(arr, Of(id, todo[1]), arr2)
  PROVE  Row(a, arr2) /\ Ahead(a, arr2, id, todo)
<1> DEFINE p == Of(id, todo[1])
           n == Len(arr)
<1>1. n \in Nat /\ Len(todo) \in Nat /\ 1 \in 1..Len(todo) /\ arr2 \in Seq(Sights)
  BY EmptySeq, LenProperties DEF Grew
<1>2. \A k \in 1..n : arr2[k].piece = arr[k].piece
  BY DEF Grew
<1>3. CASE Len(arr2) = n
  <2>1. Row(a, arr2)
    BY <1>2, <1>3 DEF Row
  <2>2. Ahead(a, arr2, id, todo)
    BY <1>2, <1>3 DEF Ahead
  <2> QED
    BY <2>1, <2>2
<1>4. CASE Len(arr2) # n
  <2>1. Len(arr2) = n + 1 /\ (n >= 1 => arr[n].piece # p) /\ arr2[n + 1].piece = p
    BY <1>1, <1>4 DEF Grew
  <2> HIDE DEF p
  <2>2. \A k \in 1..n : Earlier(a, arr[k].piece, p)
    BY <1>1, <2>1 DEF Ahead, p
  <2>3. \A k \in 1..Len(arr2) : k = n + 1 \/ k \in 1..n
    BY <1>1, <2>1
  <2>4. Row(a, arr2)
    <3>1. ASSUME NEW j \in 1..Len(arr2), NEW k \in 1..Len(arr2), j < k
          PROVE  Earlier(a, arr2[j].piece, arr2[k].piece)
      <4>1. j \in 1..n
        BY <1>1, <2>1, <3>1
      <4>2. CASE k = n + 1
        BY <4>1, <4>2, <1>2, <2>1, <2>2
      <4>3. CASE k \in 1..n
        BY <4>1, <4>3, <1>2, <3>1 DEF Row
      <4> QED
        BY <4>2, <4>3, <2>3
    <3> QED
      BY <3>1 DEF Row
  <2>5. Ahead(a, arr2, id, todo)
    <3>1. ASSUME NEW k \in 1..Len(arr2), NEW j \in 1..Len(todo)
          PROVE  \/ Earlier(a, arr2[k].piece, Of(id, todo[j]))
                 \/ j = 1 /\ k = Len(arr2) /\ arr2[k].piece = Of(id, todo[j])
      <4>1. CASE k = n + 1 /\ j = 1
        BY <4>1, <2>1 DEF p
      <4>2. CASE k = n + 1 /\ j # 1
        <5>1. Sooner(a, todo[1], todo[j]) /\ todo[1] \in PieceSet /\ todo[j] \in PieceSet
          BY <1>1, <4>2, TodoIs DEF TodoOK
        <5>2. Earlier(a, p, Of(id, todo[j]))
          BY <5>1, OfIs DEF Earlier, Sooner, p
        <5> QED
          BY <5>2, <4>2, <2>1
      <4>3. CASE k \in 1..n /\ j = 1
        BY <4>3, <1>2, <2>2 DEF p
      <4>4. CASE k \in 1..n /\ j # 1
        BY <4>4, <1>2 DEF Ahead
      <4> QED
        BY <4>1, <4>2, <4>3, <4>4, <2>3
    <3> QED
      BY <3>1 DEF Ahead
  <2> QED
    BY <2>4, <2>5
<1> QED
  BY <1>3, <1>4

-----------------------------------------------------------------------------
(* A call for the piece at hand *)

\* What was seen of the piece at hand before the call and after it.
Arrived(g, h, arr, arr2) ==
  LET p == Of(h.id, h.todo[1])
  IN  arr2 = arr \/ (Grew(arr, p, arr2) /\ Made(g, h) < Limit(g, p))

LEMMA HandIs ==
  ASSUME NEW h \in Hands, h.todo # <<>>
  PROVE  /\ h.id \in Nat /\ h.todo \in Seq(PieceSet) /\ h.todo[1] \in PieceSet
         /\ 1 \in 1..Len(h.todo) /\ Of(h.id, h.todo[1]) \in Seens
<1>1. h.id \in Nat /\ h.todo \in Seq(PieceSet)
  BY DEF Hands
<1>2. 1 \in 1..Len(h.todo)
  BY <1>1, EmptySeq, LenProperties
<1> QED
  BY <1>1, <1>2, TodoIs, OfIs

LEMMA MadeIs ==
  ASSUME NEW g, NEW h \in Hands
  PROVE  Made(g, h) \in Nat /\ \A p : Limit(g, p) \in Nat /\ Limit(g, p) >= 1
BY DEF Hands, Made, Limit, SendRetries

\* Whatever the call, what arrived stays in order and has no more copies than calls were made.
LEMMA ArrivedKeeps ==
  ASSUME NEW g, NEW out, NEW h, NEW arr, NEW ft, NEW arr2,
         OutOK(g, out, h, arr, ft), h # None, Arrived(g, h, arr, arr2)
  PROVE  /\ arr2 \in Seq(Sights)
         /\ \A k \in 1..Len(arr2) : arr2[k].piece.id <= Taken(out, ft)
         /\ Row(g.adapter, arr2)
         /\ Ahead(g.adapter, arr2, h.id, h.todo)
         /\ \A k \in 1..Len(arr2) : arr2[k].copies <= Limit(g, arr2[k].piece)
         /\ \A n, i : Told(arr, n, i) => Told(arr2, n, i)
<1> DEFINE p == Of(h.id, h.todo[1])
           n == Len(arr)
<1>1. /\ h \in Hands /\ h.todo # <<>> /\ arr \in Seq(Sights)
      /\ h.id = Taken(out, ft)
      /\ \A k \in 1..n : arr[k].piece.id <= Taken(out, ft)
      /\ Row(g.adapter, arr) /\ TodoOK(g.adapter, h.todo) /\ Ahead(g.adapter, arr, h.id, h.todo)
      /\ \A k \in 1..n : arr[k].copies <= Limit(g, arr[k].piece)
      /\ \A k \in 1..n : arr[k].piece = p => arr[k].copies <= Made(g, h)
  BY Zenon DEF OutOK, Types, Line, Order, Copies
<1>2. CASE arr2 = arr
  BY <1>1, <1>2
<1>3. CASE Grew(arr, p, arr2) /\ Made(g, h) < Limit(g, p)
  <2>1. h.id \in Nat /\ h.todo \in Seq(PieceSet) /\ p \in Seens /\ p.id = h.id
    BY <1>1, HandIs, OfIs
  <2>2. Row(g.adapter, arr2) /\ Ahead(g.adapter, arr2, h.id, h.todo)
    BY <1>1, <1>3, <2>1, GrowOrder
  <2>3. arr2 \in Seq(Sights) /\ n \in Nat
    BY <1>1, <1>3, LenProperties DEF Grew
  <2>4. \A k \in 1..Len(arr2) : (k \in 1..n /\ arr2[k].piece = arr[k].piece) \/ arr2[k].piece = p
    <3> TAKE k \in 1..Len(arr2)
    <3>1. \A l \in 1..n : arr2[l].piece = arr[l].piece
      BY <1>3 DEF Grew
    <3>2. Len(arr2) = n \/ (Len(arr2) = n + 1 /\ arr2[Len(arr2)].piece = p)
      BY <1>3 DEF Grew
    <3>3. k \in 1..n \/ k = Len(arr2)
      BY <2>3, <3>2
    <3> HIDE DEF p
    <3> QED
      BY <2>3, <3>1, <3>2, <3>3
  <2>5. \A k \in 1..Len(arr2) : arr2[k].piece.id <= Taken(out, ft)
    <3> HIDE DEF p
    <3>1. h.id <= Taken(out, ft)
      BY <1>1, <2>1
    <3> QED
      BY <1>1, <2>1, <2>4, <3>1, Zenon
  <2>6. \A k \in 1..Len(arr2) : arr2[k].copies <= Limit(g, arr2[k].piece)
    <3> TAKE k \in 1..Len(arr2)
    <3>1. \A l \in 1..n : arr[l].copies \in Nat /\ arr[l].piece \in Seens
      BY <1>1, SightIs
    <3>2. Made(g, h) \in Nat /\ \A q : Limit(g, q) \in Nat /\ Limit(g, q) >= 1
      BY <1>1, MadeIs
    <3>3. \A l \in 1..n : arr2[l].piece = arr[l].piece
      BY <1>3 DEF Grew
    <3> HIDE DEF p
    <3>4. CASE /\ Len(arr2) = n /\ n >= 1 /\ arr[n].piece = p
               /\ arr2[n].copies = arr[n].copies + 1
               /\ \A l \in 1..n : l < n => arr2[l].copies = arr[l].copies
      <4>1. n \in 1..n /\ k \in 1..n /\ (k = n \/ k < n)
        BY <2>3, <3>4
      <4>2. CASE k = n
        <5>1. arr[n].copies \in Nat /\ arr[n].copies <= Made(g, h) /\ arr2[k].piece = p
          BY <1>1, <3>1, <3>3, <3>4, <4>1, <4>2 DEF p
        <5>2. arr[n].copies + 1 <= Limit(g, p)
          BY <5>1, <3>2, <1>3 DEF p
        <5> QED
          BY <5>1, <5>2, <3>4, <4>2
      <4>3. CASE k < n
        BY <4>1, <4>3, <3>3, <3>4, <1>1
      <4> QED
        BY <4>1, <4>2, <4>3
    <3>5. CASE /\ Len(arr2) = n + 1 /\ (n >= 1 => arr[n].piece # p)
               /\ arr2[Len(arr2)].piece = p /\ arr2[Len(arr2)].copies = 1
               /\ \A l \in 1..n : arr2[l].copies = arr[l].copies
      <4>1. k \in 1..n \/ k = Len(arr2)
        BY <2>3, <3>5
      <4> QED
        BY <4>1, <3>2, <3>3, <3>5, <1>1
    <3> QED
      BY <3>4, <3>5, <1>3, Zenon DEF Grew, p
  <2>7. ASSUME NEW m, NEW i, Told(arr, m, i)
        PROVE  Told(arr2, m, i)
    <3>1. PICK k \in 1..n : arr[k].piece.id = m /\ arr[k].piece.i = i /\ arr[k].piece.what \in {"media", "note"}
      BY <2>7 DEF Told
    <3>2. k \in 1..Len(arr2) /\ arr2[k].piece = arr[k].piece
      BY <1>3, <2>3, <3>1 DEF Grew
    <3> QED
      BY <3>1, <3>2 DEF Told
  <2> QED
    BY <2>2, <2>3, <2>5, <2>6, <2>7
<1> QED
  BY <1>2, <1>3 DEF Arrived

\* What becomes of one message is noted.
LEMMA FateIs ==
  ASSUME NEW ft \in Seq(FateRecords), NEW n \in 1..Len(ft), NEW v \in Fates
  PROVE  /\ [ft EXCEPT ![n].is = v] \in Seq(FateRecords)
         /\ Len([ft EXCEPT ![n].is = v]) = Len(ft)
         /\ \A k \in 1..Len(ft) : /\ [ft EXCEPT ![n].is = v][k].m = ft[k].m
                                  /\ [ft EXCEPT ![n].is = v][k].is = IF k = n THEN v ELSE ft[k].is
<1> DEFINE e == [ft[n] EXCEPT !.is = v]
<1>1. ft[n] \in FateRecords /\ \A k \in 1..Len(ft) : ft[k] \in FateRecords
  BY ElementOfSeq
<1>2. e \in FateRecords /\ e.m = ft[n].m /\ e.is = v
  BY <1>1 DEF FateRecords
<1> HIDE DEF e
<1>3. /\ [ft EXCEPT ![n] = e] \in Seq(FateRecords)
      /\ Len([ft EXCEPT ![n] = e]) = Len(ft)
      /\ \A k \in 1..Len(ft) : [ft EXCEPT ![n] = e][k] = IF k = n THEN e ELSE ft[k]
  BY <1>2, ExceptSeq
<1>4. [ft EXCEPT ![n].is = v] = [ft EXCEPT ![n] = e]
  BY DEF e
<1> QED
  BY <1>2, <1>3, <1>4

\* The message at hand, and the end of it.
LEMMA InHand ==
  ASSUME NEW g, NEW out, NEW h, NEW arr, NEW ft, OutOK(g, out, h, arr, ft), h # None
  PROVE  /\ out \in Seq(Messages) /\ Len(out) \in Nat /\ Len(ft) \in Nat /\ Len(out) <= Len(ft)
         /\ ft \in Seq(FateRecords) /\ h.id \in 1..Len(ft) /\ h.id = Taken(out, ft)
<1>1. /\ out \in Seq(Messages) /\ ft \in Seq(FateRecords) /\ Len(out) <= Len(ft)
      /\ h.id = Taken(out, ft) /\ h.id >= 1 /\ h \in Hands
  BY Zenon DEF OutOK, Types, Line
<1>2. Len(out) \in Nat /\ Len(ft) \in Nat
  BY <1>1, LenProperties
<1>3. h.id \in 1..Len(ft)
  BY <1>1, <1>2 DEF Taken
<1> QED
  BY <1>1, <1>2, <1>3

LEMMA EndKeeps ==
  ASSUME NEW g, NEW out, NEW h, NEW arr, NEW ft, NEW arr2, NEW v,
         OutOK(g, out, h, arr, ft), h # None, Arrived(g, h, arr, arr2), v = "done" \/ v = "failed",
         g.adapter = "telegram" /\ v = "done" => \A i \in 1..ft[h.id].m.media : Told(arr2, h.id, i)
  PROVE  OutOK(g, out, None, arr2, [ft EXCEPT ![h.id].is = v])
<1> DEFINE t == Taken(out, ft)
           ft2 == [ft EXCEPT ![h.id].is = v]
<1>1. /\ out \in Seq(Messages) /\ Len(out) \in Nat /\ Len(ft) \in Nat /\ Len(out) <= Len(ft)
      /\ ft \in Seq(FateRecords) /\ h.id \in 1..Len(ft) /\ h.id = t
  BY InHand
<1>2. /\ arr2 \in Seq(Sights)
      /\ \A k \in 1..Len(arr2) : arr2[k].piece.id <= t
      /\ Row(g.adapter, arr2)
      /\ \A k \in 1..Len(arr2) : arr2[k].copies <= Limit(g, arr2[k].piece)
      /\ \A n, i : Told(arr, n, i) => Told(arr2, n, i)
  BY ArrivedKeeps
<1>3. v \in Fates /\ v # "queued"
  BY DEF Fates
<1>4. /\ ft2 \in Seq(FateRecords) /\ Len(ft2) = Len(ft)
      /\ \A k \in 1..Len(ft) : ft2[k].m = ft[k].m /\ ft2[k].is = IF k = h.id THEN v ELSE ft[k].is
  BY <1>1, <1>3, FateIs
<1>5. /\ g \in Configs
      /\ \A k \in 1..Len(out) : out[k].id = t + k /\ out[k].media = ft[t + k].m.media
      /\ \A n \in 1..Len(ft) : ft[n].is = "queued" <=> n > t
      /\ g.adapter = "telegram" => \A n \in 1..Len(ft) : \A i \in 1..ft[n].m.media : ft[n].is = "done" => Told(arr, n, i)
  BY Zenon DEF OutOK, Types, Line, Cover
<1> HIDE DEF ft2
<1>6. Taken(out, ft2) = t
  BY <1>4 DEF Taken
<1>7. t \in Nat /\ \A k \in 1..Len(out) : t + k \in 1..Len(ft)
  BY <1>1 DEF Taken
<1> HIDE DEF t
<1>8. Types(g, out, None, arr2, ft2)
  BY <1>1, <1>2, <1>4, <1>5 DEF Types
<1>9. Line(out, None, ft2)
  <2>1. \A k \in 1..Len(out) : out[k].id = t + k /\ out[k].media = ft2[t + k].m.media
    BY <1>4, <1>5, <1>7
  <2>2. \A n \in 1..Len(ft2) : ft2[n].is = "queued" <=> n > t
    <3> TAKE n \in 1..Len(ft2)
    <3>1. CASE n = h.id
      BY <3>1, <1>1, <1>3, <1>4, <1>7
    <3>2. CASE n # h.id
      BY <3>2, <1>4, <1>5
    <3> QED
      BY <3>1, <3>2
  <2> QED
    BY <2>1, <2>2, <1>1, <1>4, <1>6 DEF Line
<1>10. Order(g, None, arr2, t) /\ Copies(g, None, arr2)
  BY <1>2 DEF Order, Copies
<1>11. Cover(g, None, arr2, ft2)
  <2> SUFFICES ASSUME g.adapter = "telegram", NEW n \in 1..Len(ft), NEW i \in 1..ft[n].m.media, ft2[n].is = "done"
               PROVE  Told(arr2, n, i)
    BY <1>4 DEF Cover
  <2>1. CASE n = h.id
    BY <2>1, <1>4
  <2>2. CASE n # h.id
    BY <2>2, <1>2, <1>4, <1>5
  <2> QED
    BY <2>1, <2>2
<1> QED
  BY <1>6, <1>8, <1>9, <1>10, <1>11 DEF OutOK, t, ft2

\* Where a call can take the dispatcher that stays with the message: the piece may be tried again, which
\* counts if it arrived, or send() goes on; and on Telegram no attachment is passed over without its note.
Stays(g, h, h2, arr, arr2) ==
  /\ h2.todo = h.todo
  /\ Made(g, h) <= Made(g, h2)
  /\ arr2 = arr \/ Made(g, h) < Made(g, h2)

Covered(g, h, h2, arr, arr2) ==
  g.adapter = "telegram" =>
    \/ h2.todo = h.todo
    \/ h2.todo = Tail(h.todo) /\ (h.todo[1].what = "chunk" \/ Grew(arr, Of(h.id, h.todo[1]), arr2))
    \/ h2.todo = <<Note(h.todo[1].i)>> \o Tail(h.todo)

Goes(g, h, h2, arr, arr2) ==
  /\ Arrived(g, h, arr, arr2)
  /\ h2 \in Hands /\ h2.id = h.id
  /\ h2.todo # <<>> => ModeOK(g, h2)
  /\ Stays(g, h, h2, arr, arr2) \/ Move(g.adapter, h.todo, h2.todo)
  /\ Covered(g, h, h2, arr, arr2)

\* A piece that arrived is seen.
LEMMA GrewTold ==
  ASSUME NEW arr \in Seq(Sights), NEW arr2, NEW p \in Seens, Grew(arr, p, arr2), p.what # "chunk"
  PROVE  Told(arr2, p.id, p.i)
<1>1. p.what \in {"media", "note"}
  BY DEF Seens, Whats
<1>2. Len(arr) \in Nat
  BY LenProperties
<1>3. Len(arr2) \in 1..Len(arr2) /\ arr2[Len(arr2)].piece = p
  <2>1. CASE Len(arr2) = Len(arr) /\ Len(arr) >= 1 /\ arr[Len(arr)].piece = p
    BY <1>2, <2>1 DEF Grew
  <2>2. CASE Len(arr2) = Len(arr) + 1 /\ arr2[Len(arr2)].piece = p
    BY <1>2, <2>2
  <2> QED
    BY <2>1, <2>2 DEF Grew
<1> QED
  BY <1>1, <1>3 DEF Told

\* Telegram: each attachment of the message is told or still to come after the call.
LEMMA CoverKeeps ==
  ASSUME NEW g, NEW out, NEW h, NEW arr, NEW ft, NEW h2, NEW arr2,
         OutOK(g, out, h, arr, ft), h # None, Goes(g, h, h2, arr, arr2), g.adapter = "telegram"
  PROVE  \A i \in 1..ft[h.id].m.media : Told(arr2, h.id, i) \/ Coming(h2.todo, i)
<1> TAKE i \in 1..ft[h.id].m.media
<1>1. h.id \in 1..Len(ft) /\ h \in Hands /\ h.todo # <<>> /\ arr \in Seq(Sights)
  BY InHand, Zenon DEF OutOK, Types
<1>2. Told(arr, h.id, i) \/ Coming(h.todo, i)
  BY <1>1, Zenon DEF OutOK, Cover
<1>3. Told(arr, h.id, i) => Told(arr2, h.id, i)
  BY ArrivedKeeps DEF Goes
<1>4. ASSUME Coming(h.todo, i)
      PROVE  Told(arr2, h.id, i) \/ Coming(h2.todo, i)
  <2> DEFINE x == h.todo[1]
             rest == Tail(h.todo)
  <2>1. /\ h.id \in Nat /\ h.todo \in Seq(PieceSet) /\ x \in PieceSet /\ x.i \in Nat
    BY <1>1, HandIs DEF PieceSet
  <2>2. /\ rest \in Seq(PieceSet) /\ Len(rest) = Len(h.todo) - 1 /\ Len(h.todo) \in Nat
        /\ \A j \in 1..Len(rest) : rest[j] = h.todo[j + 1]
    BY <1>1, <2>1, HeadTailProperties, LenProperties
  <2>3. PICK j \in 1..Len(h.todo) : h.todo[j].i = i /\ h.todo[j].what \in {"media", "note"}
    BY <1>4 DEF Coming
  <2>4. j = 1 \/ (j - 1 \in 1..Len(rest) /\ rest[j - 1] = h.todo[j])
    BY <2>2
  <2> HIDE DEF x, rest
  <2>5. CASE h2.todo = h.todo
    BY <1>4, <2>5
  <2>6. CASE h2.todo = rest /\ (x.what = "chunk" \/ Grew(arr, Of(h.id, x), arr2))
    <3>1. CASE j = 1
      <4>1. x.i = i /\ x.what \in {"media", "note"}
        BY <2>3, <3>1 DEF x
      <4>2. Grew(arr, Of(h.id, x), arr2)
        BY <4>1, <2>6
      <4>3. Of(h.id, x) \in Seens /\ Of(h.id, x).id = h.id /\ Of(h.id, x).what # "chunk" /\ Of(h.id, x).i = i
        BY <4>1, <2>1, OfIs
      <4> QED
        BY <4>2, <4>3, <1>1, GrewTold
    <3>2. CASE j - 1 \in 1..Len(rest) /\ rest[j - 1] = h.todo[j]
      BY <3>2, <2>3, <2>6 DEF Coming
    <3> QED
      BY <3>1, <3>2, <2>4
  <2>7. CASE h2.todo = <<Note(x.i)>> \o rest
    <3>1. Note(x.i) \in PieceSet /\ Note(x.i).what = "note" /\ Note(x.i).i = x.i
      BY <2>1, NoteIs
    <3>2. /\ Len(h2.todo) = Len(rest) + 1 /\ h2.todo[1] = Note(x.i)
          /\ \A l \in 1..Len(rest) : h2.todo[l + 1] = rest[l]
      BY <2>2, <2>7, <3>1, ConsIs
    <3>3. Len(rest) \in Nat
      BY <2>2, LenProperties
    <3>4. CASE j = 1
      <4>1. 1 \in 1..Len(h2.todo) /\ h2.todo[1].i = i /\ h2.todo[1].what \in {"media", "note"}
        BY <2>3, <3>1, <3>2, <3>3, <3>4 DEF x
      <4> QED
        BY <4>1 DEF Coming
    <3>5. CASE j - 1 \in 1..Len(rest) /\ rest[j - 1] = h.todo[j]
      <4>1. j \in 1..Len(h2.todo) /\ (j - 1) + 1 = j
        BY <3>2, <3>3, <3>5
      <4>2. h2.todo[j] = h.todo[j]
        BY <4>1, <3>2, <3>5
      <4> QED
        BY <4>1, <4>2, <2>3 DEF Coming
    <3> QED
      BY <3>4, <3>5, <2>4
  <2> QED
    BY <2>5, <2>6, <2>7, Zenon DEF Goes, Covered, x, rest
<1> QED
  BY <1>2, <1>3, <1>4

LEMMA GoKeeps ==
  ASSUME NEW g, NEW out, NEW h, NEW arr, NEW ft, NEW h2, NEW arr2,
         OutOK(g, out, h, arr, ft), h # None, Goes(g, h, h2, arr, arr2), h2.todo # <<>>
  PROVE  OutOK(g, out, h2, arr2, ft)
<1> DEFINE t == Taken(out, ft)
           a == g.adapter
<1>1. /\ g \in Configs /\ out \in Seq(Messages) /\ ft \in Seq(FateRecords) /\ arr \in Seq(Sights)
      /\ h \in Hands /\ h.todo # <<>>
      /\ TodoOK(a, h.todo) /\ Ahead(a, arr, h.id, h.todo)
      /\ \A k \in 1..Len(arr) : arr[k].piece = Of(h.id, h.todo[1]) => arr[k].copies <= Made(g, h)
  BY Zenon DEF OutOK, Types, Order, Copies
<1>2. Arrived(g, h, arr, arr2) /\ h2 \in Hands /\ h2.id = h.id /\ ModeOK(g, h2)
  BY DEF Goes
<1>3. /\ arr2 \in Seq(Sights)
      /\ \A k \in 1..Len(arr2) : arr2[k].piece.id <= t
      /\ Row(a, arr2)
      /\ Ahead(a, arr2, h.id, h.todo)
      /\ \A k \in 1..Len(arr2) : arr2[k].copies <= Limit(g, arr2[k].piece)
      /\ \A n, i : Told(arr, n, i) => Told(arr2, n, i)
  BY <1>2, ArrivedKeeps
<1>4. h.id \in Nat /\ h.todo \in Seq(PieceSet) /\ h2.todo \in Seq(PieceSet) /\ Of(h.id, h.todo[1]) \in Seens
  BY <1>1, <1>2, HandIs
<1> HIDE DEF t, a
<1>5. /\ TodoOK(a, h2.todo) /\ Ahead(a, arr2, h.id, h2.todo)
      /\ \A k \in 1..Len(arr2) : arr2[k].piece = Of(h.id, h2.todo[1]) => arr2[k].copies <= Made(g, h2)
  <2>1. CASE Stays(g, h, h2, arr, arr2)
    <3> DEFINE p == Of(h.id, h.todo[1])
    <3>1. h2.todo = h.todo /\ Made(g, h) <= Made(g, h2) /\ (arr2 = arr \/ Made(g, h) < Made(g, h2))
      BY <2>1 DEF Stays
    <3>2. Made(g, h) \in Nat /\ Made(g, h2) \in Nat
      BY <1>1, <1>2, MadeIs
    <3> HIDE DEF p
    <3>3. ASSUME NEW k \in 1..Len(arr2), arr2[k].piece = p
          PROVE  arr2[k].copies <= Made(g, h2)
      <4>1. CASE arr2 = arr
        <5>1. arr[k].copies <= Made(g, h) /\ arr[k].copies \in Nat
          BY <4>1, <3>3, <1>1, SightIs DEF p
        <5> QED
          BY <5>1, <4>1, <3>1, <3>2
      <4>2. CASE Grew(arr, p, arr2) /\ Made(g, h) < Made(g, h2)
        <5>1. Len(arr) \in Nat
          BY <1>1, LenProperties
        <5>2. \A l \in 1..Len(arr) : arr[l].copies \in Nat /\ (arr2[l].piece = p => arr[l].copies <= Made(g, h))
          <6> TAKE l \in 1..Len(arr)
          <6>1. arr2[l].piece = arr[l].piece
            BY <4>2 DEF Grew
          <6> QED
            BY <6>1, <1>1, SightIs DEF p
        <5>3. \/ k \in 1..Len(arr) /\ arr2[k].copies = arr[k].copies + 1
              \/ k \in 1..Len(arr) /\ arr2[k].copies = arr[k].copies
              \/ arr2[k].copies = 1
          <6>1. CASE Len(arr2) = Len(arr) /\ arr2[Len(arr)].copies = arr[Len(arr)].copies + 1
                     /\ \A l \in 1..Len(arr) : l < Len(arr) => arr2[l].copies = arr[l].copies
            BY <6>1, <5>1
          <6>2. CASE Len(arr2) = Len(arr) + 1 /\ arr2[Len(arr2)].copies = 1
                     /\ \A l \in 1..Len(arr) : arr2[l].copies = arr[l].copies
            BY <6>2, <5>1
          <6> QED
            BY <6>1, <6>2, <4>2, Zenon DEF Grew
        <5> QED
          BY <5>2, <5>3, <4>2, <3>2, <3>3
      <4> QED
        BY <4>1, <4>2, <3>1, <1>2, Zenon DEF Arrived, p
    <3> QED
      BY <3>1, <3>3, <1>1, <1>3, Zenon DEF p, a
  <2>2. CASE Move(a, h.todo, h2.todo)
    <3>1. TodoOK(a, h2.todo) /\ Fresh(a, arr2, h.id, h2.todo)
      BY <2>2, <1>1, <1>3, <1>4, Moved
    <3>2. /\ Ahead(a, arr2, h.id, h2.todo)
          /\ \A k \in 1..Len(arr2) : arr2[k].piece # Of(h.id, h2.todo[1])
      BY <3>1, <1>3, <1>4, FreshAhead
    <3> QED
      BY <3>1, <3>2
  <2> QED
    BY <2>1, <2>2 DEF Goes, a
<1>6. Types(g, out, h2, arr2, ft)
  BY <1>1, <1>2, <1>3 DEF Types
<1>7. Line(out, h2, ft)
  BY <1>2, Zenon DEF OutOK, Line
<1>8. Order(g, h2, arr2, t)
  BY <1>2, <1>3, <1>5, Zenon DEF Order, a
<1>9. Copies(g, h2, arr2)
  BY <1>2, <1>3, <1>5, Zenon DEF Copies
<1>10. Cover(g, h2, arr2, ft)
  <2> SUFFICES ASSUME g.adapter = "telegram", NEW n \in 1..Len(ft), NEW i \in 1..ft[n].m.media
               PROVE  /\ ft[n].is = "done" => Told(arr2, n, i)
                      /\ n = h2.id => Told(arr2, n, i) \/ Coming(h2.todo, i)
    BY DEF Cover
  <2>1. ft[n].is = "done" => Told(arr2, n, i)
    BY <1>3, Zenon DEF OutOK, Cover
  <2>2. n = h2.id => Told(arr2, n, i) \/ Coming(h2.todo, i)
    BY <1>2, CoverKeeps
  <2> QED
    BY <2>1, <2>2
<1> QED
  BY <1>6, <1>7, <1>8, <1>9, <1>10 DEF OutOK, t

\* The end of the plan.
LEMMA DoneKeeps ==
  ASSUME NEW g, NEW out, NEW h, NEW arr, NEW ft, NEW h2, NEW arr2,
         OutOK(g, out, h, arr, ft), h # None, Goes(g, h, h2, arr, arr2), h2.todo = <<>>
  PROVE  OutOK(g, out, None, arr2, [ft EXCEPT ![h2.id].is = "done"])
<1>1. Arrived(g, h, arr, arr2) /\ h2.id = h.id
  BY DEF Goes
<1>2. ASSUME g.adapter = "telegram", NEW i \in 1..ft[h.id].m.media
      PROVE  Told(arr2, h.id, i)
  <2>1. Told(arr2, h.id, i) \/ Coming(h2.todo, i)
    BY <1>2, CoverKeeps
  <2>2. ~Coming(h2.todo, i)
    <3>1. Len(h2.todo) = 0
      BY EmptySeq
    <3> QED
      BY <3>1 DEF Coming
  <2> QED
    BY <2>1, <2>2
<1>3. OutOK(g, out, None, arr2, [ft EXCEPT ![h.id].is = "done"])
  BY <1>1, <1>2, EndKeeps
<1> QED
  BY <1>1, <1>3

-----------------------------------------------------------------------------
(* The hand after a call *)

LEMMA HandFields ==
  ASSUME NEW h \in Hands
  PROVE  /\ h.id \in Nat /\ h.todo \in Seq(PieceSet) /\ h.mode \in Modes /\ h.tries \in 0..2
         /\ h.failed \in SUBSET Nat /\ h.sent \in BOOLEAN /\ h.chunks \in Nat
BY DEF Hands

LEMMA TodoSet ==
  ASSUME NEW h \in Hands, NEW todo \in Seq(PieceSet)
  PROVE  /\ [h EXCEPT !.todo = todo] \in Hands
         /\ [h EXCEPT !.todo = todo].id = h.id /\ [h EXCEPT !.todo = todo].todo = todo
         /\ [h EXCEPT !.todo = todo].mode = h.mode /\ [h EXCEPT !.todo = todo].tries = h.tries
BY DEF Hands

LEMMA ModeSet ==
  ASSUME NEW h \in Hands, NEW mode \in Modes
  PROVE  /\ [h EXCEPT !.mode = mode] \in Hands
         /\ [h EXCEPT !.mode = mode].id = h.id /\ [h EXCEPT !.mode = mode].todo = h.todo
         /\ [h EXCEPT !.mode = mode].mode = mode /\ [h EXCEPT !.mode = mode].tries = h.tries
BY DEF Hands

LEMMA FailedSet ==
  ASSUME NEW h \in Hands, NEW i \in Nat
  PROVE  /\ [h EXCEPT !.failed = @ \cup {i}] \in Hands
         /\ [h EXCEPT !.failed = @ \cup {i}].id = h.id /\ [h EXCEPT !.failed = @ \cup {i}].todo = h.todo
BY DEF Hands

LEMMA SentSet ==
  ASSUME NEW h \in Hands
  PROVE  /\ [h EXCEPT !.sent = TRUE] \in Hands
         /\ [h EXCEPT !.sent = TRUE].id = h.id /\ [h EXCEPT !.sent = TRUE].todo = h.todo
BY DEF Hands

LEMMA TriesSet ==
  ASSUME NEW h \in Hands
  PROVE  /\ [h EXCEPT !.tries = 0] \in Hands
         /\ [h EXCEPT !.tries = 0].id = h.id /\ [h EXCEPT !.tries = 0].todo = h.todo
         /\ [h EXCEPT !.tries = 0].mode = h.mode /\ [h EXCEPT !.tries = 0].tries = 0
<1>1. 0 \in 0..2
  OBVIOUS
<1> QED
  BY <1>1 DEF Hands

LEMMA PlainSet ==
  ASSUME NEW h \in Hands
  PROVE  /\ [h EXCEPT !.mode = "plain", !.tries = 0] \in Hands
         /\ [h EXCEPT !.mode = "plain", !.tries = 0].id = h.id
         /\ [h EXCEPT !.mode = "plain", !.tries = 0].todo = h.todo
         /\ [h EXCEPT !.mode = "plain", !.tries = 0].mode = "plain"
         /\ [h EXCEPT !.mode = "plain", !.tries = 0].tries = 0
<1> DEFINE k == [h EXCEPT !.mode = "plain"]
<1>1. "plain" \in Modes
  BY DEF Modes
<1>2. k \in Hands /\ k.id = h.id /\ k.todo = h.todo /\ k.mode = "plain"
  BY <1>1, ModeSet
<1>3. [h EXCEPT !.mode = "plain", !.tries = 0] = [k EXCEPT !.tries = 0]
  OBVIOUS
<1> HIDE DEF k
<1> QED
  BY <1>2, <1>3, TriesSet

LEMMA AgainIs ==
  ASSUME NEW h \in Hands, h.tries + 1 < 3
  PROVE  /\ Again(h) \in Hands /\ Again(h).id = h.id /\ Again(h).todo = h.todo
         /\ Again(h).mode = h.mode /\ Again(h).tries = h.tries + 1
BY DEF Again, Hands

\* Another plan, with all tries ahead.
Start(h, todo) == [h EXCEPT !.todo = todo, !.tries = 0]

LEMMA StartSet ==
  ASSUME NEW h \in Hands, NEW todo \in Seq(PieceSet)
  PROVE  /\ Start(h, todo) \in Hands /\ Start(h, todo).id = h.id /\ Start(h, todo).todo = todo
         /\ Start(h, todo).mode = h.mode /\ Start(h, todo).tries = 0
<1> DEFINE k == [h EXCEPT !.todo = todo]
<1>1. k \in Hands /\ k.id = h.id /\ k.todo = todo /\ k.mode = h.mode
  BY TodoSet
<1>2. Start(h, todo) = [k EXCEPT !.tries = 0]
  BY DEF Start
<1> HIDE DEF k
<1> QED
  BY <1>1, <1>2, TriesSet

LEMMA RestIs ==
  ASSUME NEW h \in Hands, h.todo # <<>>
  PROVE  /\ Rest(h) \in Hands /\ Rest(h).id = h.id /\ Rest(h).todo = Tail(h.todo)
         /\ Rest(h).mode = h.mode /\ Rest(h).tries = 0
<1>1. Tail(h.todo) \in Seq(PieceSet)
  BY HandFields, HeadTailProperties
<1>2. Rest(h) = Start(h, Tail(h.todo))
  BY DEF Rest, Start
<1>3. /\ Start(h, Tail(h.todo)) \in Hands /\ Start(h, Tail(h.todo)).id = h.id
      /\ Start(h, Tail(h.todo)).todo = Tail(h.todo)
      /\ Start(h, Tail(h.todo)).mode = h.mode /\ Start(h, Tail(h.todo)).tries = 0
  BY <1>1, StartSet
<1> QED
  BY <1>2, <1>3, Zenon

LEMMA InsteadNoteIs ==
  ASSUME NEW h \in Hands, h.todo # <<>>
  PROVE  /\ InsteadNote(h) \in Hands /\ InsteadNote(h).id = h.id
         /\ InsteadNote(h).todo = <<Note(h.todo[1].i)>> \o Tail(h.todo)
         /\ InsteadNote(h).todo # <<>> /\ InsteadNote(h).todo[1].what = "note"
         /\ InsteadNote(h).mode = h.mode /\ InsteadNote(h).tries = 0
<1> DEFINE todo == <<Note(h.todo[1].i)>> \o Tail(h.todo)
<1>1. Tail(h.todo) \in Seq(PieceSet) /\ h.todo[1] \in PieceSet
  BY HandIs, HeadTailProperties
<1>2. Note(h.todo[1].i) \in PieceSet /\ Note(h.todo[1].i).what = "note"
  BY <1>1, NoteIs DEF PieceSet
<1>3. todo \in Seq(PieceSet) /\ todo # <<>> /\ todo[1] = Note(h.todo[1].i)
  BY <1>1, <1>2, ConsIs
<1>4. InsteadNote(h) = Start(h, todo)
  BY DEF InsteadNote, Start
<1> HIDE DEF todo
<1>5. /\ InsteadNote(h) \in Hands /\ InsteadNote(h).id = h.id /\ InsteadNote(h).todo = todo
      /\ InsteadNote(h).mode = h.mode /\ InsteadNote(h).tries = 0
  BY <1>3, <1>4, StartSet
<1> QED
  BY <1>2, <1>3, <1>5 DEF todo

\* There is always a call left for the piece at hand.
LEMMA MadeLess ==
  ASSUME NEW g \in Configs, NEW h \in Hands, h.todo # <<>>, ModeOK(g, h)
  PROVE  Made(g, h) < Limit(g, Of(h.id, h.todo[1]))
<1>1. Of(h.id, h.todo[1]).what = h.todo[1].what /\ h.todo[1].what \in {"media", "chunk", "note"}
  BY HandIs DEF Of, PieceSet, Whats
<1>2. h.tries \in 0..2 /\ h.mode \in Modes
  BY HandFields
<1> DEFINE w == h.todo[1].what
           p == Of(h.id, h.todo[1])
<1> HIDE DEF w, p
<1>3. p.what = w /\ w \in {"media", "chunk", "note"}
  BY <1>1 DEF p, w
<1>4. CASE g.adapter = "telegram"
  <2>1. h.mode \in {"html", "plain"} /\ (w # "chunk" => h.mode = "html") /\ (w = "note" => h.tries = 0)
    BY <1>4 DEF ModeOK, w
  <2> QED
    BY <1>2, <1>3, <1>4, <2>1 DEF Made, Limit, SendRetries, p
<1>5. CASE g.adapter # "telegram"
  BY <1>2, <1>3, <1>5 DEF Made, Limit, SendRetries, p, w
<1> QED
  BY <1>4, <1>5

-----------------------------------------------------------------------------
(* The calls of the adapters *)

\* GoOn, of rigid values.
GoneOn(h2, ft, hand2, ft2) ==
  /\ hand2 = IF h2.todo = <<>> THEN None ELSE h2
  /\ ft2 = IF h2.todo = <<>> THEN [ft EXCEPT ![h2.id].is = "done"] ELSE ft

LEMMA GoesOn ==
  ASSUME NEW g, NEW out, NEW h, NEW arr, NEW ft, NEW h2, NEW arr2, NEW hand2, NEW ft2,
         OutOK(g, out, h, arr, ft), h # None, Goes(g, h, h2, arr, arr2), GoneOn(h2, ft, hand2, ft2)
  PROVE  OutOK(g, out, hand2, arr2, ft2)
<1>1. CASE h2.todo = <<>>
  BY <1>1, DoneKeeps DEF GoneOn
<1>2. CASE h2.todo # <<>>
  BY <1>2, GoKeeps DEF GoneOn
<1> QED
  BY <1>1, <1>2

LEMMA Onward ==
  ASSUME NEW h2, OutInv, hand # None, UNCHANGED <<config, up, outbound>>,
         Goes(config, hand, h2, arrived, arrived'), GoneOn(h2, fate, hand', fate')
  PROVE  OutInv'
<1>1. OutOK(config, outbound, hand', arrived', fate')
  BY GoesOn DEF OutInv
<1> QED
  BY <1>1 DEF OutInv

\* What is known of the hand when a call is made for it.
LEMMA Ready ==
  ASSUME OutInv, hand # None
  PROVE  /\ config \in Configs /\ hand \in Hands /\ hand.todo # <<>> /\ arrived \in Seq(Sights)
         /\ ModeOK(config, hand) /\ Piece = hand.todo[1] /\ Piece.what \in Whats /\ Piece.i \in Nat
         /\ Made(config, hand) < Limit(config, Of(hand.id, Piece))
<1>1. /\ config \in Configs /\ hand \in Hands /\ hand.todo # <<>> /\ arrived \in Seq(Sights)
      /\ ModeOK(config, hand)
  BY Zenon DEF OutInv, OutOK, Types, Copies
<1>2. Piece = hand.todo[1]
  BY DEF Piece
<1>3. Piece.what \in Whats /\ Piece.i \in Nat
  BY <1>1, <1>2, HandIs DEF PieceSet
<1> QED
  BY <1>1, <1>2, <1>3, MadeLess

LEMMA ArrivalIs ==
  ASSUME NEW r, OutInv, hand # None, Arrival(r)
  PROVE  /\ Arrived(config, hand, arrived, arrived')
         /\ Arrives(r) => Grew(arrived, Of(hand.id, hand.todo[1]), arrived')
<1>1. /\ hand \in Hands /\ hand.todo # <<>> /\ arrived \in Seq(Sights)
      /\ Made(config, hand) < Limit(config, Of(hand.id, hand.todo[1]))
      /\ Seen = Of(hand.id, hand.todo[1])
  BY Ready DEF Seen, Of
<1>2. Of(hand.id, hand.todo[1]) \in Seens
  BY <1>1, HandIs
<1>3. Grew(arrived, Of(hand.id, hand.todo[1]), ShownIn(arrived, Of(hand.id, hand.todo[1])))
  BY <1>1, <1>2, ShownGrew
<1>4. Shown(Seen) = ShownIn(arrived, Of(hand.id, hand.todo[1]))
  BY <1>1 DEF Shown, ShownIn
<1> QED
  BY <1>1, <1>3, <1>4 DEF Arrival, Arrived

LEMMA UnseenIs ==
  ASSUME NEW g, NEW h, NEW arr
  PROVE  Arrived(g, h, arr, arr)
BY DEF Arrived

LEMMA RaisedKeeps ==
  ASSUME OutInv, hand # None, UNCHANGED <<config, up, outbound>>,
         Arrived(config, hand, arrived, arrived'), Raised
  PROVE  OutInv'
<1>1. OutOK(config, outbound, None, arrived', [fate EXCEPT ![hand.id].is = "failed"])
  BY EndKeeps DEF OutInv
<1> QED
  BY <1>1 DEF OutInv, Raised

LEMMA AnyMode ==
  ASSUME NEW g, NEW h, g.adapter # "telegram", g.adapter # "feishu"
  PROVE  ModeOK(g, h)
BY DEF ModeOK

LEMMA RestGoes ==
  ASSUME NEW g, NEW h \in Hands, NEW arr, NEW arr2, g.adapter # "telegram", h.todo # <<>>,
         ModeOK(g, h), Arrived(g, h, arr, arr2)
  PROVE  Goes(g, h, Rest(h), arr, arr2)
<1>1. /\ Rest(h) \in Hands /\ Rest(h).id = h.id /\ Rest(h).todo = Tail(h.todo) /\ Rest(h).mode = h.mode
  BY RestIs
<1>2. ModeOK(g, Rest(h))
  BY <1>1 DEF ModeOK
<1>3. Move(g.adapter, h.todo, Rest(h).todo)
  BY <1>1 DEF Move
<1> QED
  BY <1>1, <1>2, <1>3 DEF Goes, Covered

\* The piece is tried again.
LEMMA StayGoes ==
  ASSUME NEW g, NEW h, NEW h2 \in Hands, NEW arr, NEW arr2, Arrived(g, h, arr, arr2),
         h2.id = h.id, h2.todo = h.todo, ModeOK(g, h2),
         (arr2 = arr /\ Made(g, h) <= Made(g, h2)) \/ Made(g, h) < Made(g, h2),
         h \in Hands
  PROVE  Goes(g, h, h2, arr, arr2)
<1>1. Made(g, h) \in Nat /\ Made(g, h2) \in Nat
  BY MadeIs
<1>2. Stays(g, h, h2, arr, arr2)
  BY <1>1 DEF Stays
<1>3. Covered(g, h, h2, arr, arr2)
  BY DEF Covered
<1> QED
  BY <1>2, <1>3 DEF Goes

(* Telegram *)

LEMMA TelegramMade ==
  ASSUME NEW g, NEW h \in Hands, g.adapter = "telegram"
  PROVE  /\ h.mode # "plain" => Made(g, h) = h.tries
         /\ h.mode = "plain" => Made(g, h) = h.tries + 3
         /\ ModeOK(g, h) <=> /\ h.mode \in {"html", "plain"}
                             /\ h.todo[1].what # "chunk" => h.mode = "html"
                             /\ h.todo[1].what = "note" => h.tries = 0
<1>1. h.mode # "plain" => Made(g, h) = h.tries + 0
  BY DEF Made
<1>2. h.mode = "plain" => Made(g, h) = h.tries + 3
  BY DEF Made, SendRetries
<1>3. ModeOK(g, h) <=> /\ h.mode \in {"html", "plain"}
                       /\ h.todo[1].what # "chunk" => h.mode = "html"
                       /\ h.todo[1].what = "note" => h.tries = 0
  BY DEF ModeOK
<1> QED
  BY <1>1, <1>2, <1>3, HandFields

\* The next piece, after one that was seen or a chunk.
LEMMA TelegramRest ==
  ASSUME NEW g, NEW h \in Hands, NEW h2 \in Hands, NEW arr, NEW arr2, g.adapter = "telegram",
         Arrived(g, h, arr, arr2), h2.id = h.id, h2.todo = Tail(h.todo), h2.mode = "html", h2.tries = 0,
         h.todo[1].what = "chunk" \/ Grew(arr, Of(h.id, h.todo[1]), arr2)
  PROVE  Goes(g, h, h2, arr, arr2)
<1>1. ModeOK(g, h2)
  BY TelegramMade
<1> QED
  BY <1>1 DEF Goes, Move, Covered

MediaNext(r, remote, h) ==
  CASE r = "ok" -> Rest(h)
    [] TimedOut(r) /\ remote /\ h.tries + 1 < SendRetries -> Again(h)
    [] OTHER -> InsteadNote(h)

LEMMA TelegramMediaKeeps ==
  ASSUME NEW r, NEW remote, OutInv, Calls({"telegram"}, r), Arrival(r), TelegramMedia(r, remote)
  PROVE  OutInv'
<1>1. hand # None /\ config.adapter = "telegram" /\ UNCHANGED <<config, up, outbound>>
  BY DEF Calls
<1>2. /\ hand \in Hands /\ hand.todo # <<>> /\ ModeOK(config, hand) /\ Piece = hand.todo[1]
      /\ Arrived(config, hand, arrived, arrived')
      /\ Arrives(r) => Grew(arrived, Of(hand.id, hand.todo[1]), arrived')
  BY <1>1, Ready, ArrivalIs
<1>3. hand.mode = "html" /\ hand.tries \in 0..2 /\ hand.todo[1].what = "media"
  BY <1>1, <1>2, TelegramMade, HandFields DEF TelegramMedia
<1> DEFINE h2 == MediaNext(r, remote, hand)
<1>7. GoneOn(h2, fate, hand', fate')
  BY DEF TelegramMedia, GoOn, GoneOn, MediaNext
<1> HIDE DEF h2
<1>4. CASE r = "ok"
  <2>1. h2 = Rest(hand)
    BY <1>4 DEF h2, MediaNext, TimedOut
  <2>2. Arrives(r)
    BY <1>4 DEF Arrives
  <2>3. /\ Rest(hand) \in Hands /\ Rest(hand).id = hand.id /\ Rest(hand).todo = Tail(hand.todo)
        /\ Rest(hand).mode = "html" /\ Rest(hand).tries = 0
    BY <1>2, <1>3, RestIs
  <2>4. Goes(config, hand, Rest(hand), arrived, arrived')
    BY <1>1, <1>2, <2>2, <2>3, TelegramRest
  <2> QED
    BY <1>1, <1>7, <2>1, <2>4, Onward
<1>5. CASE r # "ok" /\ TimedOut(r) /\ remote /\ hand.tries + 1 < SendRetries
  <2>1. h2 = Again(hand)
    BY <1>5 DEF h2, MediaNext
  <2>2. /\ Again(hand) \in Hands /\ Again(hand).id = hand.id /\ Again(hand).todo = hand.todo
        /\ Again(hand).mode = "html" /\ Again(hand).tries = hand.tries + 1
    BY <1>2, <1>3, <1>5, AgainIs DEF SendRetries
  <2>3. ModeOK(config, Again(hand)) /\ Made(config, hand) < Made(config, Again(hand))
    BY <1>1, <1>2, <1>3, <2>2, TelegramMade
  <2>4. Goes(config, hand, Again(hand), arrived, arrived')
    BY <1>2, <2>2, <2>3, StayGoes
  <2> QED
    BY <1>1, <1>7, <2>1, <2>4, Onward
<1>6. CASE r # "ok" /\ ~(TimedOut(r) /\ remote /\ hand.tries + 1 < SendRetries)
  <2>1. h2 = InsteadNote(hand)
    BY <1>6 DEF h2, MediaNext
  <2>2. /\ InsteadNote(hand) \in Hands /\ InsteadNote(hand).id = hand.id
        /\ InsteadNote(hand).todo = <<Note(hand.todo[1].i)>> \o Tail(hand.todo)
        /\ InsteadNote(hand).todo[1].what = "note"
        /\ InsteadNote(hand).mode = "html" /\ InsteadNote(hand).tries = 0
    BY <1>2, <1>3, InsteadNoteIs
  <2>3. ModeOK(config, InsteadNote(hand))
    BY <1>1, <2>2, TelegramMade
  <2>4. "telegram" \notin NoteLast
    BY DEF NoteLast
  <2>5. Move(config.adapter, hand.todo, InsteadNote(hand).todo)
    BY <1>1, <1>3, <2>2, <2>4 DEF Move
  <2>6. Covered(config, hand, InsteadNote(hand), arrived, arrived')
    BY <2>2 DEF Covered
  <2>7. Goes(config, hand, InsteadNote(hand), arrived, arrived')
    BY <1>2, <2>2, <2>3, <2>5, <2>6 DEF Goes
  <2> QED
    BY <1>1, <1>7, <2>1, <2>7, Onward
<1> QED
  BY <1>4, <1>5, <1>6

LEMMA TelegramNoteKeeps ==
  ASSUME NEW r, OutInv, Calls({"telegram"}, r), Arrival(r), TelegramNote(r)
  PROVE  OutInv'
<1>1. hand # None /\ config.adapter = "telegram" /\ UNCHANGED <<config, up, outbound>>
  BY DEF Calls
<1>2. /\ hand \in Hands /\ hand.todo # <<>> /\ ModeOK(config, hand) /\ Piece = hand.todo[1]
      /\ Arrived(config, hand, arrived, arrived')
      /\ Arrives(r) => Grew(arrived, Of(hand.id, hand.todo[1]), arrived')
  BY <1>1, Ready, ArrivalIs
<1>3. hand.mode = "html"
  BY <1>1, <1>2, TelegramMade DEF TelegramNote
<1>4. CASE r = "ok"
  <2>1. GoneOn(Rest(hand), fate, hand', fate')
    BY <1>4 DEF TelegramNote, GoOn, GoneOn
  <2>2. Arrives(r)
    BY <1>4 DEF Arrives
  <2>3. /\ Rest(hand) \in Hands /\ Rest(hand).id = hand.id /\ Rest(hand).todo = Tail(hand.todo)
        /\ Rest(hand).mode = "html" /\ Rest(hand).tries = 0
    BY <1>2, <1>3, RestIs
  <2>4. Goes(config, hand, Rest(hand), arrived, arrived')
    BY <1>1, <1>2, <2>2, <2>3, TelegramRest
  <2> QED
    BY <1>1, <2>1, <2>4, Onward
<1>5. CASE r # "ok"
  BY <1>1, <1>2, <1>5, RaisedKeeps DEF TelegramNote
<1> QED
  BY <1>4, <1>5

ChunkNext(r, h) ==
  IF TimedOut(r) /\ h.tries + 1 < SendRetries THEN Again(h)
  ELSE IF r # "ok" /\ h.mode = "html" THEN [h EXCEPT !.mode = "plain", !.tries = 0]
  ELSE [Rest(h) EXCEPT !.mode = "html"]

LEMMA TelegramChunkKeeps ==
  ASSUME NEW r, OutInv, Calls({"telegram"}, r), Arrival(r), TelegramChunk(r)
  PROVE  OutInv'
<1>1. hand # None /\ config.adapter = "telegram" /\ UNCHANGED <<config, up, outbound>>
  BY DEF Calls
<1>2. /\ hand \in Hands /\ hand.todo # <<>> /\ ModeOK(config, hand) /\ Piece = hand.todo[1]
      /\ Arrived(config, hand, arrived, arrived')
  BY <1>1, Ready, ArrivalIs
<1>3. hand.mode \in {"html", "plain"} /\ hand.tries \in 0..2 /\ hand.todo[1].what = "chunk"
  BY <1>1, <1>2, TelegramMade, HandFields DEF TelegramChunk
<1> DEFINE next == [Rest(hand) EXCEPT !.mode = "html"]
           plain == [hand EXCEPT !.mode = "plain", !.tries = 0]
           h2 == ChunkNext(r, hand)
<1>7. GoneOn(h2, fate, hand', fate')
  BY DEF TelegramChunk, GoOn, GoneOn, ChunkNext
<1> HIDE DEF h2
<1>4. CASE TimedOut(r) /\ hand.tries + 1 < SendRetries
  <2>1. h2 = Again(hand)
    BY <1>4 DEF h2, ChunkNext
  <2>2. /\ Again(hand) \in Hands /\ Again(hand).id = hand.id /\ Again(hand).todo = hand.todo
        /\ Again(hand).mode = hand.mode /\ Again(hand).tries = hand.tries + 1
    BY <1>2, <1>3, <1>4, AgainIs DEF SendRetries
  <2>3. ModeOK(config, Again(hand)) /\ Made(config, hand) < Made(config, Again(hand))
    BY <1>1, <1>2, <1>3, <2>2, TelegramMade
  <2>4. Goes(config, hand, Again(hand), arrived, arrived')
    BY <1>2, <2>2, <2>3, StayGoes
  <2> QED
    BY <1>1, <1>7, <2>1, <2>4, Onward
<1>5. CASE r # "ok" /\ ~(TimedOut(r) /\ hand.tries + 1 < SendRetries) /\ hand.mode = "html"
  <2>1. h2 = plain
    BY <1>5 DEF h2, ChunkNext
  <2>2. plain \in Hands /\ plain.id = hand.id /\ plain.todo = hand.todo /\ plain.mode = "plain" /\ plain.tries = 0
    BY <1>2, PlainSet
  <2> HIDE DEF plain
  <2>3. ModeOK(config, plain) /\ Made(config, hand) < Made(config, plain)
    BY <1>1, <1>2, <1>3, <1>5, <2>2, TelegramMade
  <2>4. Goes(config, hand, plain, arrived, arrived')
    BY <1>2, <2>2, <2>3, StayGoes
  <2> QED
    BY <1>1, <1>7, <2>1, <2>4, Onward
<1>6. CASE r = "ok" \/ (~(TimedOut(r) /\ hand.tries + 1 < SendRetries) /\ hand.mode # "html")
  <2>1. h2 = next
    BY <1>6 DEF h2, ChunkNext, TimedOut
  <2>2. Rest(hand) \in Hands /\ Rest(hand).id = hand.id /\ Rest(hand).todo = Tail(hand.todo) /\ Rest(hand).tries = 0
    BY <1>2, RestIs
  <2>3. "html" \in Modes
    BY DEF Modes
  <2>4. next \in Hands /\ next.id = hand.id /\ next.todo = Tail(hand.todo) /\ next.mode = "html" /\ next.tries = 0
    BY <2>2, <2>3, ModeSet
  <2> HIDE DEF next
  <2>5. Goes(config, hand, next, arrived, arrived')
    BY <1>1, <1>2, <1>3, <2>4, TelegramRest
  <2> QED
    BY <1>1, <1>7, <2>1, <2>5, Onward
<1> QED
  BY <1>4, <1>5, <1>6

LEMMA TelegramKeeps ==
  ASSUME NEW r, OutInv, TelegramCall(r)
  PROVE  OutInv'
BY TelegramMediaKeeps, TelegramNoteKeeps, TelegramChunkKeeps DEF TelegramCall

(* Discord *)

LEMMA DiscordMade ==
  ASSUME NEW g, NEW h \in Hands, g.adapter = "discord"
  PROVE  Made(g, h) = h.tries /\ ModeOK(g, h)
BY DEF Made, ModeOK

\* The piece is tried once more.
LEMMA DiscordAgain ==
  ASSUME OutInv, hand # None, config.adapter = "discord", UNCHANGED <<config, up, outbound>>,
         Arrived(config, hand, arrived, arrived'), hand.tries + 1 < 3, GoneOn(Again(hand), fate, hand', fate')
  PROVE  OutInv'
<1>1. hand \in Hands /\ hand.tries \in 0..2
  BY Ready, HandFields
<1>2. /\ Again(hand) \in Hands /\ Again(hand).id = hand.id /\ Again(hand).todo = hand.todo
      /\ Again(hand).tries = hand.tries + 1
  BY <1>1, AgainIs
<1>3. ModeOK(config, Again(hand)) /\ Made(config, hand) < Made(config, Again(hand))
  BY <1>1, <1>2, DiscordMade
<1>4. Goes(config, hand, Again(hand), arrived, arrived')
  BY <1>1, <1>2, <1>3, StayGoes
<1> QED
  BY <1>4, Onward

\* The adapters other than Telegram and Feishu may go on in any mode, and may pass over attachments.
LEMMA MoveGoes ==
  ASSUME NEW g, NEW h, NEW h2 \in Hands, NEW arr, NEW arr2, g.adapter # "telegram", ModeOK(g, h2),
         Arrived(g, h, arr, arr2), h2.id = h.id, Move(g.adapter, h.todo, h2.todo)
  PROVE  Goes(g, h, h2, arr, arr2)
BY DEF Goes, Covered

\* Nothing more is sent of the message.
LEMMA EmptyGoes ==
  ASSUME NEW g, NEW h \in Hands, NEW arr, NEW arr2, g.adapter # "telegram", g.adapter # "feishu",
         Arrived(g, h, arr, arr2)
  PROVE  Goes(g, h, [h EXCEPT !.todo = <<>>], arr, arr2)
<1> DEFINE h2 == [h EXCEPT !.todo = <<>>]
<1>1. <<>> \in Seq(PieceSet)
  BY EmptySeq
<1>2. h2 \in Hands /\ h2.id = h.id /\ h2.todo = <<>>
  BY <1>1, TodoSet
<1> HIDE DEF h2
<1>3. Move(g.adapter, h.todo, h2.todo)
  BY <1>2 DEF Move
<1>4. Goes(g, h, h2, arr, arr2)
  BY <1>2, <1>3, AnyMode, MoveGoes
<1> QED
  BY <1>4 DEF h2

\* The adapters that take down which attachments failed go on with the next piece, or with the note for them.
LEMMA ListedGoes ==
  ASSUME NEW g, NEW h, NEW rest \in Hands, NEW h2, NEW arr, NEW arr2, g.adapter \in NoteLast,
         Arrived(g, h, arr, arr2), rest.id = h.id, rest.todo = Tail(h.todo), h.todo[1].what = "media",
         h2 = rest \/ h2 = [rest EXCEPT !.todo = <<Note(1)>>]
  PROVE  Goes(g, h, h2, arr, arr2)
<1>1. g.adapter # "telegram" /\ g.adapter # "feishu"
  BY DEF NoteLast
<1>2. CASE h2 = rest
  <2>1. Move(g.adapter, h.todo, h2.todo)
    BY <1>2 DEF Move
  <2> QED
    BY <1>1, <1>2, <2>1, AnyMode, MoveGoes
<1>3. CASE h2 = [rest EXCEPT !.todo = <<Note(1)>>]
  <2>1. <<Note(1)>> \in Seq(PieceSet)
    BY NoteIs
  <2>2. h2 \in Hands /\ h2.id = h.id /\ h2.todo = <<Note(1)>>
    BY <1>3, <2>1, TodoSet
  <2>3. Move(g.adapter, h.todo, h2.todo)
    BY <2>2 DEF Move
  <2> QED
    BY <1>1, <2>2, <2>3, AnyMode, MoveGoes
<1> QED
  BY <1>2, <1>3

\* What the adapter makes of an attachment, before it thinks of the note.
DiscordRest(r, i, h) ==
  LET over == r = "missing" \/ (r # "ok" /\ h.tries + 1 = SendRetries)
  IN  CASE r = "ok" -> [Rest(h) EXCEPT !.sent = TRUE]
        [] over -> [Rest(h) EXCEPT !.failed = @ \cup {i}]
        [] OTHER -> Again(h)

Noted(c, rest) == IF c THEN [rest EXCEPT !.todo = <<Note(1)>>] ELSE rest

LEMMA DiscordMediaKeeps ==
  ASSUME NEW r, OutInv, Calls({"discord"}, r), Arrival(r), DiscordMedia(r)
  PROVE  OutInv'
<1>1. hand # None /\ config.adapter = "discord" /\ UNCHANGED <<config, up, outbound>>
  BY DEF Calls
<1>2. /\ hand \in Hands /\ hand.todo # <<>> /\ Piece = hand.todo[1] /\ Piece.i \in Nat
      /\ Arrived(config, hand, arrived, arrived')
  BY <1>1, Ready, ArrivalIs
<1>3. hand.todo[1].what = "media" /\ hand.tries \in 0..2
  BY <1>2, HandFields DEF DiscordMedia
<1> DEFINE rest == DiscordRest(r, Piece.i, hand)
           c == rest.todo = <<>> /\ rest.failed # {} /\ ~rest.sent /\ rest.chunks = 0
<1>4. GoneOn(Noted(c, rest), fate, hand', fate')
  BY DEF DiscordMedia, GoOn, GoneOn, DiscordRest, Noted
<1>5. \/ rest = [Rest(hand) EXCEPT !.sent = TRUE]
      \/ rest = [Rest(hand) EXCEPT !.failed = @ \cup {Piece.i}]
      \/ rest = Again(hand) /\ hand.tries + 1 < 3
  BY <1>3 DEF DiscordRest, SendRetries
<1> HIDE DEF rest
<1>6. /\ Rest(hand) \in Hands /\ Rest(hand).id = hand.id /\ Rest(hand).todo = Tail(hand.todo)
  BY <1>2, RestIs
<1>7. CASE rest = Again(hand) /\ hand.tries + 1 < 3
  <2>1. rest.todo # <<>>
    BY <1>2, <1>7, AgainIs
  <2>2. Noted(c, rest) = Again(hand)
    BY <1>7, <2>1 DEF Noted
  <2> QED
    BY <1>1, <1>2, <1>4, <1>7, <2>2, DiscordAgain
<1>8. CASE rest # Again(hand) \/ ~(hand.tries + 1 < 3)
  <2>1. rest \in Hands /\ rest.id = hand.id /\ rest.todo = Tail(hand.todo)
    <3>1. CASE rest = [Rest(hand) EXCEPT !.sent = TRUE]
      BY <1>6, <3>1, SentSet
    <3>2. CASE rest = [Rest(hand) EXCEPT !.failed = @ \cup {Piece.i}]
      BY <1>2, <1>6, <3>2, FailedSet
    <3> QED
      BY <1>5, <1>8, <3>1, <3>2
  <2>2. Noted(c, rest) = rest \/ Noted(c, rest) = [rest EXCEPT !.todo = <<Note(1)>>]
    BY DEF Noted
  <2>3. config.adapter \in NoteLast
    BY <1>1 DEF NoteLast
  <2>4. Goes(config, hand, Noted(c, rest), arrived, arrived')
    BY <1>2, <1>3, <2>1, <2>2, <2>3, ListedGoes
  <2> QED
    BY <1>1, <1>4, <2>4, Onward
<1> QED
  BY <1>7, <1>8

TextNext(r, h) ==
  CASE r = "ok" -> Rest(h)
    [] r # "ok" /\ h.tries + 1 = SendRetries -> [h EXCEPT !.todo = <<>>]
    [] OTHER -> Again(h)

LEMMA DiscordTextKeeps ==
  ASSUME NEW r, OutInv, Calls({"discord"}, r), Arrival(r), DiscordText(r)
  PROVE  OutInv'
<1>1. hand # None /\ config.adapter = "discord" /\ UNCHANGED <<config, up, outbound>>
  BY DEF Calls
<1>2. /\ hand \in Hands /\ hand.todo # <<>> /\ hand.tries \in 0..2 /\ ModeOK(config, hand)
      /\ Arrived(config, hand, arrived, arrived')
  BY <1>1, Ready, ArrivalIs, HandFields
<1> DEFINE h2 == TextNext(r, hand)
<1>3. GoneOn(h2, fate, hand', fate')
  BY DEF DiscordText, GoOn, GoneOn, TextNext
<1>4. h2 = Rest(hand) \/ h2 = [hand EXCEPT !.todo = <<>>] \/ (h2 = Again(hand) /\ hand.tries + 1 < 3)
  BY <1>2 DEF TextNext, SendRetries
<1> HIDE DEF h2
<1>5. CASE h2 = Rest(hand)
  <2>1. Goes(config, hand, h2, arrived, arrived')
    BY <1>1, <1>2, <1>5, RestGoes
  <2> QED
    BY <1>1, <1>3, <2>1, Onward
<1>6. CASE h2 = [hand EXCEPT !.todo = <<>>]
  <2>1. Goes(config, hand, h2, arrived, arrived')
    BY <1>1, <1>2, <1>6, EmptyGoes
  <2> QED
    BY <1>1, <1>3, <2>1, Onward
<1>7. CASE h2 = Again(hand) /\ hand.tries + 1 < 3
  BY <1>1, <1>2, <1>3, <1>7, DiscordAgain
<1> QED
  BY <1>4, <1>5, <1>6, <1>7

LEMMA DiscordKeeps ==
  ASSUME NEW r, OutInv, DiscordCall(r)
  PROVE  OutInv'
BY DiscordMediaKeeps, DiscordTextKeeps DEF DiscordCall

(* Matrix *)

MatrixRest(r, i, h) ==
  IF r \in {"missing", "late", "lost"} THEN [Rest(h) EXCEPT !.failed = @ \cup {i}] ELSE Rest(h)

LEMMA MatrixMediaKeeps ==
  ASSUME NEW r, OutInv, Calls({"matrix"}, r), Arrival(r), MatrixMedia(r)
  PROVE  OutInv'
<1>1. hand # None /\ config.adapter = "matrix" /\ UNCHANGED <<config, up, outbound>>
  BY DEF Calls
<1>2. /\ hand \in Hands /\ hand.todo # <<>> /\ Piece = hand.todo[1] /\ Piece.i \in Nat
      /\ Arrived(config, hand, arrived, arrived')
  BY <1>1, Ready, ArrivalIs
<1>3. hand.todo[1].what = "media"
  BY <1>2 DEF MatrixMedia
<1> DEFINE rest == MatrixRest(r, Piece.i, hand)
           c == (rest.todo = <<>> \/ Head(rest.todo).what # "media") /\ rest.failed # {}
<1>4. GoneOn(Noted(c, rest), fate, hand', fate')
  BY DEF MatrixMedia, GoOn, GoneOn, MatrixRest, Noted
<1>5. rest = Rest(hand) \/ rest = [Rest(hand) EXCEPT !.failed = @ \cup {Piece.i}]
  BY DEF MatrixRest
<1> HIDE DEF rest
<1>6. Rest(hand) \in Hands /\ Rest(hand).id = hand.id /\ Rest(hand).todo = Tail(hand.todo)
  BY <1>2, RestIs
<1>7. rest \in Hands /\ rest.id = hand.id /\ rest.todo = Tail(hand.todo)
  <2>1. CASE rest = Rest(hand)
    BY <1>6, <2>1
  <2>2. CASE rest = [Rest(hand) EXCEPT !.failed = @ \cup {Piece.i}]
    BY <1>2, <1>6, <2>2, FailedSet
  <2> QED
    BY <1>5, <2>1, <2>2
<1>8. Noted(c, rest) = rest \/ Noted(c, rest) = [rest EXCEPT !.todo = <<Note(1)>>]
  BY DEF Noted
<1>9. config.adapter \in NoteLast
  BY <1>1 DEF NoteLast
<1>10. Goes(config, hand, Noted(c, rest), arrived, arrived')
  BY <1>2, <1>3, <1>7, <1>8, <1>9, ListedGoes
<1> QED
  BY <1>1, <1>4, <1>10, Onward

LEMMA MatrixTextKeeps ==
  ASSUME NEW r, OutInv, Calls({"matrix"}, r), Arrival(r), MatrixText(r)
  PROVE  OutInv'
<1>1. hand # None /\ config.adapter = "matrix" /\ UNCHANGED <<config, up, outbound>>
  BY DEF Calls
<1>2. /\ hand \in Hands /\ hand.todo # <<>> /\ ModeOK(config, hand)
      /\ Arrived(config, hand, arrived, arrived')
  BY <1>1, Ready, ArrivalIs
<1>3. CASE r \in {"ok", "refused"}
  <2>1. GoneOn(Rest(hand), fate, hand', fate')
    BY <1>3 DEF MatrixText, GoOn, GoneOn
  <2>2. Goes(config, hand, Rest(hand), arrived, arrived')
    BY <1>1, <1>2, RestGoes
  <2> QED
    BY <1>1, <2>1, <2>2, Onward
<1>4. CASE r \notin {"ok", "refused"}
  BY <1>1, <1>2, <1>4, RaisedKeeps DEF MatrixText
<1> QED
  BY <1>3, <1>4

LEMMA MatrixKeeps ==
  ASSUME NEW r, OutInv, MatrixCall(r)
  PROVE  OutInv'
BY MatrixMediaKeeps, MatrixTextKeeps DEF MatrixCall

(* DingTalk *)

LEMMA DingTalkMade ==
  ASSUME NEW g, NEW h, g.adapter = "dingtalk", h.todo[1].what = "media"
  PROVE  /\ h.mode = "start" => Made(g, h) = 0
         /\ h.mode = "file" => Made(g, h) = 2
         /\ h.mode \notin {"start", "file"} => Made(g, h) = 1
         /\ ModeOK(g, h)
BY DEF Made, ModeOK

\* The hand in another mode: the next way to send the attachment, or what comes after it.
LEMMA DingTalkStays ==
  ASSUME NEW mode \in Modes, OutInv, hand # None, config.adapter = "dingtalk",
         UNCHANGED <<config, up, outbound>>, Arrived(config, hand, arrived, arrived'),
         GoneOn([hand EXCEPT !.mode = mode], fate, hand', fate'), Piece.what = "media",
         \/ arrived' = arrived /\ hand.mode \in {"start", "upload"} /\ mode \in {"image", "file"}
         \/ hand.mode = "start" /\ mode = "upload"
         \/ hand.mode = "image" /\ mode = "file"
  PROVE  OutInv'
<1> DEFINE h2 == [hand EXCEPT !.mode = mode]
<1>1. hand \in Hands /\ hand.todo[1].what = "media"
  BY Ready
<1>2. h2 \in Hands /\ h2.id = hand.id /\ h2.todo = hand.todo /\ h2.mode = mode
  BY <1>1, ModeSet
<1>3. GoneOn(h2, fate, hand', fate')
  OBVIOUS
<1> HIDE DEF h2
<1>4. ModeOK(config, h2)
  BY <1>1, <1>2, DingTalkMade
<1>5. \/ arrived' = arrived /\ Made(config, hand) <= Made(config, h2)
      \/ Made(config, hand) < Made(config, h2)
  BY <1>1, <1>2, DingTalkMade
<1>6. Goes(config, hand, h2, arrived, arrived')
  BY <1>1, <1>2, <1>4, <1>5, StayGoes
<1> QED
  BY <1>3, <1>6, Onward

LEMMA DingTalkMoves ==
  ASSUME NEW h, OutInv, hand # None, config.adapter = "dingtalk", UNCHANGED <<config, up, outbound>>,
         Arrived(config, hand, arrived, arrived'), GoneOn([h EXCEPT !.mode = "start"], fate, hand', fate'),
         h = Rest(hand) \/ (h = InsteadNote(hand) /\ Piece.what = "media")
  PROVE  OutInv'
<1> DEFINE h2 == [h EXCEPT !.mode = "start"]
<1>1. hand \in Hands /\ hand.todo # <<>> /\ Piece = hand.todo[1]
  BY Ready
<1>2. h \in Hands /\ h.id = hand.id
  BY <1>1, RestIs, InsteadNoteIs
<1>3. "start" \in Modes /\ "dingtalk" \notin NoteLast
  BY DEF Modes, NoteLast
<1>4. h2 \in Hands /\ h2.id = hand.id /\ h2.todo = h.todo
  BY <1>2, <1>3, ModeSet
<1>5. Move(config.adapter, hand.todo, h.todo)
  BY <1>1, <1>3, RestIs, InsteadNoteIs DEF Move
<1> HIDE DEF h2
<1>6. Goes(config, hand, h2, arrived, arrived')
  BY <1>4, <1>5, AnyMode, MoveGoes
<1> QED
  BY <1>6, Onward DEF h2

LEMMA DingTalkUploadKeeps ==
  ASSUME NEW r, NEW image \in BOOLEAN, OutInv, Calls({"dingtalk"}, r), DingTalkUpload(r, image)
  PROVE  OutInv'
<1>1. hand # None /\ config.adapter = "dingtalk" /\ UNCHANGED <<config, up, outbound>>
  BY DEF Calls
<1>2. Arrived(config, hand, arrived, arrived') /\ arrived' = arrived
  BY UnseenIs DEF DingTalkUpload
<1>3. CASE r = "ok"
  <2> DEFINE mode == IF image THEN "image" ELSE "file"
  <2>1. mode \in Modes /\ mode \in {"image", "file"}
    BY DEF Modes
  <2>2. GoneOn([hand EXCEPT !.mode = mode], fate, hand', fate')
    BY <1>3 DEF DingTalkUpload, GoOn, GoneOn
  <2>3. Piece.what = "media" /\ hand.mode \in {"start", "upload"}
    BY DEF DingTalkUpload
  <2> HIDE DEF mode
  <2> QED
    BY <1>1, <1>2, <2>1, <2>2, <2>3, DingTalkStays
<1>4. CASE r # "ok"
  <2>1. GoneOn([InsteadNote(hand) EXCEPT !.mode = "start"], fate, hand', fate')
    BY <1>4 DEF DingTalkUpload, GoOn, GoneOn
  <2>2. Piece.what = "media"
    BY DEF DingTalkUpload
  <2> QED
    BY <1>1, <1>2, <2>1, <2>2, DingTalkMoves
<1> QED
  BY <1>3, <1>4

ImageNext(r, h) ==
  CASE r = "ok" -> [Rest(h) EXCEPT !.mode = "start"]
    [] r # "ok" /\ h.mode = "start" -> [h EXCEPT !.mode = "upload"]
    [] r # "ok" /\ h.mode = "image" -> [h EXCEPT !.mode = "file"]
    [] OTHER -> [InsteadNote(h) EXCEPT !.mode = "start"]

LEMMA DingTalkMediaKeeps ==
  ASSUME NEW r, OutInv, Calls({"dingtalk"}, r), DingTalkMedia(r)
  PROVE  OutInv'
<1>1. hand # None /\ config.adapter = "dingtalk" /\ UNCHANGED <<config, up, outbound>>
  BY DEF Calls
<1>2. Arrived(config, hand, arrived, arrived') /\ Piece.what = "media"
  BY <1>1, ArrivalIs DEF DingTalkMedia
<1> DEFINE h2 == ImageNext(r, hand)
<1>3. GoneOn(h2, fate, hand', fate')
  BY DEF DingTalkMedia, GoOn, GoneOn, ImageNext
<1>4. \/ h2 = [Rest(hand) EXCEPT !.mode = "start"]
      \/ h2 = [InsteadNote(hand) EXCEPT !.mode = "start"]
      \/ h2 = [hand EXCEPT !.mode = "upload"] /\ hand.mode = "start"
      \/ h2 = [hand EXCEPT !.mode = "file"] /\ hand.mode = "image"
  BY DEF ImageNext
<1> HIDE DEF h2
<1>5. "upload" \in Modes /\ "file" \in Modes
  BY DEF Modes
<1>6. CASE h2 = [Rest(hand) EXCEPT !.mode = "start"]
  BY <1>1, <1>2, <1>3, <1>6, DingTalkMoves
<1>7. CASE h2 = [InsteadNote(hand) EXCEPT !.mode = "start"]
  BY <1>1, <1>2, <1>3, <1>7, DingTalkMoves
<1>8. CASE h2 = [hand EXCEPT !.mode = "upload"] /\ hand.mode = "start"
  BY <1>1, <1>2, <1>3, <1>5, <1>8, DingTalkStays
<1>9. CASE h2 = [hand EXCEPT !.mode = "file"] /\ hand.mode = "image"
  BY <1>1, <1>2, <1>3, <1>5, <1>9, DingTalkStays
<1> QED
  BY <1>4, <1>6, <1>7, <1>8, <1>9

\* A call for a text, or for an attachment of an adapter that does not retry.
LEMMA RestKeeps ==
  ASSUME OutInv, hand # None, config.adapter # "telegram", UNCHANGED <<config, up, outbound>>,
         Arrived(config, hand, arrived, arrived'), GoOn(Rest(hand))
  PROVE  OutInv'
<1>1. hand \in Hands /\ hand.todo # <<>> /\ ModeOK(config, hand)
  BY Ready
<1>2. Goes(config, hand, Rest(hand), arrived, arrived')
  BY <1>1, RestGoes
<1>3. GoneOn(Rest(hand), fate, hand', fate')
  BY DEF GoOn, GoneOn
<1> QED
  BY <1>2, <1>3, Onward

LEMMA DingTalkKeeps ==
  ASSUME NEW r, OutInv, DingTalkCall(r)
  PROVE  OutInv'
<1>1. Calls({"dingtalk"}, r) /\ hand # None /\ config.adapter = "dingtalk" /\ UNCHANGED <<config, up, outbound>>
  BY DEF DingTalkCall, Calls
<1>2. ASSUME DingTalkText(r)
      PROVE  OutInv'
  <2>1. Arrived(config, hand, arrived, arrived') /\ GoOn(Rest(hand))
    BY <1>1, <1>2, ArrivalIs DEF DingTalkText
  <2> QED
    BY <1>1, <2>1, RestKeeps
<1> QED
  BY <1>1, <1>2, DingTalkUploadKeeps, DingTalkMediaKeeps DEF DingTalkCall

(* Feishu *)

LEMMA FeishuMade ==
  ASSUME NEW g, NEW h, g.adapter = "feishu"
  PROVE  /\ g.quote /\ h.mode = "quote" => Made(g, h) = 0
         /\ g.quote /\ h.mode # "quote" => Made(g, h) = 1
         /\ ModeOK(g, h) <=> (h.mode = "quote" => g.quote)
BY DEF Made, ModeOK

SentNext(r, h) ==
  IF h.mode = "quote" /\ r # "ok" THEN [h EXCEPT !.mode = "create"]
  ELSE [Rest(h) EXCEPT !.mode = "create"]

LEMMA FeishuSentKeeps ==
  ASSUME NEW r, OutInv, FeishuSent(r)
  PROVE  OutInv'
<1>1. hand # None /\ config.adapter = "feishu" /\ UNCHANGED <<config, up, outbound>>
  BY DEF FeishuSent, Calls
<1>2. /\ hand \in Hands /\ hand.todo # <<>> /\ ModeOK(config, hand)
      /\ Arrived(config, hand, arrived, arrived')
  BY <1>1, Ready, ArrivalIs DEF FeishuSent
<1>3. "create" \in Modes
  BY DEF Modes
<1>6. GoneOn(SentNext(r, hand), fate, hand', fate')
  BY DEF FeishuSent, GoOn, GoneOn, SentNext
<1>4. CASE hand.mode = "quote" /\ r # "ok"
  <2> DEFINE h2 == [hand EXCEPT !.mode = "create"]
  <2>1. GoneOn(h2, fate, hand', fate')
    BY <1>4, <1>6 DEF SentNext
  <2>2. h2 \in Hands /\ h2.id = hand.id /\ h2.todo = hand.todo /\ h2.mode = "create"
    BY <1>2, <1>3, ModeSet
  <2> HIDE DEF h2
  <2>3. ModeOK(config, h2) /\ Made(config, hand) < Made(config, h2)
    BY <1>1, <1>2, <1>4, <2>2, FeishuMade
  <2>4. Goes(config, hand, h2, arrived, arrived')
    BY <1>2, <2>2, <2>3, StayGoes
  <2> QED
    BY <1>1, <2>1, <2>4, Onward
<1>5. CASE ~(hand.mode = "quote" /\ r # "ok")
  <2> DEFINE h2 == [Rest(hand) EXCEPT !.mode = "create"]
  <2>1. GoneOn(h2, fate, hand', fate')
    BY <1>5, <1>6 DEF SentNext
  <2>2. Rest(hand) \in Hands /\ Rest(hand).id = hand.id /\ Rest(hand).todo = Tail(hand.todo)
    BY <1>2, RestIs
  <2>3. h2 \in Hands /\ h2.id = hand.id /\ h2.todo = Tail(hand.todo) /\ h2.mode = "create"
    BY <1>3, <2>2, ModeSet
  <2> HIDE DEF h2
  <2>4. ModeOK(config, h2) /\ Move(config.adapter, hand.todo, h2.todo)
    BY <1>1, <2>3, FeishuMade DEF Move
  <2>5. Goes(config, hand, h2, arrived, arrived')
    BY <1>1, <1>2, <2>3, <2>4, MoveGoes
  <2> QED
    BY <1>1, <2>1, <2>5, Onward
<1> QED
  BY <1>4, <1>5

LEMMA FeishuKeeps ==
  ASSUME NEW r, OutInv, FeishuCall(r)
  PROVE  OutInv'
<1>1. ASSUME FeishuUploadFails
      PROVE  OutInv'
  <2>1. hand # None /\ config.adapter = "feishu" /\ UNCHANGED <<config, up, outbound>>
    BY <1>1 DEF FeishuUploadFails, Calls
  <2>2. Arrived(config, hand, arrived, arrived') /\ GoOn(Rest(hand))
    BY <1>1, UnseenIs DEF FeishuUploadFails
  <2> QED
    BY <2>1, <2>2, RestKeeps
<1> QED
  BY <1>1, FeishuSentKeeps DEF FeishuCall

(* Slack, and the adapters that make one call *)

LEMMA SlackKeeps ==
  ASSUME NEW r, OutInv, SlackCall(r)
  PROVE  OutInv'
<1>1. hand # None /\ config.adapter = "slack" /\ UNCHANGED <<config, up, outbound>>
  BY DEF SlackCall, Calls
<1>2. hand \in Hands /\ Arrived(config, hand, arrived, arrived')
  BY <1>1, Ready, ArrivalIs DEF SlackCall
<1>3. CASE Piece.what = "chunk" /\ r # "ok"
  <2>1. GoneOn([hand EXCEPT !.todo = <<>>], fate, hand', fate')
    BY <1>3 DEF SlackCall, GoOn, GoneOn
  <2>2. Goes(config, hand, [hand EXCEPT !.todo = <<>>], arrived, arrived')
    BY <1>1, <1>2, EmptyGoes
  <2> QED
    BY <1>1, <2>1, <2>2, Onward
<1>4. CASE ~(Piece.what = "chunk" /\ r # "ok")
  <2>1. GoOn(Rest(hand))
    BY <1>4 DEF SlackCall, GoOn
  <2> QED
    BY <1>1, <1>2, <2>1, RestKeeps
<1> QED
  BY <1>3, <1>4

LEMMA OnceKeeps ==
  ASSUME NEW a, NEW r, a # "telegram", OutInv, Once(a, r), GoOn(Rest(hand)) \/ Raised
  PROVE  OutInv'
<1>1. hand # None /\ config.adapter = a /\ Arrival(r) /\ UNCHANGED <<config, up, outbound>>
  BY DEF Once, Calls
<1>2. Arrived(config, hand, arrived, arrived')
  BY <1>1, ArrivalIs
<1> QED
  BY <1>1, <1>2, RestKeeps, RaisedKeeps

LEMMA CallKeeps ==
  ASSUME OutInv, PlatformCall
  PROVE  OutInv'
<1>1. PICK r \in Results :
        TelegramCall(r) \/ DiscordCall(r) \/ MatrixCall(r) \/ DingTalkCall(r) \/ FeishuCall(r)
          \/ SlackCall(r) \/ WhatsAppCall(r) \/ QQCall(r) \/ WecomCall(r) \/ MochatCall(r) \/ EmailCall(r)
  BY DEF PlatformCall
<1>2. WhatsAppCall(r) \/ QQCall(r) \/ WecomCall(r) \/ MochatCall(r) \/ EmailCall(r) => OutInv'
  BY OnceKeeps DEF WhatsAppCall, QQCall, WecomCall, MochatCall, EmailCall
<1> QED
  BY <1>1, <1>2, TelegramKeeps, DiscordKeeps, MatrixKeeps, DingTalkKeeps, FeishuKeeps, SlackKeeps

-----------------------------------------------------------------------------
(* The plan of a message *)

\* The pieces of one kind.
IsPieces(s, w, n) ==
  /\ s \in Seq(PieceSet) /\ Len(s) = n
  /\ \A i \in 1..n : s[i].what = w /\ s[i].i = i

LEMMA PiecesIs ==
  ASSUME NEW w \in {"media", "chunk"}, NEW n \in Nat
  PROVE  IsPieces(Pieces(w, n), w, n)
<1> DEFINE e(i) == [what |-> w, i |-> i]
<1>1. \A i \in 1..n : e(i) \in PieceSet
  BY DEF PieceSet, Whats
<1>2. Pieces(w, n) = [i \in 1..n |-> e(i)]
  BY DEF Pieces
<1>3. \A i \in 1..n : e(i).what = w /\ e(i).i = i
  OBVIOUS
<1> HIDE DEF e
<1>4. [i \in 1..n |-> e(i)] \in Seq(PieceSet) /\ Len([i \in 1..n |-> e(i)]) = n
  BY <1>1
<1> QED
  BY <1>2, <1>3, <1>4 DEF IsPieces

\* A plan for a message with so many attachments.
PlanOK(a, plan, media) ==
  /\ plan \in Seq(PieceSet) /\ TodoOK(a, plan)
  /\ a = "telegram" => \A i \in 1..media : Coming(plan, i)

\* The attachments and the chunks, in either order.
LEMMA TwoIs ==
  ASSUME NEW a, NEW s, NEW t, NEW w1, NEW w2, NEW n1 \in Nat, NEW n2 \in Nat,
         IsPieces(s, w1, n1), IsPieces(t, w2, n2),
         \/ w1 = "media" /\ w2 = "chunk" /\ a \notin TextFirst
         \/ w1 = "chunk" /\ w2 = "media" /\ a \in TextFirst
  PROVE  /\ s \o t \in Seq(PieceSet)
         /\ TodoOK(a, s \o t)
         /\ w1 = "media" => \A i \in 1..n1 : Coming(s \o t, i)
<1> DEFINE plan == s \o t
<1>1. w1 # "note" /\ w2 # "note" /\ w1 # w2
  OBVIOUS
<1>2. /\ s \in Seq(PieceSet) /\ Len(s) = n1 /\ \A i \in 1..n1 : s[i].what = w1 /\ s[i].i = i
  BY DEF IsPieces
<1>3. /\ t \in Seq(PieceSet) /\ Len(t) = n2 /\ \A i \in 1..n2 : t[i].what = w2 /\ t[i].i = i
  BY DEF IsPieces
<1>4. /\ plan \in Seq(PieceSet) /\ Len(plan) = n1 + n2
      /\ \A i \in 1..(n1 + n2) : plan[i] = IF i <= n1 THEN s[i] ELSE t[i - n1]
  <2>1. s \in Seq(PieceSet) /\ t \in Seq(PieceSet)
    BY <1>2, <1>3
  <2>2. /\ s \o t \in Seq(PieceSet) /\ Len(s \o t) = Len(s) + Len(t)
        /\ \A i \in 1..(Len(s) + Len(t)) : (s \o t)[i] = IF i <= Len(s) THEN s[i] ELSE t[i - Len(s)]
    BY <2>1, ConcatProperties, Zenon
  <2>3. Len(s) = n1 /\ Len(t) = n2
    BY <1>2, <1>3
  <2> QED
    BY <2>2, <2>3, Zenon
<1> HIDE DEF plan
<1>5. ASSUME NEW j \in 1..Len(plan)
      PROVE  \/ j <= n1 /\ plan[j].what = w1 /\ plan[j].i = j
             \/ j > n1 /\ plan[j].what = w2 /\ plan[j].i = j - n1
  <2>1. CASE j <= n1
    BY <2>1, <1>2, <1>4
  <2>2. CASE j > n1
    <3>1. j - n1 \in 1..n2 /\ plan[j] = t[j - n1]
      BY <2>2, <1>4
    <3> QED
      BY <2>2, <3>1, <1>3
  <2> QED
    BY <2>1, <2>2, <1>4
<1>6. ASSUME NEW j \in 1..Len(plan), NEW k \in 1..Len(plan), j < k
      PROVE  Sooner(a, plan[j], plan[k])
  <2>1. \/ plan[j].what = plan[k].what /\ plan[j].i < plan[k].i
        \/ plan[j].what = w1 /\ plan[k].what = w2
    BY <1>4, <1>5, <1>6
  <2> QED
    BY <2>1 DEF Sooner
<1>7. TodoOK(a, plan)
  BY <1>1, <1>5, <1>6 DEF TodoOK
<1>8. ASSUME w1 = "media", NEW i \in 1..n1
      PROVE  Coming(plan, i)
  <2>1. i \in 1..Len(plan) /\ plan[i] = s[i]
    BY <1>4
  <2> QED
    BY <1>2, <1>8, <2>1 DEF Coming
<1> QED
  BY <1>4, <1>7, <1>8 DEF plan

LEMMA MediaFirst ==
  ASSUME NEW a, NEW n1 \in Nat, NEW n2 \in Nat, a \notin TextFirst
  PROVE  PlanOK(a, Pieces("media", n1) \o Pieces("chunk", n2), n1)
<1> DEFINE s == Pieces("media", n1)
           t == Pieces("chunk", n2)
<1>1. IsPieces(s, "media", n1) /\ IsPieces(t, "chunk", n2)
  BY PiecesIs
<1> HIDE DEF s, t
<1>2. s \o t \in Seq(PieceSet) /\ TodoOK(a, s \o t) /\ \A i \in 1..n1 : Coming(s \o t, i)
  BY <1>1, TwoIs
<1> QED
  BY <1>2 DEF PlanOK, s, t

LEMMA ChunksFirst ==
  ASSUME NEW a, NEW n1 \in Nat, NEW n2 \in Nat, a \in TextFirst
  PROVE  PlanOK(a, Pieces("chunk", n1) \o Pieces("media", n2), n2)
<1> DEFINE s == Pieces("chunk", n1)
           t == Pieces("media", n2)
<1>1. IsPieces(s, "chunk", n1) /\ IsPieces(t, "media", n2)
  BY PiecesIs
<1> HIDE DEF s, t
<1>2. s \o t \in Seq(PieceSet) /\ TodoOK(a, s \o t) /\ a # "telegram"
  BY <1>1, TwoIs DEF TextFirst
<1> QED
  BY <1>2 DEF PlanOK, s, t

\* The text alone.
LEMMA ChunksOnly ==
  ASSUME NEW a, NEW n \in Nat, NEW media, a # "telegram"
  PROVE  PlanOK(a, Pieces("chunk", n), media)
<1> DEFINE s == Pieces("chunk", n)
<1>1. s \in Seq(PieceSet) /\ Len(s) = n /\ \A i \in 1..n : s[i].what = "chunk" /\ s[i].i = i
  BY PiecesIs DEF IsPieces
<1> HIDE DEF s
<1>2. TodoOK(a, s)
  BY <1>1 DEF TodoOK, Sooner
<1> QED
  BY <1>1, <1>2 DEF s, PlanOK

LEMMA PlanIs ==
  ASSUME NEW m \in Messages
  PROVE  PlanOK(config.adapter, Plan(m), m.media)
<1> DEFINE a == config.adapter
<1>1. m.media \in Nat /\ m.chunks \in Nat
  BY DEF Messages
<1>2. Media(m) = Pieces("media", m.media) /\ Chunks(m) = Pieces("chunk", m.chunks)
  BY DEF Media, Chunks
<1>3. PICK w \in Nat : w = IF m.chunks > 0 THEN 1 ELSE 0
  OBVIOUS
<1>4. CASE a = "slack"
  <2>1. PICK n \in Nat : n = IF m.chunks > 0 \/ m.media = 0 THEN 1 ELSE 0
    OBVIOUS
  <2>2. Plan(m) = Pieces("chunk", n) \o Pieces("media", m.media)
    BY <1>2, <1>4, <2>1 DEF Plan, Text
  <2>3. a \in TextFirst
    BY <1>4 DEF TextFirst
  <2> QED
    BY <1>1, <2>2, <2>3, ChunksFirst
<1>5. CASE a = "matrix"
  <2>1. PICK n \in Nat : n = IF m.chunks > 0 \/ m.media = 0 THEN 1 ELSE 0
    OBVIOUS
  <2>2. Plan(m) = Pieces("media", m.media) \o Pieces("chunk", n)
    BY <1>2, <1>5, <2>1 DEF Plan, Text
  <2>3. a \notin TextFirst
    BY <1>5 DEF TextFirst
  <2> QED
    BY <1>1, <2>2, <2>3, MediaFirst
<1>6. CASE a = "dingtalk"
  <2>1. Plan(m) = Pieces("chunk", w) \o Pieces("media", m.media)
    BY <1>2, <1>3, <1>6 DEF Plan, Text
  <2>2. a \in TextFirst
    BY <1>6 DEF TextFirst
  <2> QED
    BY <1>1, <2>1, <2>2, ChunksFirst
<1>7. CASE (a = "feishu" /\ m.kind = "hint") \/ a \in OneCall
  <2>1. a # "telegram"
    BY <1>7 DEF OneCall
  <2>2. CASE a = "feishu" \/ a = "wecom"
    <3>1. Plan(m) = Pieces("chunk", w)
      BY <1>3, <1>7, <2>2 DEF Plan, Text, OneCall
    <3> QED
      BY <2>1, <3>1, ChunksOnly
  <2>3. CASE a = "mochat"
    <3>1. PICK n \in Nat : n = IF m.chunks > 0 \/ m.media > 0 THEN 1 ELSE 0
      OBVIOUS
    <3>2. Plan(m) = Pieces("chunk", n)
      BY <2>3, <3>1 DEF Plan, Text
    <3> QED
      BY <2>1, <3>2, ChunksOnly
  <2>4. CASE a \in {"whatsapp", "qq", "email"}
    <3>1. Plan(m) = Pieces("chunk", 1)
      BY <2>4 DEF Plan, Text, OneCall
    <3> QED
      BY <2>1, <3>1, ChunksOnly
  <2> QED
    BY <1>7, <2>2, <2>3, <2>4 DEF OneCall
<1>8. CASE a \notin {"slack", "matrix", "dingtalk"} \cup OneCall /\ ~(a = "feishu" /\ m.kind = "hint")
  <2>1. Plan(m) = Pieces("media", m.media) \o Pieces("chunk", m.chunks)
    BY <1>2, <1>8 DEF Plan, OneCall
  <2>2. a \notin TextFirst
    BY <1>8 DEF TextFirst
  <2> QED
    BY <1>1, <2>1, <2>2, MediaFirst
<1> QED
  BY <1>4, <1>5, <1>6, <1>7, <1>8

-----------------------------------------------------------------------------
(* The queue *)

\* The dispatcher takes the first message out of the queue.
LEMMA TakenIs ==
  ASSUME NEW g, NEW out, NEW arr, NEW ft, NEW v \in Fates, v # "queued",
         OutOK(g, out, None, arr, ft), out # <<>>
  PROVE  LET m == Head(out)
             ft2 == [ft EXCEPT ![m.id].is = v]
         IN  /\ m \in Messages /\ m.id \in 1..Len(ft) /\ m.id = Taken(out, ft) + 1
             /\ m.media = ft[m.id].m.media
             /\ Tail(out) \in Seq(Messages) /\ ft2 \in Seq(FateRecords) /\ Len(ft2) = Len(ft)
             /\ Taken(Tail(out), ft2) = m.id
             /\ ft2[m.id].is = v
             /\ \A n \in 1..Len(ft) : /\ ft2[n].m = ft[n].m
                                      /\ n # m.id => ft2[n].is = ft[n].is
             /\ Line(Tail(out), None, ft2)
<1> DEFINE m == Head(out)
           ft2 == [ft EXCEPT ![m.id].is = v]
           t == Taken(out, ft)
<1>1. /\ out \in Seq(Messages) /\ ft \in Seq(FateRecords) /\ Len(out) <= Len(ft)
      /\ \A k \in 1..Len(out) : out[k].id = t + k /\ out[k].media = ft[t + k].m.media
      /\ \A n \in 1..Len(ft) : ft[n].is = "queued" <=> n > t
  BY Zenon DEF OutOK, Types, Line
<1>2. Len(out) \in Nat /\ Len(ft) \in Nat /\ Len(out) >= 1 /\ 1 \in 1..Len(out)
  BY <1>1, EmptySeq, LenProperties
<1>3. t \in Nat /\ t + 1 \in 1..Len(ft) /\ t = Len(ft) - Len(out)
  BY <1>1, <1>2 DEF Taken
<1>4. /\ Tail(out) \in Seq(Messages) /\ Len(Tail(out)) = Len(out) - 1
      /\ \A k \in 1..Len(Tail(out)) : Tail(out)[k] = out[k + 1]
  BY <1>1, HeadTailProperties
<1>5. m \in Messages /\ m = out[1]
  BY <1>1, <1>2, HeadTailProperties
<1> HIDE DEF m, t
<1>6. m.id = t + 1 /\ m.media = ft[t + 1].m.media
  BY <1>1, <1>2, <1>5
<1>7. m.id \in 1..Len(ft)
  BY <1>3, <1>6
<1>8. /\ ft2 \in Seq(FateRecords) /\ Len(ft2) = Len(ft)
      /\ \A k \in 1..Len(ft) : ft2[k].m = ft[k].m /\ ft2[k].is = IF k = m.id THEN v ELSE ft[k].is
  BY <1>1, <1>7, FateIs
<1> HIDE DEF ft2
<1>9. Taken(Tail(out), ft2) = t + 1
  BY <1>2, <1>3, <1>4, <1>8 DEF Taken
<1>10. Line(Tail(out), None, ft2)
  <2>1. Len(Tail(out)) <= Len(ft2)
    BY <1>1, <1>2, <1>4, <1>8
  <2>2. ASSUME NEW k \in 1..Len(Tail(out))
        PROVE  Tail(out)[k].id = (t + 1) + k /\ Tail(out)[k].media = ft2[(t + 1) + k].m.media
    <3>1. k + 1 \in 1..Len(out) /\ t + (k + 1) = (t + 1) + k /\ (t + 1) + k \in 1..Len(ft)
      BY <1>2, <1>3, <1>4
    <3>2. Tail(out)[k].id = t + (k + 1) /\ Tail(out)[k].media = ft[t + (k + 1)].m.media
      BY <1>1, <1>4, <3>1
    <3> QED
      BY <1>8, <3>1, <3>2
  <2>3. ASSUME NEW n \in 1..Len(ft2)
        PROVE  ft2[n].is = "queued" <=> n > t + 1
    <3>1. n \in 1..Len(ft)
      BY <1>8
    <3>2. CASE n = m.id
      BY <3>1, <3>2, <1>3, <1>6, <1>8
    <3>3. CASE n # m.id
      <4>1. ft2[n].is = ft[n].is /\ (ft[n].is = "queued" <=> n > t)
        BY <3>1, <3>3, <1>1, <1>8
      <4>2. n > t <=> n > t + 1
        BY <3>1, <3>3, <1>3, <1>6
      <4> QED
        BY <4>1, <4>2
    <3> QED
      BY <3>2, <3>3
  <2> QED
    BY <1>9, <2>1, <2>2, <2>3 DEF Line
<1>11. m.media = ft[m.id].m.media /\ ft2[m.id].is = v
  BY <1>6, <1>7, <1>8
<1>12. \A n \in 1..Len(ft) : ft2[n].m = ft[n].m /\ (n # m.id => ft2[n].is = ft[n].is)
  BY <1>8
<1>13. Taken(Tail(out), ft2) = m.id /\ m.id = t + 1
  BY <1>6, <1>9
<1> QED
  BY <1>4, <1>5, <1>7, <1>8, <1>10, <1>11, <1>12, <1>13 DEF m, ft2, t

\* A message that is dropped, or of which the dispatcher starts a send().
LEMMA DropKeeps ==
  ASSUME NEW g, NEW out, NEW arr, NEW ft, OutOK(g, out, None, arr, ft), out # <<>>
  PROVE  OutOK(g, Tail(out), None, arr, [ft EXCEPT ![Head(out).id].is = "dropped"])
<1> DEFINE m == Head(out)
           ft2 == [ft EXCEPT ![m.id].is = "dropped"]
           t == Taken(out, ft)
<1>1. "dropped" \in Fates /\ "dropped" # "queued"
  BY DEF Fates
<1>2. /\ m.id \in 1..Len(ft) /\ m.id = t + 1
      /\ Tail(out) \in Seq(Messages) /\ ft2 \in Seq(FateRecords) /\ Len(ft2) = Len(ft)
      /\ Taken(Tail(out), ft2) = m.id /\ ft2[m.id].is = "dropped"
      /\ \A n \in 1..Len(ft) : ft2[n].m = ft[n].m /\ (n # m.id => ft2[n].is = ft[n].is)
      /\ Line(Tail(out), None, ft2)
  BY <1>1, TakenIs
<1>3. /\ g \in Configs /\ arr \in Seq(Sights)
      /\ \A k \in 1..Len(arr) : arr[k].piece.id <= t
      /\ Row(g.adapter, arr) /\ Copies(g, None, arr) /\ Cover(g, None, arr, ft)
  BY Zenon DEF OutOK, Types, Order
<1> HIDE DEF m, ft2
<1>4. t \in Int
  BY <1>2, LenProperties DEF OutOK, Types, Taken
<1> HIDE DEF t
<1>5. ASSUME NEW k \in 1..Len(arr)
      PROVE  arr[k].piece.id <= m.id
  <2>1. arr[k].piece.id \in Nat /\ arr[k].piece.id <= t
    BY <1>3, SightIs DEF Seens
  <2> QED
    BY <2>1, <1>2, <1>4
<1>6. Types(g, Tail(out), None, arr, ft2)
  BY <1>2, <1>3 DEF Types
<1>7. Order(g, None, arr, Taken(Tail(out), ft2))
  BY <1>2, <1>3, <1>5 DEF Order
<1>8. Cover(g, None, arr, ft2)
  <2> SUFFICES ASSUME g.adapter = "telegram", NEW n \in 1..Len(ft), NEW i \in 1..ft[n].m.media, ft2[n].is = "done"
               PROVE  Told(arr, n, i)
    BY <1>2 DEF Cover
  <2> QED
    BY <1>2, <1>3 DEF Cover
<1> QED
  BY <1>2, <1>3, <1>6, <1>7, <1>8 DEF OutOK, m, ft2

LEMMA SendKeeps ==
  ASSUME NEW g, NEW out, NEW arr, NEW ft, NEW h \in Hands, OutOK(g, out, None, arr, ft), out # <<>>,
         h.id = Head(out).id, h.todo # <<>>, PlanOK(g.adapter, h.todo, Head(out).media), ModeOK(g, h)
  PROVE  OutOK(g, Tail(out), h, arr, [ft EXCEPT ![Head(out).id].is = "sending"])
<1> DEFINE m == Head(out)
           ft2 == [ft EXCEPT ![m.id].is = "sending"]
           t == Taken(out, ft)
<1>1. "sending" \in Fates /\ "sending" # "queued"
  BY DEF Fates
<1>2. /\ m.id \in 1..Len(ft) /\ m.id = t + 1 /\ m.media = ft[m.id].m.media
      /\ Tail(out) \in Seq(Messages) /\ ft2 \in Seq(FateRecords) /\ Len(ft2) = Len(ft)
      /\ Taken(Tail(out), ft2) = m.id /\ ft2[m.id].is = "sending"
      /\ \A n \in 1..Len(ft) : ft2[n].m = ft[n].m /\ (n # m.id => ft2[n].is = ft[n].is)
      /\ Line(Tail(out), None, ft2)
  BY <1>1, TakenIs
<1>3. /\ g \in Configs /\ arr \in Seq(Sights)
      /\ \A k \in 1..Len(arr) : arr[k].piece.id <= t
      /\ Row(g.adapter, arr) /\ Copies(g, None, arr) /\ Cover(g, None, arr, ft)
  BY Zenon DEF OutOK, Types, Order
<1>4. h.id = m.id /\ PlanOK(g.adapter, h.todo, m.media)
  OBVIOUS
<1>5. t \in Int
  BY <1>2, LenProperties DEF OutOK, Types, Taken
<1> HIDE DEF m, ft2, t
<1>6. ASSUME NEW k \in 1..Len(arr)
      PROVE  arr[k].piece.id \in Nat /\ arr[k].piece.id < m.id /\ arr[k].piece.id <= m.id
  <2>1. arr[k].piece.id \in Nat /\ arr[k].piece.id <= t
    BY <1>3, SightIs DEF Seens
  <2> QED
    BY <2>1, <1>2, <1>5
<1>7. Types(g, Tail(out), h, arr, ft2)
  BY <1>2, <1>3 DEF Types
<1>8. Line(Tail(out), h, ft2)
  <2>1. m.id >= 1
    BY <1>2
  <2> QED
    BY <2>1, <1>2, <1>4, Zenon DEF Line
<1>9. Fresh(g.adapter, arr, h.id, h.todo)
  BY <1>4, <1>6 DEF Fresh, Earlier, Of
<1>10. h.todo \in Seq(PieceSet) /\ h.id \in Nat /\ TodoOK(g.adapter, h.todo)
  BY HandFields DEF PlanOK
<1>11. /\ Ahead(g.adapter, arr, h.id, h.todo)
       /\ \A k \in 1..Len(arr) : arr[k].piece # Of(h.id, h.todo[1])
  BY <1>3, <1>9, <1>10, FreshAhead
<1>12. Order(g, h, arr, Taken(Tail(out), ft2))
  BY <1>2, <1>3, <1>6, <1>10, <1>11 DEF Order
<1>13. Copies(g, h, arr)
  BY <1>3, <1>11, Zenon DEF Copies
<1>14. Cover(g, h, arr, ft2)
  <2> SUFFICES ASSUME g.adapter = "telegram", NEW n \in 1..Len(ft), NEW i \in 1..ft[n].m.media
               PROVE  /\ ft2[n].is = "done" => Told(arr, n, i)
                      /\ n = h.id => Told(arr, n, i) \/ Coming(h.todo, i)
    BY <1>2 DEF Cover
  <2>1. ft2[n].is = "done" => Told(arr, n, i)
    BY <1>2, <1>3 DEF Cover
  <2>2. n = h.id => Coming(h.todo, i)
    BY <1>2, <1>4 DEF PlanOK
  <2> QED
    BY <2>1, <2>2
<1> QED
  BY <1>7, <1>8, <1>12, <1>13, <1>14 DEF OutOK, m, ft2

\* A message is published.
LEMMA PublishedKeeps ==
  ASSUME NEW g, NEW out, NEW h, NEW arr, NEW ft, NEW m \in Shapes, OutOK(g, out, h, arr, ft)
  PROVE  OutOK(g, Append(out, [m EXCEPT !.id = Len(ft) + 1]), h, arr, Append(ft, [m |-> m, is |-> "queued"]))
<1> DEFINE x == [m EXCEPT !.id = Len(ft) + 1]
           e == [m |-> m, is |-> "queued"]
           out2 == Append(out, x)
           ft2 == Append(ft, e)
           t == Taken(out, ft)
<1>1. /\ g \in Configs /\ out \in Seq(Messages) /\ ft \in Seq(FateRecords) /\ arr \in Seq(Sights)
      /\ Len(out) <= Len(ft)
      /\ \A k \in 1..Len(out) : out[k].id = t + k /\ out[k].media = ft[t + k].m.media
      /\ \A n \in 1..Len(ft) : ft[n].is = "queued" <=> n > t
      /\ h # None => h \in Hands /\ h.todo # <<>> /\ h.id = t /\ h.id >= 1 /\ ft[h.id].is = "sending"
      /\ Order(g, h, arr, t) /\ Copies(g, h, arr) /\ Cover(g, h, arr, ft)
  BY Zenon DEF OutOK, Types, Line
<1>2. Len(out) \in Nat /\ Len(ft) \in Nat
  BY <1>1, LenProperties
<1>3. x \in Messages /\ x.id = Len(ft) + 1 /\ x.media = m.media
  <2>1. m \in [id: {0}, here: BOOLEAN, kind: {"final", "progress", "hint"}, media: Nat, chunks: Nat]
    BY ShapesAssumption
  <2> QED
    BY <1>2, <2>1 DEF Messages
<1>4. e \in FateRecords /\ e.m = m /\ e.is = "queued"
  BY DEF FateRecords, Fates
<1> HIDE DEF x, e
<1>5. /\ out2 \in Seq(Messages) /\ Len(out2) = Len(out) + 1 /\ out2[Len(out) + 1] = x
      /\ \A k \in 1..Len(out) : out2[k] = out[k]
  BY <1>1, <1>3, AppendProperties
<1>6. /\ ft2 \in Seq(FateRecords) /\ Len(ft2) = Len(ft) + 1 /\ ft2[Len(ft) + 1] = e
      /\ \A n \in 1..Len(ft) : ft2[n] = ft[n]
  BY <1>1, <1>4, AppendProperties
<1>7. t \in Nat /\ t = Len(ft) - Len(out)
  BY <1>1, <1>2 DEF Taken
<1> HIDE DEF out2, ft2
<1>8. Taken(out2, ft2) = t
  BY <1>2, <1>5, <1>6, <1>7 DEF Taken
<1> HIDE DEF t
<1>9. Types(g, out2, h, arr, ft2)
  BY <1>1, <1>5, <1>6 DEF Types
<1>10. Line(out2, h, ft2)
  <2>1. Len(out2) <= Len(ft2)
    BY <1>1, <1>2, <1>5, <1>6
  <2>2. ASSUME NEW k \in 1..Len(out2)
        PROVE  out2[k].id = t + k /\ out2[k].media = ft2[t + k].m.media
    <3>1. CASE k \in 1..Len(out)
      <4>1. t + k \in 1..Len(ft)
        BY <3>1, <1>2, <1>7
      <4> QED
        BY <3>1, <4>1, <1>1, <1>5, <1>6
    <3>2. CASE k = Len(out) + 1
      <4>1. t + k = Len(ft) + 1
        BY <3>2, <1>2, <1>7
      <4> QED
        BY <3>2, <4>1, <1>3, <1>4, <1>5, <1>6
    <3> QED
      BY <3>1, <3>2, <1>2, <1>5
  <2>3. ASSUME NEW n \in 1..Len(ft2)
        PROVE  ft2[n].is = "queued" <=> n > t
    <3>1. CASE n \in 1..Len(ft)
      BY <3>1, <1>1, <1>6
    <3>2. CASE n = Len(ft) + 1
      BY <3>2, <1>2, <1>4, <1>6, <1>7
    <3> QED
      BY <3>1, <3>2, <1>2, <1>6
  <2>4. h # None => h.id = t /\ h.id >= 1 /\ ft2[h.id].is = "sending"
    <3> SUFFICES ASSUME h # None PROVE h.id = t /\ h.id >= 1 /\ ft2[h.id].is = "sending"
      OBVIOUS
    <3>1. h.id \in 1..Len(ft)
      BY <1>1, <1>2, <1>7
    <3> QED
      BY <3>1, <1>1, <1>6
  <2> QED
    BY <1>8, <2>1, <2>2, <2>3, <2>4 DEF Line
<1>11. Cover(g, h, arr, ft2)
  <2> SUFFICES ASSUME g.adapter = "telegram", NEW n \in 1..Len(ft2), NEW i \in 1..ft2[n].m.media
               PROVE  /\ ft2[n].is = "done" => Told(arr, n, i)
                      /\ h # None /\ n = h.id => Told(arr, n, i) \/ Coming(h.todo, i)
    BY DEF Cover
  <2>1. CASE n \in 1..Len(ft)
    BY <2>1, <1>1, <1>6 DEF Cover
  <2>2. CASE n = Len(ft) + 1
    <3>1. ft2[n].is = "queued"
      BY <2>2, <1>4, <1>6
    <3>2. h # None => n # h.id
      <4> SUFFICES ASSUME h # None PROVE n # h.id
        OBVIOUS
      <4> QED
        BY <2>2, <1>1, <1>2, <1>7
    <3> QED
      BY <3>1, <3>2
  <2> QED
    BY <2>1, <2>2, <1>2, <1>6
<1>12. Order(g, h, arr, Taken(out2, ft2)) /\ Copies(g, h, arr)
  BY <1>1, <1>8
<1> QED
  BY <1>9, <1>10, <1>11, <1>12 DEF OutOK, out2, ft2, x, e

-----------------------------------------------------------------------------
(* The steps of the dispatcher *)

LEMMA TakeKeeps ==
  ASSUME OutInv, Take
  PROVE  OutInv'
<1> DEFINE m == Head(outbound)
           h == [id |-> m.id, todo |-> Plan(m), mode |-> StartMode(m), tries |-> 0,
                 failed |-> {}, sent |-> FALSE, chunks |-> m.chunks]
<1>1. hand = None /\ outbound # <<>> /\ UNCHANGED <<config, up, arrived>> /\ outbound' = Tail(outbound)
  BY DEF Take, Remaining
<1>2. OutOK(config, outbound, None, arrived, fate) /\ up \in BOOLEAN
  BY <1>1 DEF OutInv
<1>3. \/ hand' = None /\ fate' = [fate EXCEPT ![m.id].is = "dropped"]
      \/ hand' = h /\ fate' = [fate EXCEPT ![m.id].is = "sending"] /\ Plan(m) # <<>>
  BY DEF Take
<1>4. CASE hand' = None /\ fate' = [fate EXCEPT ![m.id].is = "dropped"]
  <2>1. OutOK(config, outbound', hand', arrived', fate')
    BY <1>1, <1>2, <1>4, DropKeeps
  <2> QED
    BY <1>1, <1>2, <2>1 DEF OutInv
<1>5. CASE hand' = h /\ fate' = [fate EXCEPT ![m.id].is = "sending"] /\ Plan(m) # <<>>
  <2>1. m \in Messages
    BY <1>1, <1>2, HeadTailProperties DEF OutOK, Types
  <2>2. PlanOK(config.adapter, Plan(m), m.media)
    BY <2>1, PlanIs
  <2>3. Plan(m) \in Seq(PieceSet)
    BY <2>2 DEF PlanOK
  <2>4. StartMode(m) \in Modes
    BY DEF StartMode, Modes
  <2>5. /\ config.adapter = "telegram" => StartMode(m) = "html"
        /\ config.adapter = "feishu" /\ StartMode(m) = "quote" => config.quote
    BY DEF StartMode
  <2>6. m.id \in Nat /\ m.chunks \in Nat
    BY <2>1 DEF Messages
  <2> HIDE DEF m
  <2>7. /\ h \in Hands /\ h.id = m.id /\ h.todo = Plan(m) /\ h.mode = StartMode(m) /\ h.tries = 0
    BY <2>3, <2>4, <2>6 DEF Hands
  <2> HIDE DEF h
  <2>8. ModeOK(config, h)
    BY <2>5, <2>7 DEF ModeOK
  <2>9. OutOK(config, Tail(outbound), h, arrived, [fate EXCEPT ![m.id].is = "sending"])
    BY <1>1, <1>2, <1>5, <2>2, <2>7, <2>8, SendKeeps DEF m
  <2>10. OutOK(config, outbound', hand', arrived', fate')
    BY <1>1, <1>5, <2>9
  <2> QED
    BY <1>1, <1>2, <2>10 DEF OutInv
<1> QED
  BY <1>3, <1>4, <1>5

LEMMA PublishKeeps ==
  ASSUME NEW m \in Shapes, OutInv, Published(m), UNCHANGED <<config, up, hand, arrived>>
  PROVE  OutInv'
<1>1. OutOK(config, outbound', hand, arrived, fate')
  BY PublishedKeeps DEF OutInv, Published
<1> QED
  BY <1>1 DEF OutInv

LEMMA OutFrame ==
  ASSUME OutInv, UNCHANGED ovars
  PROVE  OutInv'
BY DEF OutInv, ovars

LEMMA DispatchKeeps ==
  ASSUME OutInv, OutboundNext
  PROVE  OutInv'
<1>1. ASSUME ChannelStarts
      PROVE  OutInv'
  <2>1. OutOK(config, outbound, hand, arrived, fate)' /\ up' \in BOOLEAN
    BY <1>1 DEF ChannelStarts, OutInv
  <2> QED
    BY <2>1 DEF OutInv
<1> QED
  BY <1>1, TakeKeeps, CallKeeps DEF OutboundNext

LEMMA InitOut == Init => OutInv
<1> SUFFICES ASSUME Init
             PROVE  OutInv
  OBVIOUS
<1>1. /\ config \in Configs /\ up = FALSE /\ outbound = <<>> /\ hand = None /\ arrived = <<>> /\ fate = <<>>
  BY DEF Init, OutboundInit, Configured
<1>2. /\ <<>> \in Seq(Messages) /\ <<>> \in Seq(Sights) /\ <<>> \in Seq(FateRecords) /\ Len(<<>>) = 0
  BY EmptySeq
<1>3. \A k \in 1..0 : FALSE
  OBVIOUS
<1>4. OutOK(config, <<>>, None, <<>>, <<>>)
  BY <1>1, <1>2, <1>3 DEF OutOK, Types, Line, Order, Row, Copies, Cover
<1> QED
  BY <1>1, <1>4 DEF OutInv

-----------------------------------------------------------------------------
(* The run in the background *)

Calling == {"decide", "turn", "evaluate"}

\* A call of the model is in CallSet, field by field, and is not None.
LEMMA CallIs ==
  ASSUME NEW c
  PROVE  /\ c \in CallSet <=> /\ c \in [images: BOOLEAN, stripped: BOOLEAN, calls: 1..4, waits: BOOLEAN]
                              /\ c.stripped => c.images
                              /\ ~(c.stripped /\ c.waits)
         /\ c \in CallSet => c # None
<1>1. c \in CallSet <=> /\ c \in [images: BOOLEAN, stripped: BOOLEAN, calls: 1..4, waits: BOOLEAN]
                        /\ c.stripped => c.images
                        /\ ~(c.stripped /\ c.waits)
  BY DEF CallSet, RetryDelays
<1>2. ASSUME c \in [images: BOOLEAN, stripped: BOOLEAN, calls: 1..4, waits: BOOLEAN]
      PROVE  c # None
  <2>1. c \in [images: BOOLEAN, stripped: BOOLEAN, calls: Nat, waits: BOOLEAN]
    BY <1>2
  <2> QED
    BY <2>1, NoneAssumption
<1> QED
  BY <1>1, <1>2

LEMMA AskingIs ==
  ASSUME NEW images \in BOOLEAN
  PROVE  Asking(images) \in CallSet /\ Asking(images) # None /\ ~Asking(images).waits
<1>1. /\ Asking(images) \in [images: BOOLEAN, stripped: BOOLEAN, calls: 1..4, waits: BOOLEAN]
      /\ ~Asking(images).stripped /\ ~Asking(images).waits
  BY DEF Asking
<1> QED
  BY <1>1, CallIs

LEMMA AskKeeps ==
  ASSUME NEW where \in Calling, NEW images \in BOOLEAN, CallInv, Ask(where, images), run' = run
  PROVE  CallInv'
<1>1. Asking(images) \in CallSet /\ Asking(images) # None /\ ~Asking(images).waits
  BY AskingIs
<1>2. where \in Stages
  BY DEF Calling, Stages
<1>3. stage' = where /\ call' = Asking(images)
  BY DEF Ask
<1> QED
  BY <1>1, <1>2, <1>3 DEF CallInv, Calling

LEMMA EndsKeeps ==
  ASSUME CallInv, Ends, run' = run
  PROVE  CallInv'
<1>1. stage' = "over" /\ call' = None
  BY DEF Ends
<1> QED
  BY <1>1 DEF CallInv, Stages

\* The rest of a call that is retried.
LEMMA AgainKeeps ==
  ASSUME NEW c \in CallSet, c.waits => c.calls <= 3, CallInv, call # None, call' = c, UNCHANGED <<run, stage>>
  PROVE  CallInv'
<1>1. c # None
  BY CallIs
<1> QED
  BY <1>1 DEF CallInv, RetryDelays

LEMMA OnceMore ==
  ASSUME NEW c \in [images: BOOLEAN, stripped: BOOLEAN, calls: 1..4, waits: BOOLEAN], c.calls <= 3
  PROVE  /\ [c EXCEPT !.calls = @ + 1] \in [images: BOOLEAN, stripped: BOOLEAN, calls: 1..4, waits: BOOLEAN]
         /\ [c EXCEPT !.calls = @ + 1].images = c.images
         /\ [c EXCEPT !.calls = @ + 1].stripped = c.stripped
         /\ [c EXCEPT !.calls = @ + 1].waits = c.waits
<1>1. c.calls + 1 \in 1..4
  OBVIOUS
<1> QED
  BY <1>1

LEMMA RetriedKeeps ==
  ASSUME NEW reply, CallInv, ChatRetried(reply)
  PROVE  CallInv'
<1>1. /\ call # None /\ ~call.waits /\ Retries(reply) # None /\ call' = Retries(reply)
      /\ UNCHANGED <<run, stage>>
  BY DEF ChatRetried
<1>2. call \in CallSet
  BY <1>1 DEF CallInv
<1>3. /\ call \in [images: BOOLEAN, stripped: BOOLEAN, calls: 1..4, waits: BOOLEAN]
      /\ call.stripped => call.images
  BY <1>2, CallIs
<1>4. \/ call' = [call EXCEPT !.waits = TRUE] /\ ~call.stripped /\ call.calls <= 3
      \/ call' = [call EXCEPT !.stripped = TRUE, !.calls = @ + 1] /\ ~call.stripped /\ call.calls <= 3 /\ call.images
  BY <1>1 DEF Retries, RetryDelays
<1>5. PICK c : c = call'
  OBVIOUS
<1>6. CASE call' = [call EXCEPT !.waits = TRUE] /\ ~call.stripped /\ call.calls <= 3
  <2>1. /\ c \in [images: BOOLEAN, stripped: BOOLEAN, calls: 1..4, waits: BOOLEAN]
        /\ c.stripped = call.stripped /\ c.calls = call.calls
    BY <1>3, <1>5, <1>6
  <2>2. c \in CallSet
    BY <1>6, <2>1, CallIs
  <2> QED
    BY <1>1, <1>5, <1>6, <2>1, <2>2, AgainKeeps
<1>7. CASE call' = [call EXCEPT !.stripped = TRUE, !.calls = @ + 1] /\ ~call.stripped /\ call.calls <= 3 /\ call.images
  <2>1. /\ c \in [images: BOOLEAN, stripped: BOOLEAN, calls: 1..4, waits: BOOLEAN]
        /\ c.images = call.images /\ c.waits = call.waits
    <3> DEFINE more == [call EXCEPT !.calls = @ + 1]
    <3>1. /\ more \in [images: BOOLEAN, stripped: BOOLEAN, calls: 1..4, waits: BOOLEAN]
          /\ more.images = call.images /\ more.waits = call.waits
      BY <1>3, <1>7, OnceMore
    <3>2. c = [more EXCEPT !.stripped = TRUE]
      BY <1>5, <1>7
    <3> HIDE DEF more
    <3> QED
      BY <3>1, <3>2
  <2>2. c \in CallSet /\ ~c.waits
    BY <1>1, <1>7, <2>1, CallIs
  <2> QED
    BY <1>1, <1>5, <2>2, AgainKeeps
<1> QED
  BY <1>4, <1>6, <1>7

LEMMA ResumedKeeps ==
  ASSUME CallInv, ChatResumed
  PROVE  CallInv'
<1>1. /\ call # None /\ call.waits /\ call' = [call EXCEPT !.waits = FALSE, !.calls = @ + 1]
      /\ UNCHANGED <<run, stage>>
  BY DEF ChatResumed
<1>2. call \in CallSet /\ call.calls <= 3
  BY <1>1 DEF CallInv, RetryDelays
<1>3. /\ call \in [images: BOOLEAN, stripped: BOOLEAN, calls: 1..4, waits: BOOLEAN]
      /\ call.stripped => call.images
  BY <1>2, CallIs
<1>4. PICK c : c = call'
  OBVIOUS
<1>5. /\ c \in [images: BOOLEAN, stripped: BOOLEAN, calls: 1..4, waits: BOOLEAN]
      /\ c.images = call.images /\ c.stripped = call.stripped /\ ~c.waits
  <2> DEFINE more == [call EXCEPT !.calls = @ + 1]
  <2>1. /\ more \in [images: BOOLEAN, stripped: BOOLEAN, calls: 1..4, waits: BOOLEAN]
        /\ more.images = call.images /\ more.stripped = call.stripped
    BY <1>2, <1>3, OnceMore
  <2>2. c = [more EXCEPT !.waits = FALSE]
    BY <1>1, <1>4
  <2> HIDE DEF more
  <2> QED
    BY <2>1, <2>2
<1>6. c \in CallSet
  BY <1>3, <1>5, CallIs
<1> QED
  BY <1>1, <1>4, <1>5, <1>6, AgainKeeps

LEMMA CallFrame ==
  ASSUME CallInv, UNCHANGED <<run, stage, call>>
  PROVE  CallInv'
BY DEF CallInv

-----------------------------------------------------------------------------
(* The theorems *)

LEMMA InitIInv == Init => IInv
<1>1. Init => CallInv
  BY DEF Init, Wired, Asleep, CallInv, Stages
<1> QED
  BY <1>1, InitOut DEF IInv

LEMMA BackgroundKeeps ==
  ASSUME IInv, Background
  PROVE  IInv'
<1>0. OutInv /\ CallInv
  BY DEF IInv
<1>1. ASSUME ChatResumed
      PROVE  IInv'
  <2>1. UNCHANGED ovars
    BY <1>1 DEF ChatResumed
  <2> QED
    BY <1>0, <1>1, <2>1, OutFrame, ResumedKeeps DEF IInv
<1>2. ASSUME TurnFails
      PROVE  IInv'
  <2>1. UNCHANGED ovars /\ Ends /\ run' = run
    BY <1>2 DEF TurnFails
  <2> QED
    BY <1>0, <2>1, OutFrame, EndsKeeps DEF IInv
<1>3. ASSUME NEW reply \in Replies, ChatRetried(reply)
      PROVE  IInv'
  <2>1. UNCHANGED ovars
    BY <1>3 DEF ChatRetried
  <2> QED
    BY <1>0, <1>3, <2>1, OutFrame, RetriedKeeps DEF IInv
<1>4. ASSUME NEW reply \in Replies, Decided(reply)
      PROVE  IInv'
  <2>1. UNCHANGED ovars /\ run' = run /\ ((\E images \in BOOLEAN : Ask("turn", images)) \/ Ends)
    BY <1>4 DEF Decided
  <2>2. "turn" \in Calling
    BY DEF Calling
  <2> QED
    BY <1>0, <2>1, <2>2, OutFrame, AskKeeps, EndsKeeps DEF IInv
<1>5. ASSUME NEW reply \in Replies, TurnEnds(reply)
      PROVE  IInv'
  <2>1. UNCHANGED ovars /\ run' = run /\ (Ask("evaluate", FALSE) \/ Ends)
    BY <1>5 DEF TurnEnds
  <2>2. "evaluate" \in Calling
    BY DEF Calling
  <2> QED
    BY <1>0, <2>1, <2>2, OutFrame, AskKeeps, EndsKeeps DEF IInv
<1>6. ASSUME NEW reply \in Replies, Evaluated(reply)
      PROVE  IInv'
  <2>1. Ends /\ run' = run
    BY <1>6 DEF Evaluated
  <2>2. \/ UNCHANGED ovars
        \/ \E m \in Shapes : Published(m) /\ UNCHANGED <<config, up, hand, arrived>>
    BY <1>6 DEF Evaluated
  <2> QED
    BY <1>0, <2>1, <2>2, OutFrame, PublishKeeps, EndsKeeps DEF IInv
<1> QED
  BY <1>1, <1>2, <1>3, <1>4, <1>5, <1>6 DEF Background

LEMMA StepIInv == IInv /\ [Next]_vars => IInv'
<1> SUFFICES ASSUME IInv, [Next]_vars
             PROVE  IInv'
  OBVIOUS
<1>0. OutInv /\ CallInv
  BY DEF IInv
<1>1. CASE Tick
  <2>1. UNCHANGED ovars /\ run' = run /\ Ask("decide", FALSE)
    BY <1>1 DEF Tick
  <2>2. "decide" \in Calling
    BY DEF Calling
  <2> QED
    BY <1>0, <2>1, <2>2, OutFrame, AskKeeps DEF IInv
<1>2. CASE CronDue
  <2>1. UNCHANGED ovars /\ run' = run /\ \E images \in BOOLEAN : Ask("turn", images)
    BY <1>2 DEF CronDue
  <2>2. "turn" \in Calling
    BY DEF Calling
  <2> QED
    BY <1>0, <2>1, <2>2, OutFrame, AskKeeps DEF IInv
<1>3. CASE Background
  BY <1>3, BackgroundKeeps
<1>4. CASE OtherAnswer
  <2>1. PICK m \in Shapes : Published(m) /\ UNCHANGED <<config, up, hand, arrived>>
    BY <1>4 DEF OtherAnswer, Publish
  <2>2. UNCHANGED <<run, stage, call>>
    BY <1>4 DEF OtherAnswer, gvars
  <2> QED
    BY <1>0, <2>1, <2>2, PublishKeeps, CallFrame DEF IInv
<1>5. CASE Dispatching
  <2>1. UNCHANGED <<run, stage, call>> /\ OutboundNext
    BY <1>5 DEF Dispatching, gvars
  <2> QED
    BY <1>0, <2>1, DispatchKeeps, CallFrame DEF IInv
<1>6. CASE UNCHANGED vars
  <2>1. UNCHANGED ovars /\ UNCHANGED <<run, stage, call>>
    BY <1>6 DEF vars, gvars
  <2> QED
    BY <1>0, <2>1, OutFrame, CallFrame DEF IInv
<1> QED
  BY <1>1, <1>2, <1>3, <1>4, <1>5, <1>6 DEF Next, Starting

\* Every state of the gateway satisfies the inductive invariant: the queue is the end of what was published, the
\* pieces still to be sent come after all that arrived, no piece has more copies than calls were made for it.
THEOREM Inductive == Spec => []IInv
<1>1. Init => IInv
  BY InitIInv
<1>2. IInv /\ [Next]_vars => IInv'
  BY StepIInv
<1> QED
  BY <1>1, <1>2, PTL DEF Spec

LEMMA IInvType == IInv => TypeOK
<1> SUFFICES ASSUME IInv
             PROVE  TypeOK
  OBVIOUS
<1>1. /\ config \in Configs /\ outbound \in Seq(Messages) /\ fate \in Seq(FateRecords)
      /\ hand # None => hand \in Hands /\ hand.todo # <<>> /\ fate[hand.id].is = "sending"
      /\ Len(outbound) <= Len(fate)
      /\ \A k \in 1..Len(outbound) : outbound[k].id = Taken(outbound, fate) + k
      /\ \A n \in 1..Len(fate) : fate[n].is = "queued" <=> n > Taken(outbound, fate)
      /\ up \in BOOLEAN
  BY Zenon DEF IInv, OutInv, OutOK, Types, Line
<1>2. /\ Len(outbound) \in Nat /\ Len(fate) \in Nat
      /\ DOMAIN outbound = 1..Len(outbound) /\ DOMAIN fate = 1..Len(fate)
  BY <1>1, LenProperties
<1>3. \A k \in DOMAIN fate : fate[k].m \in Shapes /\ fate[k].is \in Fates
  <2> TAKE k \in DOMAIN fate
  <2>1. fate[k] \in FateRecords
    BY <1>1, <1>2, ElementOfSeq
  <2> QED
    BY <2>1 DEF FateRecords
<1>4. \A k \in DOMAIN outbound : fate[outbound[k].id].is = "queued"
  <2> TAKE k \in DOMAIN outbound
  <2>1. Taken(outbound, fate) + k \in 1..Len(fate) /\ Taken(outbound, fate) + k > Taken(outbound, fate)
    BY <1>1, <1>2 DEF Taken
  <2> QED
    BY <1>1, <1>2, <2>1
<1>5. hand # None => /\ fate[hand.id].is = "sending" /\ hand.todo # <<>>
                     /\ hand.tries \in 0..(SendRetries - 1) /\ hand.mode \in Modes
  <2>1. hand # None => hand.tries \in 0..2 /\ hand.mode \in Modes
    BY <1>1, HandFields
  <2> QED
    BY <1>1, <2>1 DEF SendRetries
<1>6. /\ run \in Runs /\ stage \in Stages /\ call \in CallSet \cup {None}
      /\ (call # None) = (stage \in {"decide", "turn", "evaluate"})
  BY DEF IInv, CallInv
<1> QED
  BY <1>1, <1>3, <1>4, <1>5, <1>6 DEF TypeOK

\* The types, and the budget of a call of the model: four calls of chat() at most, whatever errors come in which
\* order, and images are taken out at most once, where there are some (chat_with_retry).
THEOREM TypeCorrect == Spec => []TypeOK
<1>1. IInv => TypeOK
  BY IInvType
<1> QED
  BY <1>1, Inductive, PTL

\* The order the proof works with is one that the property allows.
LEMMA EarlierBefore ==
  ASSUME NEW p \in Seens, NEW q \in Seens, Earlier(config.adapter, p, q)
  PROVE  Before(p, q)
BY DEF Earlier, Sooner, Before, Seens

LEMMA IInvSeen == IInv => SeenRight
<1> SUFFICES ASSUME IInv
             PROVE  SeenRight
  OBVIOUS
<1>1. /\ arrived \in Seq(Sights) /\ fate \in Seq(FateRecords)
      /\ Row(config.adapter, arrived)
      /\ \A k \in 1..Len(arrived) : arrived[k].copies <= Limit(config, arrived[k].piece)
      /\ config.adapter = "telegram" =>
           \A n \in 1..Len(fate) : \A i \in 1..fate[n].m.media : fate[n].is = "done" => Told(arrived, n, i)
  BY Zenon DEF IInv, OutInv, OutOK, Types, Order, Copies, Cover
<1>2. DOMAIN arrived = 1..Len(arrived) /\ DOMAIN fate = 1..Len(fate)
  BY <1>1, LenProperties
<1>3. ASSUME NEW j \in DOMAIN arrived, NEW k \in DOMAIN arrived, j < k
      PROVE  Before(arrived[j].piece, arrived[k].piece)
  <2>1. Earlier(config.adapter, arrived[j].piece, arrived[k].piece)
    BY <1>1, <1>2, <1>3 DEF Row
  <2>2. arrived[j].piece \in Seens /\ arrived[k].piece \in Seens
    BY <1>1, <1>2, SightIs
  <2> QED
    BY <2>1, <2>2, EarlierBefore
<1>4. \A p : MaxCopies(p) = Limit(config, p)
  BY DEF MaxCopies, Limit
<1>5. \A k \in DOMAIN arrived : arrived[k].copies <= MaxCopies(arrived[k].piece)
  BY <1>1, <1>2, <1>4
<1>6. ASSUME config.adapter = "telegram", NEW n \in DOMAIN fate, NEW i \in 1..fate[n].m.media, fate[n].is = "done"
      PROVE  \E k \in DOMAIN arrived : LET p == arrived[k].piece IN p.id = n /\ p.i = i /\ p.what \in {"media", "note"}
  <2>1. Told(arrived, n, i)
    BY <1>1, <1>2, <1>6
  <2> QED
    BY <1>2, <2>1, Zenon DEF Told
<1> QED
  BY <1>3, <1>5, <1>6 DEF SeenRight

\* What the user sees is right, for every adapter, whatever its settings, and however many attachments and chunks
\* the messages have: the messages in the order they were published and their pieces in the order of the adapter,
\* each in at most as many copies as calls that timed out can leave, and on Telegram, of a message that was sent
\* to its end, each attachment or its note (the send() of the channels).
THEOREM SeenRightCorrect == Spec => []SeenRight
<1>1. IInv => SeenRight
  BY IInvSeen
<1> QED
  BY <1>1, Inductive, PTL
===============================================================================
