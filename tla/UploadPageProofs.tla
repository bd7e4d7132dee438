-------------------------- MODULE UploadPageProofs --------------------------
(***************************************************************************)
(* For any tabs, parts, list lengths, losses, pages and uploads: an object *)
(* has every part of its file, and a browser with one tab at a time keeps  *)
(* sight of its anonymous uploads.                                         *)
(***************************************************************************)
EXTENDS UploadPage, SequenceTheorems, FiniteSetTheorems, WellFoundedInduction, TLAPS

(* What the variables hold. *)
TabRecord ==
  [pc : {"closed", "idle", "locked"} \cup Underway, mode : {"file", "url", "handoff"},
   anonymous : BOOLEAN, session : 0..MaxUploads, existing : SUBSET AllParts,
   etags : SUBSET AllParts, again : BOOLEAN, ids : Seq(PageUploads), timer : BOOLEAN,
   stray : BOOLEAN, polls : SUBSET SUBSET PageUploads]
RowRecord ==
  [state : {"none", "open", "queued", "ended"}, anonymous : BOOLEAN,
   stored : SUBSET AllParts, object : SUBSET AllParts]

AreIds(s) == s \in Seq(PageUploads) /\ IsInjective(s) /\ Len(s) <= AnonMax
PageTyped ==
  /\ tab \in [Tabs -> TabRecord] /\ saved \in 0..MaxUploads /\ crowded \in BOOLEAN
  /\ upload \in [PageUploads -> RowRecord] /\ AreIds(kept)
  /\ \A t \in Tabs : AreIds(tab[t].ids)

(* What a tab, its storage or its list names has been created. *)
Exists(u) == u # 0 => upload[u].state # "none"
NamedExist ==
  /\ Exists(saved) /\ \A u \in ToSet(kept) : Exists(u)
  /\ \A t \in Tabs : Exists(tab[t].session) /\ \A u \in ToSet(tab[t].ids) : Exists(u)

(* Rows are created one after the other, and empty. *)
RowsInOrder ==
  \A u \in PageUploads : upload[u].state = "none" =>
    /\ upload[u].stored = {} /\ upload[u].object = {}
    /\ \A v \in PageUploads : u < v => upload[v].state = "none"

(* A tab that submits has no parts yet, or sends those of its session. *)
SentIsStored ==
  \A t \in Tabs :
    /\ tab[t].pc \in {"created", "sent", "list", "part", "done"} => tab[t].session # 0
    /\ tab[t].pc \notin {"part", "done"} => tab[t].existing = {} /\ tab[t].etags = {}
    /\ tab[t].pc = "part" =>
         tab[t].existing \cup tab[t].etags \subseteq upload[tab[t].session].stored

(* A row whose creation has not been answered is known to its tab alone. *)
Unanswered(t) == tab[t].pc \in {"created", "sent"}
OnlyItsTab ==
  \A t \in Tabs : Unanswered(t) =>
    LET u == tab[t].session IN
    /\ upload[u].stored = {} /\ upload[u].anonymous = tab[t].anonymous /\ saved # u
    /\ u \notin ToSet(kept) /\ \A o \in Tabs : u \notin ToSet(tab[o].ids)
    /\ \A o \in Tabs \ {t} : tab[o].session # u

(* No page asks about more than it keeps, and each is waiting for news of what
   it knows. *)
PollsAreSmall ==
  \A t \in Tabs : \A ids \in tab[t].polls : IsFiniteSet(ids) /\ Cardinality(ids) <= AnonMax
NewsIsDue ==
  \A t \in Tabs : \A u \in ToSet(tab[t].ids) :
    upload[u].state # "ended" => tab[t].timer \/ \E ids \in tab[t].polls : u \in ids

(* The invariant of every page. *)
PageInv ==
  /\ PageTyped /\ NamedExist /\ RowsInOrder /\ SentIsStored /\ OnlyItsTab
  /\ PollsAreSmall /\ WholeFile

(* One tab at a time: it has the list that is kept, in order, and is told of a
   row before anything is sent for it. *)
OneTab == \A t, o \in Tabs : ~Is(t, "closed") /\ ~Is(o, "closed") => t = o
SameList == \A t \in Tabs : ~Is(t, "closed") => tab[t].ids = kept
KeptInOrder ==
  \A m, n \in 1..Len(kept) : /\ m < n => kept[m] > kept[n]
                             /\ upload[kept[m]].anonymous
NewestUnanswered ==
  \A t \in Tabs : Unanswered(t) =>
    \A v \in PageUploads : upload[v].state # "none" => v <= tab[t].session
Told(u) ==
  \/ upload[u].stored # {} \/ saved = u
  \/ \E t \in Tabs : tab[t].session = u /\ tab[t].pc \in {"resume", "list", "part", "done"}
Listed(u) ==
  \/ u \in ToSet(kept)
  \/ Len(kept) = AnonMax /\ \A n \in 1..Len(kept) : kept[n] > u
ToldIsListed == \A u \in PageUploads : upload[u].anonymous /\ Told(u) => Listed(u)

OneByOneInv ==
  ~crowded => OneTab /\ SameList /\ KeptInOrder /\ NewestUnanswered /\ ToldIsListed

(* rememberAnonymous, of a list of ids. *)
NewIds(ids, u) ==
  LET more == <<u>> \o RemoveFirst(ids, u)
  IN SubSeq(more, 1, IF Len(more) < AnonMax THEN Len(more) ELSE AnonMax)

(* A new id goes to the front, and the last may fall off. *)
LEMMA NewInFront ==
  ASSUME NEW ids, AreIds(ids), NEW u \in PageUploads, u \notin ToSet(ids)
  PROVE  /\ AreIds(NewIds(ids, u))
         /\ Len(NewIds(ids, u)) = IF Len(ids) < AnonMax THEN Len(ids) + 1 ELSE AnonMax
         /\ NewIds(ids, u)[1] = u
         /\ \A n \in 2..Len(NewIds(ids, u)) : NewIds(ids, u)[n] = ids[n - 1]
  <1> DEFINE more == <<u>> \o ids
  <1>1. RemoveFirst(ids, u) = ids
    <2>1. ~ \E i \in 1..Len(ids) : ids[i] = u
      BY DEF ToSet, AreIds
    <2> QED  BY <2>1, Zenon DEF RemoveFirst
  <1>2. more \in Seq(PageUploads) /\ Len(more) = Len(ids) + 1 /\ more[1] = u
        /\ \A n \in 2..Len(more) : more[n] = ids[n - 1]
    BY DEF AreIds
  <1>3. AnonMax \in Nat \ {0} /\ Len(ids) \in Nat
    BY SizesAreNat DEF AreIds
  <1> DEFINE n == IF Len(more) < AnonMax THEN Len(more) ELSE AnonMax
             new == SubSeq(more, 1, n)
  <1>4. n \in 1..Len(more) /\ n = IF Len(ids) < AnonMax THEN Len(ids) + 1 ELSE AnonMax
    BY <1>2, <1>3 DEF AreIds
  <1>6. NewIds(ids, u) = new
    BY <1>1 DEF NewIds
  <1>8. \A i \in 1..n : more[i] \in PageUploads
    BY <1>2, <1>4, ElementOfSeq
  <1> HIDE DEF more
  <1>5. new \in Seq(PageUploads) /\ Len(new) = n /\ \A i \in 1..n : new[i] = more[i]
    <2> HIDE DEF n
    <2> QED  BY <1>2, <1>4, <1>8, SubSeqProperties
  <1> HIDE DEF n, new
  <1>9. \A i, j \in 1..Len(ids) : ids[i] = ids[j] => i = j
    BY DEF IsInjective, AreIds
  <1>10. \A i \in 1..Len(ids) : ids[i] # u
    BY DEF ToSet, AreIds
  <1>11. \A i, j \in 1..n : new[i] = new[j] => i = j
    <2>1. n \in Nat /\ new[1] = u
      BY <1>2, <1>3, <1>4, <1>5
    <2>2. \A i \in 1..n : i # 1 => i - 1 \in 1..Len(ids) /\ new[i] = ids[i - 1]
      BY <1>2, <1>3, <1>4, <1>5
    <2> QED  BY <1>9, <1>10, <2>1, <2>2, SMTT(60)
  <1>7. IsInjective(new)
    BY <1>5, <1>11 DEF IsInjective
  <1>12. Len(new) <= AnonMax
    BY <1>3, <1>4, <1>5
  <1>13. \A i \in 2..Len(new) : new[i] = ids[i - 1]
    BY <1>2, <1>3, <1>4, <1>5
  <1>14. new[1] = u
    BY <1>2, <1>3, <1>4, <1>5
  <1> QED  BY <1>4, <1>5, <1>6, <1>7, <1>12, <1>13, <1>14 DEF AreIds
-----------------------------------------------------------------------------
SameWork(r, s) ==
  /\ r.pc = s.pc /\ r.anonymous = s.anonymous /\ r.session = s.session
  /\ r.existing = s.existing /\ r.etags = s.etags
SameNews(r, s) == r.ids = s.ids /\ r.timer = s.timer /\ r.polls = s.polls
AsksFor(r, s, ids) ==
  /\ r.ids = ids /\ r.polls \in {s.polls, s.polls \cup {ToSet(ids)}}
  /\ ids # <<>> => ToSet(ids) \in r.polls
Frees(r, pc) == r.pc = pc /\ r.session = 0 /\ r.existing = {} /\ r.etags = {}

(* The ids of a list. *)
LEMMA IdsAsSet ==
  ASSUME NEW s \in Seq(PageUploads)
  PROVE  ToSet(s) \in SUBSET PageUploads /\ (s = <<>> => ToSet(s) = {})
  BY ElementOfSeq DEF ToSet

(* Asking for news touches nothing else. *)
LEMMA RefreshedFields ==
  ASSUME NEW s \in TabRecord
  PROVE  /\ Refreshed(s) \in TabRecord /\ SameWork(Refreshed(s), s) /\ Refreshed(s).mode = s.mode
         /\ AsksFor(Refreshed(s), s, s.ids)
  <1>1. ToSet(s.ids) \in SUBSET PageUploads
    BY IdsAsSet DEF TabRecord
  <1>2. s.polls \cup {ToSet(s.ids)} \in SUBSET SUBSET PageUploads
    BY <1>1 DEF TabRecord
  <1>3. CASE s.ids = <<>>
    BY <1>3 DEF Refreshed, TabRecord, SameWork, AsksFor
  <1>4. CASE s.ids # <<>>
    BY <1>2, <1>4 DEF Refreshed, TabRecord, SameWork, AsksFor
  <1> QED  BY <1>3, <1>4

(* Freeing the form leaves the ids and the news under way. *)
LEMMA FreedFields ==
  ASSUME NEW s \in TabRecord, NEW pc \in {"idle", "locked"}
  PROVE  /\ Freed(s, pc) \in TabRecord /\ Frees(Freed(s, pc), pc) /\ SameNews(Freed(s, pc), s)
         /\ Freed(s, pc).anonymous = s.anonymous
  <1>1. 0 \in 0..MaxUploads /\ {} \in SUBSET AllParts
    BY SizesAreNat
  <1>2. Freed(s, pc) \in TabRecord
    BY <1>1 DEF Freed, TabRecord
  <1>3. /\ Frees(Freed(s, pc), pc) /\ SameNews(Freed(s, pc), s)
        /\ Freed(s, pc).anonymous = s.anonymous
    BY DEF Freed, TabRecord, Frees, SameNews
  <1> QED  BY <1>2, <1>3

(* A timer that is set is known. *)
LEMMA TimedFields ==
  ASSUME NEW s \in TabRecord
  PROVE  /\ Timed(s) \in TabRecord /\ SameWork(Timed(s), s) /\ Timed(s).ids = s.ids
         /\ Timed(s).timer /\ Timed(s).polls = s.polls
  BY DEF Timed, TabRecord, SameWork

(* An id that is new to the tab is put in front and asked about. *)
LEMMA RememberedFields ==
  ASSUME NEW s \in TabRecord, AreIds(s.ids), NEW u \in PageUploads, u \notin ToSet(s.ids)
  PROVE  /\ Remembered(s, u) \in TabRecord /\ SameWork(Remembered(s, u), s)
         /\ Remembered(s, u).mode = s.mode
         /\ AsksFor(Remembered(s, u), s, NewIds(s.ids, u))
  <1> DEFINE r == [s EXCEPT !.ids = NewIds(s.ids, u)]
  <1>1. Remembered(s, u) = Refreshed(r)
    BY Zenon DEF Remembered, NewIds
  <1>2. NewIds(s.ids, u) \in Seq(PageUploads)
    BY NewInFront DEF AreIds
  <1>3. r \in TabRecord /\ SameWork(r, s) /\ r.mode = s.mode /\ r.ids = NewIds(s.ids, u)
        /\ r.polls = s.polls
    BY <1>2 DEF TabRecord, SameWork
  <1> HIDE DEF r
  <1> QED  BY <1>1, <1>3, RefreshedFields DEF SameWork, AsksFor
-----------------------------------------------------------------------------
(* What each action makes of its tab. *)

Moves(t) ==
  /\ tab' = [tab EXCEPT ![t] = tab'[t]] /\ tab'[t] \in TabRecord /\ AreIds(tab'[t].ids)

(* A tab of a typed state. *)
LEMMA TabTyped ==
  ASSUME PageTyped, NEW t \in Tabs
  PROVE  tab[t] \in TabRecord /\ AreIds(tab[t].ids) /\ tab \in [Tabs -> TabRecord]
  BY DEF PageTyped

(* A closed tab knows nothing. *)
LEMMA ClosedTyped ==
  /\ Closed \in TabRecord /\ AreIds(Closed.ids) /\ Closed.ids = <<>>
  /\ Closed.pc = "closed" /\ Closed.session = 0 /\ Closed.existing = {} /\ Closed.etags = {}
  /\ Closed.polls = {}
  <1>1. <<>> \in Seq(PageUploads) /\ Len(<<>>) = 0 /\ 0 \in 0..MaxUploads
    BY SizesAreNat
  <1>2. IsInjective(<<>>)
    BY DEF IsInjective
  <1>3. Closed \in TabRecord /\ Closed.ids = <<>>
    BY <1>1 DEF Closed, TabRecord
  <1> QED  BY <1>1, <1>2, <1>3, SizesAreNat DEF Closed, AreIds

(* A page that opens asks about the ids that are kept. *)
LEMMA OpenFields ==
  ASSUME PageTyped, NEW t \in Tabs, OpenPage(t)
  PROVE  /\ Moves(t) /\ Frees(tab'[t], "idle") /\ AsksFor(tab'[t], Closed, kept)
         /\ tab[t].pc = "closed"
  <1>1. PICK m \in {"file", "url", "handoff"}, a \in BOOLEAN :
          tab' = [tab EXCEPT ![t] = Refreshed([Closed EXCEPT !.pc = "idle", !.mode = m,
                                                 !.anonymous = a, !.ids = kept])]
    BY DEF OpenPage, Set
  <1> DEFINE s == [Closed EXCEPT !.pc = "idle", !.mode = m, !.anonymous = a, !.ids = kept]
  <1>2. kept \in Seq(PageUploads) /\ AreIds(kept)
    BY DEF PageTyped, AreIds
  <1>3. s \in TabRecord /\ Frees(s, "idle") /\ s.ids = kept /\ s.polls = Closed.polls
    BY <1>2, ClosedTyped DEF TabRecord, Frees
  <1> HIDE DEF s
  <1>4. tab'[t] = Refreshed(s)
    BY <1>1, TabTyped DEF s
  <1>5. tab' = [tab EXCEPT ![t] = tab'[t]]
    BY <1>1, <1>4 DEF s
  <1>6. /\ tab'[t] \in TabRecord /\ Frees(tab'[t], "idle") /\ tab'[t].ids = kept
        /\ AsksFor(tab'[t], Closed, kept)
    BY <1>3, <1>4, RefreshedFields DEF Frees, SameWork, AsksFor
  <1> QED  BY <1>2, <1>5, <1>6 DEF Moves, OpenPage, Is

(* A page that closes forgets everything. *)
LEMMA CloseFields ==
  ASSUME PageTyped, NEW t \in Tabs, ClosePage(t)
  PROVE  Moves(t) /\ tab'[t] = Closed
  BY TabTyped, ClosedTyped DEF ClosePage, Set, Moves

(* An answer or a failure of a poll, or a timer. *)
LEMMA NewsFields ==
  ASSUME PageTyped, NEW t \in Tabs, PollAnswered(t) \/ PollFails(t) \/ TimerFires(t)
  PROVE  /\ Moves(t) /\ SameWork(tab'[t], tab[t]) /\ tab'[t].ids = tab[t].ids
         /\ \/ AsksFor(tab'[t], tab[t], tab[t].ids)
            \/ tab'[t].polls \subseteq tab[t].polls /\ tab'[t].timer
            \/ \E ids \in tab[t].polls :
                 /\ tab'[t].polls = tab[t].polls \ {ids} /\ tab'[t].timer = tab[t].timer
                 /\ ~Pending(ids)
  <1> DEFINE s == tab[t]
  <1>1. s \in TabRecord /\ AreIds(s.ids) /\ tab \in [Tabs -> TabRecord]
    BY TabTyped
  <1> HIDE DEF s
  <1>2. ASSUME NEW ids PROVE LET r == [s EXCEPT !.polls = @ \ {ids}] IN
          /\ r \in TabRecord /\ SameWork(r, s) /\ r.ids = s.ids /\ r.timer = s.timer
          /\ r.polls = s.polls \ {ids}
    BY <1>1 DEF TabRecord, SameWork
  <1>3. CASE PollAnswered(t)
    <2>1. PICK ids \in s.polls : LET r == [s EXCEPT !.polls = @ \ {ids}] IN
            tab' = [tab EXCEPT ![t] = IF Pending(ids) THEN Timed(r) ELSE r]
      BY <1>3 DEF PollAnswered, Set, s
    <2> DEFINE r == [s EXCEPT !.polls = @ \ {ids}]
    <2>2. /\ r \in TabRecord /\ SameWork(r, s) /\ r.ids = s.ids /\ r.timer = s.timer
          /\ r.polls = s.polls \ {ids}
      BY <1>2
    <2>3. tab' = [tab EXCEPT ![t] = IF Pending(ids) THEN Timed(r) ELSE r]
      BY <2>1
    <2> HIDE DEF r
    <2>4. CASE Pending(ids)
      <3>1. tab'[t] = Timed(r) /\ tab' = [tab EXCEPT ![t] = tab'[t]]
        BY <1>1, <2>3, <2>4
      <3> QED  BY <1>1, <2>2, <3>1, TimedFields DEF Moves, SameWork, s
    <2>5. CASE ~Pending(ids)
      <3>1. tab'[t] = r /\ tab' = [tab EXCEPT ![t] = tab'[t]]
        BY <1>1, <2>3, <2>5
      <3> QED  BY <1>1, <2>2, <2>5, <3>1 DEF Moves, SameWork, s
    <2> QED  BY <2>4, <2>5
  <1>4. CASE PollFails(t)
    <2>1. PICK ids \in s.polls : tab' = [tab EXCEPT ![t] = Timed([s EXCEPT !.polls = @ \ {ids}])]
      BY <1>4 DEF PollFails, Set, s
    <2> DEFINE r == [s EXCEPT !.polls = @ \ {ids}]
    <2>2. /\ r \in TabRecord /\ SameWork(r, s) /\ r.ids = s.ids /\ r.polls = s.polls \ {ids}
      BY <1>2
    <2>3. tab'[t] = Timed(r) /\ tab' = [tab EXCEPT ![t] = tab'[t]]
      BY <1>1, <2>1
    <2> HIDE DEF r
    <2> QED  BY <1>1, <2>2, <2>3, TimedFields DEF Moves, SameWork, s
  <1>5. CASE TimerFires(t)
    <2>1. PICK r \in {s, [s EXCEPT !.stray = FALSE]} : tab' = [tab EXCEPT ![t] = Refreshed(r)]
      BY <1>5 DEF TimerFires, Set, s
    <2>2. r \in TabRecord /\ SameWork(r, s) /\ r.ids = s.ids /\ r.polls = s.polls
      BY <1>1, <2>1 DEF TabRecord, SameWork
    <2>3. tab'[t] = Refreshed(r) /\ tab' = [tab EXCEPT ![t] = tab'[t]]
      BY <1>1, <2>1
    <2> QED  BY <1>1, <2>2, <2>3, RefreshedFields DEF Moves, SameWork, AsksFor, s
  <1> QED  BY <1>3, <1>4, <1>5

(* A set of numbers has a least one. *)
LEMMA LeastOf ==
  ASSUME NEW S \in SUBSET Nat, S # {}
  PROVE  \E p \in S : \A q \in S : p <= q
  <1> DEFINE R == {ss \in Nat \X Nat : ss[1] < ss[2]}
  <1>1. IsWellFoundedOn(R, Nat)
    BY NatLessThanWellFounded, Zenon DEF OpToRel
  <1>2. \A x, y \in Nat : <<x, y>> \in R <=> x < y
    OBVIOUS
  <1> HIDE DEF R
  <1>3. PICK p \in S : \A q \in S : ~ (<<q, p>> \in R)
    BY <1>1, WFMin
  <1>4. ASSUME NEW q \in S PROVE p <= q
    <2>1. p \in Nat /\ q \in Nat /\ ~ (q < p)
      BY <1>2, <1>3
    <2> QED  BY <2>1
  <1> QED  BY <1>4

(* The next part to send is one of the file. *)
LEMMA LeastPart ==
  ASSUME NEW t, Unsent(t) # {}
  PROVE  Part(t) \in AllParts
  <1>1. Unsent(t) \in SUBSET AllParts /\ Unsent(t) \in SUBSET Nat
    BY SizesAreNat DEF Unsent, AllParts
  <1>2. \E p \in Unsent(t) : \A q \in Unsent(t) : p <= q
    BY <1>1, LeastOf
  <1> QED  BY <1>1, <1>2 DEF Part

SameForm(r, s) == r.anonymous = s.anonymous /\ SameNews(r, s)
SameParts(r, s) == r.existing = s.existing /\ r.etags = s.etags

(* A submission takes up the saved session. *)
LEMMA SubmitFields ==
  ASSUME PageTyped, NEW t \in Tabs, SubmitForm(t)
  PROVE  /\ Moves(t) /\ SameForm(tab'[t], tab[t]) /\ SameParts(tab'[t], tab[t])
         /\ tab[t].pc = "idle" /\ tab'[t].session = saved
         /\ tab'[t].pc \in {"remote", "resume", "create"}
  <1> DEFINE s == tab[t]
  <1>1. s \in TabRecord /\ AreIds(s.ids) /\ tab \in [Tabs -> TabRecord] /\ saved \in 0..MaxUploads
    BY TabTyped DEF PageTyped
  <1>2. PICK pc \in {"remote", "resume", "create"} :
          tab' = [tab EXCEPT ![t] = [s EXCEPT !.pc = pc, !.session = saved]]
    BY DEF SubmitForm, Set
  <1>3. tab'[t] = [s EXCEPT !.pc = pc, !.session = saved] /\ tab' = [tab EXCEPT ![t] = tab'[t]]
    BY <1>1, <1>2
  <1>4. s.pc = "idle"
    BY DEF SubmitForm, Is
  <1> HIDE DEF s
  <1>5. /\ tab'[t] \in TabRecord /\ AreIds(tab'[t].ids) /\ SameForm(tab'[t], s)
        /\ SameParts(tab'[t], s) /\ tab'[t].session = saved /\ tab'[t].pc = pc
    BY <1>1, <1>2, <1>3 DEF TabRecord, Underway, SameForm, SameNews, SameParts
  <1> QED  BY <1>3, <1>4, <1>5 DEF Moves, s

(* A session that is not finished has a row. *)
LEMMA RowTyped ==
  ASSUME PageTyped, NEW u, Unfinished(u), u \in 0..MaxUploads
  PROVE  u \in PageUploads /\ upload[u] \in RowRecord
  BY SizesAreNat DEF PageTyped, Unfinished, PageUploads

(* Listing tells the tab which parts its session holds. *)
LEMMA ListFields ==
  ASSUME PageTyped, NEW t \in Tabs, Resume(t) \/ ListParts(t)
  PROVE  /\ Moves(t) /\ SameForm(tab'[t], tab[t])
         /\ tab[t].pc \in {"resume", "list"} /\ tab'[t].pc = "part"
         /\ tab'[t].session = tab[t].session /\ tab[t].session \in PageUploads
         /\ tab'[t].existing = upload[tab[t].session].stored /\ tab'[t].etags = tab[t].etags
  <1> DEFINE s == tab[t]
             u == tab[t].session
  <1>1. s \in TabRecord /\ AreIds(s.ids) /\ tab \in [Tabs -> TabRecord] /\ u \in 0..MaxUploads
    BY TabTyped DEF TabRecord
  <1>2. u \in PageUploads /\ upload[u].stored \in SUBSET AllParts
    BY <1>1, RowTyped DEF Resume, ListParts, RowRecord
  <1>3. /\ tab'[t] = [s EXCEPT !.pc = "part", !.existing = upload[u].stored]
        /\ tab' = [tab EXCEPT ![t] = tab'[t]] /\ s.pc \in {"resume", "list"}
    BY <1>1 DEF Resume, ListParts, Set, Is
  <1>4. s.session = u
    OBVIOUS
  <1> HIDE DEF s, u
  <1>5. /\ tab'[t] \in TabRecord /\ AreIds(tab'[t].ids) /\ SameForm(tab'[t], s)
        /\ tab'[t].pc = "part" /\ tab'[t].session = u /\ tab'[t].etags = s.etags
        /\ tab'[t].existing = upload[u].stored
    BY <1>1, <1>2, <1>3, <1>4 DEF TabRecord, Underway, SameForm, SameNews
  <1> QED  BY <1>2, <1>3, <1>5 DEF Moves, s, u

(* A session that cannot be resumed is forgotten. *)
LEMMA ResumeFailsFields ==
  ASSUME PageTyped, NEW t \in Tabs, ResumeFails(t)
  PROVE  /\ Moves(t) /\ SameForm(tab'[t], tab[t]) /\ SameParts(tab'[t], tab[t])
         /\ tab[t].pc = "resume" /\ tab'[t].pc = "create" /\ tab'[t].session = 0
  <1> DEFINE s == tab[t]
  <1>1. s \in TabRecord /\ AreIds(s.ids) /\ tab \in [Tabs -> TabRecord] /\ 0 \in 0..MaxUploads
    BY TabTyped, SizesAreNat
  <1>2. /\ tab'[t] = [s EXCEPT !.pc = "create", !.session = 0]
        /\ tab' = [tab EXCEPT ![t] = tab'[t]] /\ s.pc = "resume"
    BY <1>1 DEF ResumeFails, Set, Is
  <1> HIDE DEF s
  <1>3. /\ tab'[t] \in TabRecord /\ AreIds(tab'[t].ids) /\ SameForm(tab'[t], s)
        /\ SameParts(tab'[t], s) /\ tab'[t].pc = "create" /\ tab'[t].session = 0
    BY <1>1, <1>2, ZenonT(60) DEF TabRecord, Underway, SameForm, SameNews, SameParts
  <1> QED  BY <1>2, <1>3 DEF Moves, s

(* The server creates the next row, whose id is not yet answered. *)
LEMMA CreateFields ==
  ASSUME PageTyped, NEW t \in Tabs, CreateSession(t) \/ RegisterRemote(t)
  PROVE  /\ Moves(t) /\ SameForm(tab'[t], tab[t]) /\ SameParts(tab'[t], tab[t])
         /\ tab[t].pc \in {"create", "remote"} /\ tab'[t].pc \in {"created", "sent"}
         /\ tab'[t].session \in New
         /\ \E x \in {"open", "queued"} :
              upload' = [upload EXCEPT ![tab'[t].session].state = x,
                                       ![tab'[t].session].anonymous = tab[t].anonymous]
  <1> DEFINE s == tab[t]
  <1>1. s \in TabRecord /\ AreIds(s.ids) /\ tab \in [Tabs -> TabRecord]
    BY TabTyped
  <1>2. PICK u \in New, pc \in {"created", "sent"}, x \in {"open", "queued"} :
          /\ tab' = [tab EXCEPT ![t] = [s EXCEPT !.pc = pc, !.session = u]]
          /\ upload' = [upload EXCEPT ![u].state = x, ![u].anonymous = tab[t].anonymous]
    BY DEF CreateSession, RegisterRemote, Set
  <1>3. /\ tab'[t] = [s EXCEPT !.pc = pc, !.session = u]
        /\ tab' = [tab EXCEPT ![t] = tab'[t]] /\ s.pc \in {"create", "remote"}
    BY <1>1, <1>2 DEF CreateSession, RegisterRemote, Is
  <1>4. u \in 0..MaxUploads
    BY SizesAreNat DEF New, PageUploads
  <1> HIDE DEF s
  <1>5. /\ tab'[t] \in TabRecord /\ AreIds(tab'[t].ids) /\ SameForm(tab'[t], s)
        /\ SameParts(tab'[t], s) /\ tab'[t].pc = pc /\ tab'[t].session = u
    BY <1>1, <1>3, <1>4 DEF TabRecord, Underway, SameForm, SameNews, SameParts
  <1> QED  BY <1>2, <1>3, <1>5 DEF Moves, s

(* A put stores at most the next part, and the tab counts what was stored. *)
LEMMA PutFields ==
  ASSUME PageTyped, NEW t \in Tabs, PutPart(t) \/ PutFails(t)
  PROVE  LET u == tab[t].session IN
         /\ Moves(t) /\ SameForm(tab'[t], tab[t]) /\ tab[t].pc = "part" /\ Unfinished(u)
         /\ u \in PageUploads
         /\ \/ Frees(tab'[t], "idle")
            \/ tab'[t].pc = "part" /\ tab'[t].session = u /\ tab'[t].existing = tab[t].existing
         /\ \E more \in SUBSET AllParts :
              /\ upload' = [upload EXCEPT ![u].stored = upload[u].stored \cup more]
              /\ tab'[t].etags \subseteq tab[t].etags \cup more
  <1> DEFINE s == tab[t]
             u == tab[t].session
  <1>1. s \in TabRecord /\ AreIds(s.ids) /\ tab \in [Tabs -> TabRecord] /\ u \in 0..MaxUploads
    BY TabTyped DEF TabRecord
  <1>2. Is(t, "part") /\ s.pc = "part" /\ Unfinished(u) /\ Unsent(t) # {}
    BY DEF PutPart, PutFails, Sending, Is
  <1>3. u \in PageUploads /\ upload[u] \in RowRecord
    BY <1>1, <1>2, RowTyped
  <1>4. Part(t) \in AllParts
    BY <1>1, <1>2, LeastPart
  <1>5. CASE PutPart(t)
    <2>1. /\ tab'[t] = [s EXCEPT !.etags = s.etags \cup {Part(t)}, !.again = FALSE]
          /\ tab' = [tab EXCEPT ![t] = tab'[t]]
          /\ upload' = [upload EXCEPT ![u].stored = upload[u].stored \cup {Part(t)}]
      BY <1>1, <1>5 DEF PutPart, Set
    <2>2. /\ tab'[t] \in TabRecord /\ AreIds(tab'[t].ids) /\ SameForm(tab'[t], s)
          /\ tab'[t].pc = "part" /\ tab'[t].session = s.session
          /\ tab'[t].existing = s.existing /\ tab'[t].etags = s.etags \cup {Part(t)}
      <3> HIDE DEF s, u
      <3>1. s.etags \cup {Part(t)} \in SUBSET AllParts
        BY <1>1, <1>4 DEF TabRecord
      <3> QED  BY <1>1, <1>2, <2>1, <3>1 DEF TabRecord, SameForm, SameNews
    <2>3. {Part(t)} \in SUBSET AllParts
      BY <1>4
    <2> QED  BY <1>2, <1>3, <2>1, <2>2, <2>3 DEF Moves
  <1>6. CASE PutFails(t)
    <2>1. PICK more \in {{}, {Part(t)}} :
            upload' = [upload EXCEPT ![u].stored = upload[u].stored \cup more]
      <3>1. CASE upload' = upload
        <4>1. upload = [upload EXCEPT ![u].stored = upload[u].stored \cup {}]
          BY <1>3 DEF PageTyped, RowRecord
        <4> QED  BY <3>1, <4>1
      <3> QED  BY <1>6, <3>1 DEF PutFails
    <2>2. PICK r \in {Freed(s, "idle"), [s EXCEPT !.again = TRUE]} :
            tab'[t] = r /\ tab' = [tab EXCEPT ![t] = tab'[t]]
      BY <1>1, <1>6 DEF PutFails, Stop, Set
    <2>3. /\ tab'[t] \in TabRecord /\ AreIds(tab'[t].ids) /\ SameForm(tab'[t], s)
          /\ tab'[t].etags \subseteq s.etags
          /\ \/ Frees(tab'[t], "idle")
             \/ tab'[t].pc = "part" /\ tab'[t].session = s.session
                /\ tab'[t].existing = s.existing
      <3> HIDE DEF s, u
      <3>1. CASE r = Freed(s, "idle")
        BY <1>1, <2>2, <3>1, FreedFields DEF SameForm, SameNews, Frees
      <3>2. CASE r = [s EXCEPT !.again = TRUE]
        <4>1. r \in TabRecord
          BY <1>1, <3>2 DEF TabRecord
        <4>2. /\ SameForm(r, s) /\ r.pc = s.pc /\ r.session = s.session
              /\ r.existing = s.existing /\ r.etags = s.etags
          BY <1>1, <3>2 DEF TabRecord, SameForm, SameNews
        <4> QED  BY <1>1, <1>2, <2>2, <4>1, <4>2 DEF SameForm, SameNews
      <3> QED  BY <2>2, <3>1, <3>2
    <2>4. more \in SUBSET AllParts
      BY <1>4, <2>1
    <2> QED  BY <1>2, <1>3, <2>1, <2>2, <2>3, <2>4 DEF Moves
  <1> QED  BY <1>5, <1>6

(* An answer is told to the tab, and an anonymous row goes on the list. *)
LEMMA AnsweredFields ==
  ASSUME PageTyped, OnlyItsTab, SentIsStored, NEW t \in Tabs, Created(t) \/ RemoteRegistered(t)
  PROVE  LET u == tab[t].session
             ids == IF tab[t].anonymous THEN NewIds(tab[t].ids, u) ELSE tab[t].ids IN
         /\ Moves(t) /\ Unanswered(t) /\ u \in PageUploads /\ u \notin ToSet(tab[t].ids)
         /\ tab'[t].anonymous = tab[t].anonymous /\ tab'[t].ids = ids
         /\ kept' = IF tab[t].anonymous THEN ids ELSE kept
         /\ IF tab[t].anonymous THEN AsksFor(tab'[t], tab[t], ids) ELSE SameNews(tab'[t], tab[t])
         /\ \/ /\ Created(t) /\ tab'[t].pc = "list" /\ tab'[t].session = u
               /\ SameParts(tab'[t], tab[t]) /\ saved' = u
            \/ /\ RemoteRegistered(t) /\ \E pc \in {"idle", "locked"} : Frees(tab'[t], pc)
               /\ saved' = saved
  <1> DEFINE s == tab[t]
             u == tab[t].session
  <1>1. s \in TabRecord /\ AreIds(s.ids) /\ tab \in [Tabs -> TabRecord]
    BY TabTyped
  <1>2. Unanswered(t)
    BY DEF Created, RemoteRegistered, Is, Unanswered
  <1>3. u \in PageUploads /\ u \notin ToSet(s.ids)
    BY <1>1, <1>2, SizesAreNat DEF Unanswered, SentIsStored, OnlyItsTab, TabRecord, PageUploads
  <1> DEFINE r == Remembered(s, u)
  <1>4. /\ r \in TabRecord /\ SameWork(r, s) /\ r.mode = s.mode
        /\ AsksFor(r, s, NewIds(s.ids, u)) /\ AreIds(NewIds(s.ids, u))
    <2> HIDE DEF s, u
    <2> QED  BY <1>1, <1>3, RememberedFields, NewInFront
  <1> DEFINE q == IF s.anonymous THEN r ELSE s
             ids == IF s.anonymous THEN NewIds(s.ids, u) ELSE s.ids
  <1>5. /\ q \in TabRecord /\ SameWork(q, s) /\ q.ids = ids /\ AreIds(ids)
        /\ IF s.anonymous THEN AsksFor(q, s, ids) ELSE SameNews(q, s)
    <2> HIDE DEF s, u, r
    <2> QED  BY <1>1, <1>4 DEF SameWork, SameNews, AsksFor
  <1>6. CASE Created(t)
    <2>1. /\ tab'[t] = [q EXCEPT !.pc = "list"] /\ tab' = [tab EXCEPT ![t] = tab'[t]]
          /\ kept' = IF s.anonymous THEN r.ids ELSE kept
          /\ saved' = u
      BY <1>1, <1>6 DEF Created, Set
    <2>2. r.ids = NewIds(s.ids, u)
      BY <1>4 DEF AsksFor
    <2> DEFINE p == tab'[t]
    <2>3. /\ p \in TabRecord /\ p.ids = q.ids /\ p.polls = q.polls /\ p.timer = q.timer
          /\ p.pc = "list" /\ p.anonymous = q.anonymous /\ p.session = q.session
          /\ p.existing = q.existing /\ p.etags = q.etags
      <3> HIDE DEF q
      <3> QED  BY <1>5, <2>1 DEF TabRecord, Underway
    <2>4. p.anonymous = s.anonymous /\ p.session = u /\ SameParts(p, s) /\ p.ids = ids
          /\ IF s.anonymous THEN AsksFor(p, s, ids) ELSE SameNews(p, s)
      <3>1. s.session = u
        OBVIOUS
      <3> HIDE DEF q, s, u, r, ids, p
      <3> QED  BY <1>5, <2>3, <3>1 DEF SameWork, SameParts, SameNews, AsksFor
    <2>5. kept' = IF s.anonymous THEN ids ELSE kept
      BY <2>1, <2>2
    <2>6. AreIds(tab'[t].ids) /\ tab'[t] \in TabRecord
      BY <1>5, <2>3
    <2> QED  BY <1>2, <1>3, <1>6, <2>1, <2>3, <2>4, <2>5, <2>6 DEF Moves
  <1>7. CASE RemoteRegistered(t)
    <2>1. PICK pc \in {"idle", "locked"} :
            tab'[t] = Freed(q, pc) /\ tab' = [tab EXCEPT ![t] = tab'[t]]
      BY <1>1, <1>7 DEF RemoteRegistered, Set
    <2>2. kept' = (IF s.anonymous THEN r.ids ELSE kept) /\ saved' = saved
      BY <1>7 DEF RemoteRegistered
    <2>3. r.ids = NewIds(s.ids, u)
      BY <1>4 DEF AsksFor
    <2> DEFINE p == tab'[t]
    <2>4. /\ p \in TabRecord /\ Frees(p, pc) /\ SameNews(p, q) /\ p.anonymous = q.anonymous
      <3> HIDE DEF q
      <3> QED  BY <1>5, <2>1, FreedFields
    <2>5. p.anonymous = s.anonymous /\ p.ids = ids
          /\ IF s.anonymous THEN AsksFor(p, s, ids) ELSE SameNews(p, s)
      <3> HIDE DEF q, s, u, r, ids, p
      <3> QED  BY <1>5, <2>4 DEF SameWork, SameNews, AsksFor
    <2>6. kept' = IF s.anonymous THEN ids ELSE kept
      BY <2>2, <2>3
    <2>7. AreIds(tab'[t].ids)
      BY <1>5, <2>5
    <2> QED  BY <1>2, <1>3, <1>7, <2>1, <2>2, <2>4, <2>5, <2>6, <2>7 DEF Moves
  <1> QED  BY <1>6, <1>7

(* An object is put together when every part was sent or listed. *)
LEMMA CompleteFields ==
  ASSUME PageTyped, NEW t \in Tabs, CompleteUpload(t)
  PROVE  LET u == tab[t].session IN
         /\ Moves(t) /\ SameForm(tab'[t], tab[t]) /\ SameParts(tab'[t], tab[t])
         /\ tab[t].pc = "part" /\ tab'[t].pc = "done" /\ tab'[t].session = u
         /\ Unfinished(u) /\ u \in PageUploads
         /\ AllParts \subseteq tab[t].existing \cup tab[t].etags
         /\ \E list \in {PartsListed(t), upload[u].stored} :
              /\ list \in SUBSET AllParts
              /\ upload' = [upload EXCEPT ![u].state = "queued", ![u].object = list]
  <1> DEFINE s == tab[t]
             u == tab[t].session
  <1>1. s \in TabRecord /\ AreIds(s.ids) /\ tab \in [Tabs -> TabRecord] /\ u \in 0..MaxUploads
    BY TabTyped DEF TabRecord
  <1>2. u \in PageUploads /\ upload[u].stored \in SUBSET AllParts /\ Unfinished(u)
    BY <1>1, RowTyped DEF CompleteUpload, RowRecord
  <1>3. PartsListed(t) \in SUBSET AllParts
    BY <1>1 DEF PartsListed, TabRecord
  <1>4. /\ tab'[t] = [s EXCEPT !.pc = "done"] /\ tab' = [tab EXCEPT ![t] = tab'[t]]
        /\ s.pc = "part" /\ AllParts \subseteq s.existing \cup s.etags
    BY <1>1 DEF CompleteUpload, Set, Is, Unsent
  <1>5. PICK list \in {PartsListed(t), upload[u].stored} :
          upload' = [upload EXCEPT ![u].state = "queued", ![u].object = list]
    BY DEF CompleteUpload
  <1>6. /\ tab'[t] \in TabRecord /\ AreIds(tab'[t].ids) /\ SameForm(tab'[t], s)
        /\ SameParts(tab'[t], s) /\ tab'[t].pc = "done" /\ tab'[t].session = s.session
    <2> HIDE DEF s, u
    <2> QED  BY <1>1, <1>4 DEF TabRecord, Underway, SameForm, SameNews, SameParts
  <1> QED  BY <1>2, <1>3, <1>4, <1>5, <1>6 DEF Moves

(* A submission that is over, in whatever way. *)
LEMMA OverFields ==
  ASSUME PageTyped, NEW t \in Tabs, Completed(t) \/ Refused(t) \/ CallLost(t)
  PROVE  /\ Moves(t) /\ Frees(tab'[t], "idle") /\ tab'[t].anonymous = tab[t].anonymous
         /\ tab[t].pc # "closed"
         /\ \/ SameNews(tab'[t], tab[t])
            \/ AsksFor(tab'[t], tab[t], tab[t].ids)
  <1> DEFINE s == tab[t]
  <1>1. /\ s \in TabRecord /\ AreIds(s.ids) /\ tab \in [Tabs -> TabRecord]
        /\ Freed(s, "idle") \in TabRecord
    BY TabTyped, FreedFields
  <1>2. PICK r \in {Freed(s, "idle"), Refreshed(Freed(s, "idle"))} :
          tab'[t] = r /\ tab' = [tab EXCEPT ![t] = tab'[t]]
    BY <1>1 DEF Completed, Refused, CallLost, Stop, Set
  <1>3. s.pc # "closed"
    BY DEF Completed, Refused, CallLost, Is, Underway
  <1> HIDE DEF s
  <1>4. /\ Frees(Freed(s, "idle"), "idle") /\ SameNews(Freed(s, "idle"), s)
        /\ Freed(s, "idle").anonymous = s.anonymous
    BY <1>1, FreedFields
  <1>5. CASE r = Freed(s, "idle")
    BY <1>1, <1>2, <1>3, <1>4, <1>5 DEF Moves, SameNews, s
  <1>6. CASE r = Refreshed(Freed(s, "idle"))
    <2> DEFINE f == Freed(s, "idle")
    <2>1. r \in TabRecord /\ SameWork(r, f) /\ AsksFor(r, f, f.ids)
      BY <1>1, <1>6, RefreshedFields
    <2> HIDE DEF f
    <2>2. Frees(f, "idle") /\ SameNews(f, s) /\ f.anonymous = s.anonymous
      BY <1>4 DEF f
    <2>3. Frees(r, "idle") /\ r.anonymous = s.anonymous /\ AsksFor(r, s, s.ids) /\ AreIds(r.ids)
      BY <1>1, <2>1, <2>2 DEF Frees, SameWork, SameNews, AsksFor
    <2> QED  BY <1>2, <1>3, <2>1, <2>3 DEF Moves, s
  <1> QED  BY <1>2, <1>5, <1>6

(* Upload another unlocks the form. *)
LEMMA AnotherFields ==
  ASSUME PageTyped, NEW t \in Tabs, UploadAnother(t)
  PROVE  /\ Moves(t) /\ SameForm(tab'[t], tab[t]) /\ SameParts(tab'[t], tab[t])
         /\ tab[t].pc = "locked" /\ tab'[t].pc = "idle" /\ tab'[t].session = tab[t].session
  <1> DEFINE s == tab[t]
  <1>1. s \in TabRecord /\ AreIds(s.ids) /\ tab \in [Tabs -> TabRecord]
    BY TabTyped
  <1>2. /\ tab'[t] = [s EXCEPT !.pc = "idle", !.mode = "file"]
        /\ tab' = [tab EXCEPT ![t] = tab'[t]] /\ s.pc = "locked"
    BY <1>1 DEF UploadAnother, Set, Is
  <1> HIDE DEF s
  <1>3. /\ tab'[t] \in TabRecord /\ AreIds(tab'[t].ids) /\ SameForm(tab'[t], s)
        /\ SameParts(tab'[t], s) /\ tab'[t].pc = "idle" /\ tab'[t].session = s.session
    BY <1>1, <1>2, ZenonT(60) DEF TabRecord, SameForm, SameNews, SameParts
  <1> QED  BY <1>2, <1>3 DEF Moves, s
-----------------------------------------------------------------------------
(* What a step makes of the rows and of the storage. *)

OfTab(t) ==
  \/ OpenPage(t) \/ ClosePage(t) \/ PollAnswered(t) \/ PollFails(t) \/ TimerFires(t)
  \/ SubmitForm(t) \/ Resume(t) \/ ResumeFails(t) \/ CreateSession(t) \/ Created(t) \/ ListParts(t)
  \/ PutPart(t) \/ PutFails(t) \/ CompleteUpload(t) \/ Completed(t)
  \/ Refused(t) \/ CallLost(t) \/ RegisterRemote(t) \/ RemoteRegistered(t) \/ UploadAnother(t)

(* A step is of one tab or of the server. *)
LEMMA StepOfTab ==
  ASSUME PageNext
  PROVE  (\E t \in Tabs : OfTab(t)) \/ (\E u \in PageUploads : UploadEnds(u))
  BY DEF PageNext, OfTab

Writes(t) ==
  CreateSession(t) \/ RegisterRemote(t) \/ PutPart(t) \/ PutFails(t) \/ CompleteUpload(t)

(* Which actions write the rows, the saved session, the list and the history. *)
LEMMA Aside ==
  ASSUME NEW t \in Tabs, OfTab(t)
  PROVE  /\ Writes(t) \/ upload' = upload
         /\ saved' \in {saved, 0} \/ Created(t)
         /\ kept' = kept \/ Created(t) \/ RemoteRegistered(t)
         /\ crowded' = crowded \/ OpenPage(t)
  <1>1. CASE OpenPage(t) \/ ClosePage(t) \/ PollAnswered(t) \/ PollFails(t) \/ TimerFires(t)
             \/ SubmitForm(t) \/ Resume(t) \/ ResumeFails(t) \/ ListParts(t)
    BY <1>1 DEF OpenPage, ClosePage, PollAnswered, PollFails, TimerFires, SubmitForm, Resume,
      ResumeFails, ListParts
  <1>2. CASE Writes(t) \/ Created(t) \/ RemoteRegistered(t)
    BY <1>2 DEF Writes, CreateSession, RegisterRemote, PutPart, PutFails, CompleteUpload, Created,
      RemoteRegistered
  <1>3. CASE Completed(t) \/ Refused(t) \/ CallLost(t) \/ UploadAnother(t)
    BY <1>3 DEF Completed, Refused, CallLost, UploadAnother
  <1> QED  BY <1>1, <1>2, <1>3 DEF OfTab, Writes

(* A row that is there stays, and ends once; one that is not is as it was, unless
   it is the next. *)
RowStep(v) ==
  LET old == upload[v]
      new == upload'[v] IN
  /\ new \in RowRecord
  /\ new.state = "none" => new = old
  /\ old.state = "none" =>
       new = old \/ (v \in New /\ new.stored = old.stored /\ new.object = old.object)
  /\ old.state = "ended" => new.state = "ended"
  /\ old.state # "none" => new.anonymous = old.anonymous
  /\ old.stored \subseteq new.stored
  /\ new.stored # old.stored => \E t \in Tabs : tab[t].pc = "part" /\ tab[t].session = v

(* Every step moves every row so. *)
LEMMA RowMoves ==
  ASSUME PageTyped, PageNext, NEW v \in PageUploads
  PROVE  RowStep(v)
  <1>1. upload \in [PageUploads -> RowRecord] /\ upload[v] \in RowRecord
    BY DEF PageTyped
  <1>2. ASSUME upload'[v] = upload[v] PROVE RowStep(v)
    BY <1>1, <1>2 DEF RowStep
  <1>3. ASSUME NEW t \in Tabs, CreateSession(t) \/ RegisterRemote(t) PROVE RowStep(v)
    <2> DEFINE u == tab'[t].session
    <2>1. PICK x \in {"open", "queued"} :
            upload' = [upload EXCEPT ![u].state = x, ![u].anonymous = tab[t].anonymous]
      BY <1>3, CreateFields
    <2>2. u \in New /\ u \in PageUploads /\ upload[u].state = "none" /\ tab[t].anonymous \in BOOLEAN
      BY <1>3, CreateFields, TabTyped DEF New, TabRecord
    <2> HIDE DEF u
    <2>3. CASE v = u
      <3>1. upload'[v] = [upload[v] EXCEPT !.state = x, !.anonymous = tab[t].anonymous]
        BY <1>1, <2>1, <2>2, <2>3
      <3> QED  BY <1>1, <2>2, <2>3, <3>1 DEF RowStep, RowRecord
    <2>4. CASE v # u
      BY <1>1, <1>2, <2>1, <2>2, <2>4
    <2> QED  BY <2>3, <2>4
  <1>4. ASSUME NEW t \in Tabs, PutPart(t) \/ PutFails(t) PROVE RowStep(v)
    <2> DEFINE u == tab[t].session
    <2>1. PICK more \in SUBSET AllParts :
            upload' = [upload EXCEPT ![u].stored = upload[u].stored \cup more]
      BY <1>4, PutFields
    <2>2. u \in PageUploads /\ tab[t].pc = "part" /\ upload[u].state = "open"
      BY <1>4, PutFields DEF Unfinished
    <2>3. CASE v = u
      <3>1. upload'[v] = [upload[v] EXCEPT !.stored = upload[v].stored \cup more]
        BY <1>1, <2>1, <2>2, <2>3
      <3> QED  BY <1>1, <2>2, <2>3, <3>1 DEF RowStep, RowRecord
    <2>4. CASE v # u
      BY <1>1, <1>2, <2>1, <2>2, <2>4
    <2> QED  BY <2>3, <2>4
  <1>5. ASSUME NEW t \in Tabs, CompleteUpload(t) PROVE RowStep(v)
    <2> DEFINE u == tab[t].session
    <2>1. PICK list \in SUBSET AllParts :
            upload' = [upload EXCEPT ![u].state = "queued", ![u].object = list]
      BY <1>5, CompleteFields
    <2>2. u \in PageUploads /\ upload[u].state = "open"
      BY <1>5, CompleteFields DEF Unfinished
    <2> HIDE DEF u
    <2>3. CASE v = u
      <3>1. upload'[v] = [upload[v] EXCEPT !.state = "queued", !.object = list]
        BY <1>1, <2>1, <2>2, <2>3
      <3> QED  BY <1>1, <2>2, <2>3, <3>1 DEF RowStep, RowRecord
    <2>4. CASE v # u
      BY <1>1, <1>2, <2>1, <2>2, <2>4
    <2> QED  BY <2>3, <2>4
  <1>6. ASSUME NEW u \in PageUploads, UploadEnds(u) PROVE RowStep(v)
    <2>1. upload' = [upload EXCEPT ![u].state = "ended"] /\ upload[u].state \in {"open", "queued"}
      BY <1>6 DEF UploadEnds
    <2>3. CASE v = u
      <3>1. upload'[v] = [upload[v] EXCEPT !.state = "ended"]
        BY <1>1, <2>1, <2>3
      <3> QED  BY <1>1, <2>1, <2>3, <3>1 DEF RowStep, RowRecord
    <2>4. CASE v # u
      BY <1>1, <1>2, <2>1, <2>4
    <2> QED  BY <2>3, <2>4
  <1> QED  BY <1>2, <1>3, <1>4, <1>5, <1>6, StepOfTab, Aside DEF Writes

(* A step of one tab leaves the others alone. *)
LEMMA TabMoves ==
  ASSUME PageInv, NEW t \in Tabs, OfTab(t)
  PROVE  Moves(t) /\ \A o \in Tabs \ {t} : tab'[o] = tab[o]
  <1>1. Moves(t)
    BY OpenFields, CloseFields, NewsFields, SubmitFields, ListFields, ResumeFailsFields,
      CreateFields, PutFields, AnsweredFields, CompleteFields, OverFields, AnotherFields, ZenonT(60)
      DEF PageInv, OfTab
  <1> QED  BY <1>1 DEF Moves, PageInv, PageTyped

(* A new id brings no other. *)
LEMMA IdsOfNew ==
  ASSUME NEW ids, AreIds(ids), NEW u \in PageUploads, u \notin ToSet(ids)
  PROVE  AreIds(NewIds(ids, u)) /\ ToSet(NewIds(ids, u)) \subseteq {u} \cup ToSet(ids)
  <1>1. AreIds(NewIds(ids, u)) /\ NewIds(ids, u)[1] = u
        /\ \A n \in 2..Len(NewIds(ids, u)) : n - 1 \in 1..Len(ids) /\ NewIds(ids, u)[n] = ids[n - 1]
    BY NewInFront, SizesAreNat DEF AreIds
  <1>2. ids \in Seq(PageUploads) /\ Len(ids) \in Nat /\ Len(NewIds(ids, u)) \in Nat
        /\ NewIds(ids, u) \in Seq(PageUploads)
    BY <1>1 DEF AreIds
  <1>3. ASSUME NEW n \in 1..Len(NewIds(ids, u)) PROVE NewIds(ids, u)[n] \in {u} \cup ToSet(ids)
    <2>1. CASE n = 1
      BY <1>1, <2>1
    <2>2. CASE n # 1
      BY <1>1, <1>2, <2>2 DEF ToSet
    <2> QED  BY <2>1, <2>2
  <1> QED  BY <1>1, <1>2, <1>3 DEF ToSet

(* What storage names was known, or is a row that is just answered. *)
LEMMA KeptMoves ==
  ASSUME PageInv, NEW t \in Tabs, OfTab(t)
  PROVE  /\ AreIds(kept') /\ saved' \in 0..MaxUploads
         /\ \A u \in ToSet(kept') : u \in ToSet(kept) \/ u \in ToSet(tab[t].ids)
                                    \/ (Unanswered(t) /\ u = tab[t].session)
         /\ saved' = saved \/ saved' = 0 \/ (Unanswered(t) /\ saved' = tab[t].session)
  <1>1. CASE Created(t) \/ RemoteRegistered(t)
    BY <1>1, AnsweredFields, IdsOfNew, TabTyped, SizesAreNat
      DEF PageInv, PageTyped, PageUploads
  <1>2. CASE ~(Created(t) \/ RemoteRegistered(t))
    BY <1>2, Aside, SizesAreNat DEF PageInv, PageTyped
  <1> QED  BY <1>1, <1>2

(* Every step keeps the types. *)
LEMMA TypedNext ==
  ASSUME PageInv, PageNext
  PROVE  PageTyped'
  <1>1. upload' \in [PageUploads -> RowRecord]
    <2>1. \A v \in PageUploads : upload'[v] \in RowRecord
      BY RowMoves DEF PageInv, RowStep
    <2>2. upload' \in [PageUploads -> {upload'[v] : v \in PageUploads}]
      <3>1. ASSUME NEW t \in Tabs, Writes(t)
            PROVE DOMAIN upload' = DOMAIN upload /\ upload' = [v \in DOMAIN upload |-> upload'[v]]
        BY <3>1, CreateFields, PutFields, CompleteFields DEF Writes, PageInv, PageTyped
      <3>2. ASSUME NEW u \in PageUploads, UploadEnds(u)
            PROVE DOMAIN upload' = DOMAIN upload /\ upload' = [v \in DOMAIN upload |-> upload'[v]]
        BY <3>2 DEF UploadEnds, PageInv, PageTyped
      <3> QED  BY <3>1, <3>2, StepOfTab, Aside DEF PageInv, PageTyped
    <2> QED  BY <2>1, <2>2
  <1>2. ASSUME NEW t \in Tabs, OfTab(t) PROVE PageTyped'
    <2>1. tab' \in [Tabs -> TabRecord] /\ \A o \in Tabs : AreIds(tab'[o].ids)
      BY <1>2, TabMoves DEF Moves, PageInv, PageTyped
    <2>2. crowded' \in BOOLEAN
      BY <1>2, Aside DEF PageInv, PageTyped, OpenPage
    <2> QED  BY <1>1, <1>2, <2>1, <2>2, KeptMoves DEF PageTyped
  <1>3. ASSUME NEW u \in PageUploads, UploadEnds(u) PROVE PageTyped'
    BY <1>1, <1>3 DEF PageInv, PageTyped, UploadEnds
  <1> QED  BY <1>2, <1>3, StepOfTab
-----------------------------------------------------------------------------
(* One tab or several: what the tabs and the storage name. *)

(* What a tab holds after a step it held, or it is what was there to be had. *)
LEMMA SessionMoves ==
  ASSUME PageInv, NEW t \in Tabs, OfTab(t)
  PROVE  \/ tab'[t].session \in {tab[t].session, saved, 0}
         \/ CreateSession(t) \/ RegisterRemote(t)
  BY OpenFields, CloseFields, ClosedTyped, NewsFields, SubmitFields, ListFields, ResumeFailsFields,
    PutFields, AnsweredFields, CompleteFields, OverFields, AnotherFields, ZenonT(60)
    DEF PageInv, OfTab, SameWork, Frees

(* The ids a tab has it had, storage had, or it is just told. *)
LEMMA IdsMove ==
  ASSUME PageInv, NEW t \in Tabs, OfTab(t)
  PROVE  \A u \in ToSet(tab'[t].ids) : u \in ToSet(kept) \/ u \in ToSet(tab[t].ids)
                                       \/ (Unanswered(t) /\ u = tab[t].session)
  <1>1. CASE Created(t) \/ RemoteRegistered(t)
    BY <1>1, AnsweredFields, IdsOfNew, TabTyped DEF PageInv
  <1>2. CASE OpenPage(t)
    BY <1>2, OpenFields DEF PageInv, AsksFor
  <1>3. CASE ClosePage(t)
    BY <1>3, CloseFields, ClosedTyped, IdsAsSet DEF PageInv, ToSet
  <1>4. CASE ~(Created(t) \/ RemoteRegistered(t) \/ OpenPage(t) \/ ClosePage(t))
    BY <1>4, NewsFields, SubmitFields, ListFields, ResumeFailsFields, CreateFields, PutFields,
      CompleteFields, OverFields, AnotherFields, ZenonT(60)
      DEF PageInv, OfTab, SameForm, SameNews, AsksFor
  <1> QED  BY <1>1, <1>2, <1>3, <1>4

(* What has been created stays. *)
LEMMA ExistsOn ==
  ASSUME PageTyped, PageNext, NEW u \in 0..MaxUploads, Exists(u)
  PROVE  Exists(u)'
  <1>1. CASE u \in PageUploads
    BY <1>1, RowMoves DEF RowStep, Exists
  <1>2. CASE u = 0
    BY <1>2 DEF Exists
  <1> QED  BY <1>1, <1>2, SizesAreNat DEF PageUploads

(* Nothing names a row that is not there. *)
LEMMA NamedNext ==
  ASSUME PageInv, PageNext
  PROVE  NamedExist'
  <1>1. /\ saved \in 0..MaxUploads /\ 0 \in 0..MaxUploads /\ Exists(0)
        /\ \A t \in Tabs : tab[t].session \in 0..MaxUploads
        /\ ToSet(kept) \subseteq 0..MaxUploads
        /\ \A t \in Tabs : ToSet(tab[t].ids) \subseteq 0..MaxUploads
    BY TabTyped, IdsAsSet, SizesAreNat
      DEF PageInv, PageTyped, AreIds, TabRecord, PageUploads, Exists
  <1>2. /\ Exists(saved) /\ \A u \in ToSet(kept) : Exists(u)
        /\ \A t \in Tabs : Exists(tab[t].session) /\ \A u \in ToSet(tab[t].ids) : Exists(u)
    BY DEF PageInv, NamedExist
  <1>3. /\ Exists(saved)' => TRUE
        /\ \A u \in 0..MaxUploads : Exists(u) => upload'[u].state # "none" \/ u = 0
    BY ExistsOn DEF PageInv, Exists
  <1>4. ASSUME NEW t \in Tabs, OfTab(t) PROVE NamedExist'
    <2>1. \A o \in Tabs \ {t} : tab'[o] = tab[o]
      BY <1>4, TabMoves
    <2>2. Exists(saved)' /\ \A u \in ToSet(kept') : upload'[u].state # "none" \/ u = 0
      BY <1>1, <1>2, <1>3, <1>4, KeptMoves DEF Exists
    <2>3. \A u \in ToSet(tab'[t].ids) : upload'[u].state # "none" \/ u = 0
      BY <1>1, <1>2, <1>3, <1>4, IdsMove
    <2>4. upload'[tab'[t].session].state # "none" \/ tab'[t].session = 0
      <3>1. CASE CreateSession(t) \/ RegisterRemote(t)
        <4> DEFINE v == tab'[t].session
        <4>1. v \in PageUploads /\ \E x \in {"open", "queued"} :
                upload' = [upload EXCEPT ![v].state = x, ![v].anonymous = tab[t].anonymous]
          BY <3>1, CreateFields DEF PageInv, New
        <4> HIDE DEF v
        <4>2. upload'[v].state # "none"
          BY <4>1 DEF PageInv, PageTyped, RowRecord
        <4> QED  BY <4>2 DEF v
      <3>2. CASE tab'[t].session \in {tab[t].session, saved, 0}
        BY <1>1, <1>2, <1>3, <3>2
      <3> QED  BY <1>4, <3>1, <3>2, SessionMoves
    <2> QED  BY <1>1, <1>2, <1>3, <2>1, <2>2, <2>3, <2>4 DEF NamedExist, Exists
  <1>5. ASSUME NEW v \in PageUploads, UploadEnds(v) PROVE NamedExist'
    <2>1. tab' = tab /\ saved' = saved /\ kept' = kept
      BY <1>5 DEF UploadEnds
    <2> QED  BY <1>1, <1>2, <1>3, <2>1 DEF NamedExist, Exists
  <1> QED  BY <1>4, <1>5, StepOfTab

(* Rows stay in order. *)
LEMMA OrderNext ==
  ASSUME PageInv, PageNext
  PROVE  RowsInOrder'
  <1> SUFFICES ASSUME NEW u \in PageUploads, upload'[u].state = "none"
               PROVE  /\ upload'[u].stored = {} /\ upload'[u].object = {}
                      /\ \A v \in PageUploads : u < v => upload'[v].state = "none"
    BY DEF RowsInOrder
  <1>1. upload'[u] = upload[u]
    BY RowMoves DEF RowStep, PageInv
  <1>2. /\ upload[u].stored = {} /\ upload[u].object = {}
        /\ \A v \in PageUploads : u < v => upload[v].state = "none"
    BY <1>1 DEF PageInv, RowsInOrder
  <1>3. ASSUME NEW v \in PageUploads, u < v PROVE upload'[v].state = "none"
    <2>1. upload[v].state = "none" /\ u \in 1..(v - 1)
      BY <1>2, <1>3, SizesAreNat DEF PageUploads
    <2>2. v \notin New
      BY <1>1, <2>1 DEF New
    <2> QED  BY <2>1, <2>2, RowMoves DEF RowStep, PageInv
  <1> QED  BY <1>1, <1>2, <1>3

(* What a tab counts as sent stays stored. *)
LEMMA SentNext ==
  ASSUME PageInv, PageNext
  PROVE  SentIsStored'
  <1> DEFINE Sent(o) ==
        /\ tab[o].pc \in {"created", "sent", "list", "part", "done"} => tab[o].session # 0
        /\ tab[o].pc \notin {"part", "done"} => tab[o].existing = {} /\ tab[o].etags = {}
        /\ tab[o].pc = "part" =>
             tab[o].existing \cup tab[o].etags \subseteq upload[tab[o].session].stored
  <1>1. \A o \in Tabs : Sent(o)
    BY DEF PageInv, SentIsStored
  <1>2. ASSUME NEW o \in Tabs, tab'[o] = tab[o] PROVE Sent(o)'
    <2>1. CASE tab[o].pc = "part"
      <3>1. tab[o].session \in PageUploads
        BY <1>1, <2>1, TabTyped, SizesAreNat DEF PageInv, TabRecord, PageUploads
      <3> QED  BY <1>1, <1>2, <2>1, <3>1, RowMoves DEF RowStep, PageInv
    <2>2. CASE tab[o].pc # "part"
      BY <1>1, <1>2, <2>2
    <2> QED  BY <2>1, <2>2
  <1>3. ASSUME NEW t \in Tabs, OfTab(t) PROVE Sent(t)'
    <2>1. CASE OpenPage(t) \/ ClosePage(t) \/ Completed(t) \/ Refused(t) \/ CallLost(t)
               \/ RemoteRegistered(t)
      <3>1. CASE OpenPage(t) \/ Completed(t) \/ Refused(t) \/ CallLost(t)
        BY <3>1, OpenFields, OverFields DEF PageInv, Frees
      <3>2. CASE ClosePage(t)
        BY <3>2, CloseFields, ClosedTyped DEF PageInv
      <3>3. CASE RemoteRegistered(t)
        <4>1. ~Created(t)
          BY <3>3 DEF Created, RemoteRegistered, Is
        <4>2. \E pc \in {"idle", "locked"} : Frees(tab'[t], pc)
          BY <3>3, <4>1, AnsweredFields DEF PageInv
        <4> QED  BY <4>2 DEF Frees
      <3> QED  BY <2>1, <3>1, <3>2, <3>3
    <2>2. CASE PollAnswered(t) \/ PollFails(t) \/ TimerFires(t)
      <3>1. SameWork(tab'[t], tab[t]) /\ upload' = upload
        BY <2>2, NewsFields DEF PageInv, PollAnswered, PollFails, TimerFires
      <3> QED  BY <1>1, <3>1 DEF SameWork
    <2>3. CASE SubmitForm(t) \/ ResumeFails(t) \/ UploadAnother(t)
      BY <1>1, <2>3, SubmitFields, ResumeFailsFields, AnotherFields DEF PageInv, SameParts
    <2>4. CASE CreateSession(t) \/ RegisterRemote(t)
      <3>1. /\ SameParts(tab'[t], tab[t]) /\ tab[t].pc \in {"create", "remote"}
            /\ tab'[t].pc \in {"created", "sent"} /\ tab'[t].session \in PageUploads
        BY <2>4, CreateFields DEF PageInv, New
      <3>2. tab'[t].session # 0
        BY <3>1, SizesAreNat DEF PageUploads
      <3> QED  BY <1>1, <3>1, <3>2 DEF SameParts
    <2>5. CASE Created(t)
      BY <1>1, <2>5, AnsweredFields DEF PageInv, SameParts, Unanswered,
        RemoteRegistered, Created, Is
    <2>6. CASE Resume(t) \/ ListParts(t)
      <3>1. upload' = upload
        BY <2>6 DEF Resume, ListParts
      <3>2. /\ tab'[t].pc = "part" /\ tab'[t].session = tab[t].session
            /\ tab[t].session \in PageUploads /\ tab'[t].etags = {}
            /\ tab'[t].existing = upload[tab[t].session].stored
        BY <1>1, <2>6, ListFields DEF PageInv
      <3> QED  BY <3>1, <3>2, SizesAreNat DEF PageUploads
    <2>7. CASE PutPart(t) \/ PutFails(t)
      <3> DEFINE u == tab[t].session
      <3>1. PICK more \in SUBSET AllParts :
              /\ upload' = [upload EXCEPT ![u].stored = upload[u].stored \cup more]
              /\ tab'[t].etags \subseteq tab[t].etags \cup more
        BY <2>7, PutFields DEF PageInv
      <3>2. /\ u \in PageUploads /\ tab[t].pc = "part"
            /\ \/ Frees(tab'[t], "idle")
               \/ /\ tab'[t].pc = "part" /\ tab'[t].session = u
                  /\ tab'[t].existing = tab[t].existing
        BY <2>7, PutFields DEF PageInv
      <3>3. tab[t].existing \cup tab[t].etags \subseteq upload[u].stored
        BY <1>1, <3>2
      <3> HIDE DEF u
      <3>4. upload'[u].stored = upload[u].stored \cup more
        BY <3>1, <3>2 DEF PageInv, PageTyped, RowRecord
      <3>5. CASE Frees(tab'[t], "idle")
        BY <3>5 DEF Frees
      <3>6. CASE /\ tab'[t].pc = "part" /\ tab'[t].session = u
                 /\ tab'[t].existing = tab[t].existing
        <4>1. tab'[t].existing \cup tab'[t].etags \subseteq upload'[u].stored
          BY <3>1, <3>3, <3>4, <3>6
        <4>2. u # 0
          BY <3>2, SizesAreNat DEF PageUploads
        <4> QED  BY <3>6, <4>1, <4>2
      <3> QED  BY <3>2, <3>5, <3>6
    <2>8. CASE CompleteUpload(t)
      <3>1. tab'[t].pc = "done" /\ tab'[t].session \in PageUploads
        BY <2>8, CompleteFields DEF PageInv
      <3> QED  BY <3>1, SizesAreNat DEF PageUploads
    <2> QED  BY <1>3, <2>1, <2>2, <2>3, <2>4, <2>5, <2>6, <2>7, <2>8 DEF OfTab
  <1>4. \A o \in Tabs : Sent(o)'
    <2>1. ASSUME NEW t \in Tabs, OfTab(t), NEW o \in Tabs PROVE Sent(o)'
      BY <1>2, <1>3, <2>1, TabMoves
    <2>2. ASSUME NEW v \in PageUploads, UploadEnds(v), NEW o \in Tabs PROVE Sent(o)'
      BY <1>2, <2>2 DEF UploadEnds
    <2> QED  BY <2>1, <2>2, StepOfTab
  <1> QED  BY <1>4 DEF SentIsStored

(* A row whose answer is under way stays unknown to the others. *)
LEMMA OnlyItsTabNext ==
  ASSUME PageInv, PageNext
  PROVE  OnlyItsTab'
  <1> SUFFICES ASSUME NEW o \in Tabs, Unanswered(o)'
               PROVE  LET u == tab'[o].session IN
                      /\ upload'[u].stored = {} /\ upload'[u].anonymous = tab'[o].anonymous
                      /\ saved' # u /\ u \notin ToSet(kept')
                      /\ \A p \in Tabs : u \notin ToSet(tab'[p].ids)
                      /\ \A p \in Tabs \ {o} : tab'[p].session # u
    BY DEF OnlyItsTab
  <1> DEFINE u == tab'[o].session
  <1>1. ASSUME Unanswered(o)
        PROVE  LET w == tab[o].session IN
               /\ w \in PageUploads /\ upload[w].stored = {} /\ upload[w].state # "none"
               /\ upload[w].anonymous = tab[o].anonymous
               /\ saved # w /\ w \notin ToSet(kept)
               /\ \A p \in Tabs : w \notin ToSet(tab[p].ids)
               /\ \A p \in Tabs \ {o} : tab[p].session # w
    <2>1. tab[o].session \in 0..MaxUploads /\ tab[o].session # 0
      BY <1>1, TabTyped DEF PageInv, SentIsStored, Unanswered, TabRecord
    <2>2. tab[o].session \in PageUploads
      BY <2>1, SizesAreNat DEF PageUploads
    <2>3. upload[tab[o].session].state # "none"
      BY <2>1 DEF PageInv, NamedExist, Exists
    <2> QED  BY <1>1, <2>2, <2>3 DEF PageInv, OnlyItsTab
  <1>2. ASSUME Unanswered(o)
        PROVE  LET w == tab[o].session IN
               upload'[w].stored = {} /\ upload'[w].anonymous = upload[w].anonymous
    <2> DEFINE w == tab[o].session
    <2>1. w \in PageUploads /\ RowStep(w) /\ upload[w].stored = {} /\ upload[w].state # "none"
      BY <1>1, <1>2, RowMoves DEF PageInv
    <2>2. ~ \E t \in Tabs : tab[t].pc = "part" /\ tab[t].session = w
      BY <1>1, <1>2 DEF Unanswered
    <2> QED  BY <2>1, <2>2 DEF RowStep
  <1>3. ASSUME NEW t \in Tabs, OfTab(t), t # o
        PROVE  /\ upload'[u].stored = {} /\ upload'[u].anonymous = tab'[o].anonymous
               /\ saved' # u /\ u \notin ToSet(kept')
               /\ \A p \in Tabs : u \notin ToSet(tab'[p].ids)
               /\ \A p \in Tabs \ {o} : tab'[p].session # u
    <2>1. tab'[o] = tab[o] /\ Unanswered(o) /\ \A p \in Tabs \ {t} : tab'[p] = tab[p]
      BY <1>3, TabMoves DEF Unanswered
    <2>2. tab[t].session # u /\ saved # u /\ u # 0 /\ u \in PageUploads
      BY <1>1, <1>3, <2>1, SizesAreNat DEF PageUploads
    <2>3. saved' # u /\ u \notin ToSet(kept') /\ u \notin ToSet(tab'[t].ids)
      BY <1>1, <1>3, <2>1, <2>2, KeptMoves, IdsMove
    <2>4. tab'[t].session # u
      <3>1. CASE CreateSession(t) \/ RegisterRemote(t)
        <4>1. tab'[t].session \in New
          BY <3>1, CreateFields DEF PageInv
        <4>2. upload[tab'[t].session].state = "none"
          BY <4>1 DEF New
        <4>3. upload[u].state # "none"
          BY <1>1, <2>1
        <4> QED  BY <4>2, <4>3
      <3> QED  BY <1>3, <2>2, <3>1, SessionMoves
    <2> QED  BY <1>1, <1>2, <2>1, <2>3, <2>4
  <1>4. ASSUME OfTab(o)
        PROVE  /\ upload'[u].stored = {} /\ upload'[u].anonymous = tab'[o].anonymous
               /\ saved' # u /\ u \notin ToSet(kept')
               /\ \A p \in Tabs : u \notin ToSet(tab'[p].ids)
               /\ \A p \in Tabs \ {o} : tab'[p].session # u
    <2>1. \A p \in Tabs \ {o} : tab'[p] = tab[p]
      BY <1>4, TabMoves
    <2>2. CASE CreateSession(o) \/ RegisterRemote(o)
      <3>1. /\ u \in New /\ SameForm(tab'[o], tab[o])
            /\ \E x \in {"open", "queued"} :
                 upload' = [upload EXCEPT ![u].state = x, ![u].anonymous = tab[o].anonymous]
        BY <2>2, CreateFields, SMTT(60) DEF PageInv
      <3>2. saved' = saved /\ kept' = kept
        BY <2>2 DEF CreateSession, RegisterRemote
      <3>3. u \in PageUploads /\ upload[u].state = "none" /\ u # 0
        BY <3>1, SizesAreNat DEF New, PageUploads
      <3>4. /\ saved # u /\ u \notin ToSet(kept)
            /\ \A p \in Tabs : u \notin ToSet(tab[p].ids)
            /\ \A p \in Tabs : tab[p].session # u
        BY <3>3 DEF PageInv, NamedExist, Exists
      <3>5. upload[u].stored = {} /\ upload[u] \in RowRecord
        BY <3>3 DEF PageInv, RowsInOrder, PageTyped
      <3> HIDE DEF u
      <3>6. upload'[u].stored = {} /\ upload'[u].anonymous = tab[o].anonymous
        BY <3>1, <3>3, <3>5 DEF PageInv, PageTyped, RowRecord
      <3> QED  BY <2>1, <3>1, <3>2, <3>4, <3>6 DEF SameForm, SameNews
    <2>3. CASE PollAnswered(o) \/ PollFails(o) \/ TimerFires(o)
      <3>1. SameWork(tab'[o], tab[o]) /\ tab'[o].ids = tab[o].ids
        BY <2>3, NewsFields DEF PageInv
      <3>2. upload' = upload /\ saved' = saved /\ kept' = kept
        BY <2>3 DEF PollAnswered, PollFails, TimerFires
      <3>3. Unanswered(o) /\ u = tab[o].session
        BY <3>1 DEF SameWork, Unanswered
      <3> QED  BY <1>1, <2>1, <3>1, <3>2, <3>3 DEF SameWork
    <2>4. CASE ~(CreateSession(o) \/ RegisterRemote(o) \/ PollAnswered(o) \/ PollFails(o)
               \/ TimerFires(o))
      <3>1. tab'[o].pc \in {"created", "sent"}
        BY DEF Unanswered
      <3>2. ~(OpenPage(o) \/ ClosePage(o) \/ SubmitForm(o) \/ Resume(o) \/ ListParts(o)
              \/ ResumeFails(o) \/ UploadAnother(o))
        BY <3>1, OpenFields, CloseFields, ClosedTyped, SubmitFields, ListFields, ResumeFailsFields,
          AnotherFields DEF PageInv, Frees
      <3>3. ~(PutPart(o) \/ PutFails(o) \/ CompleteUpload(o) \/ Completed(o) \/ Refused(o)
              \/ CallLost(o))
        BY <3>1, PutFields, CompleteFields, OverFields DEF PageInv, Frees
      <3>4. ~(Created(o) \/ RemoteRegistered(o))
        BY <3>1, AnsweredFields DEF PageInv, Frees
      <3> QED  BY <1>4, <2>4, <3>2, <3>3, <3>4 DEF OfTab
    <2> QED  BY <2>2, <2>3, <2>4
  <1>5. ASSUME NEW v \in PageUploads, UploadEnds(v)
        PROVE  /\ upload'[u].stored = {} /\ upload'[u].anonymous = tab'[o].anonymous
               /\ saved' # u /\ u \notin ToSet(kept')
               /\ \A p \in Tabs : u \notin ToSet(tab'[p].ids)
               /\ \A p \in Tabs \ {o} : tab'[p].session # u
    <2>1. tab' = tab /\ saved' = saved /\ kept' = kept /\ Unanswered(o)
      BY <1>5 DEF UploadEnds, Unanswered
    <2> QED  BY <1>1, <1>2, <2>1
  <1> QED  BY <1>3, <1>4, <1>5, StepOfTab

(* What is put together is the whole file. *)
LEMMA WholeNext ==
  ASSUME PageInv, PageNext
  PROVE  WholeFile'
  <1> SUFFICES ASSUME NEW v \in PageUploads, upload'[v].object # {}
               PROVE  upload'[v].object = AllParts
    BY DEF WholeFile
  <1>1. upload[v] \in RowRecord /\ (upload[v].object # {} => upload[v].object = AllParts)
    BY DEF PageInv, PageTyped, WholeFile
  <1>2. ASSUME NEW t \in Tabs, CompleteUpload(t) PROVE upload'[v].object = AllParts
    <2> DEFINE u == tab[t].session
    <2>1. PICK list \in {PartsListed(t), upload[u].stored} :
            list \in SUBSET AllParts
            /\ upload' = [upload EXCEPT ![u].state = "queued", ![u].object = list]
      BY <1>2, CompleteFields DEF PageInv
    <2>2. /\ u \in PageUploads /\ tab[t].pc = "part"
          /\ AllParts \subseteq tab[t].existing \cup tab[t].etags
      BY <1>2, CompleteFields DEF PageInv
    <2>3. tab[t].existing \cup tab[t].etags \subseteq upload[u].stored
      BY <2>2 DEF PageInv, SentIsStored
    <2>4. list = AllParts
      BY <2>1, <2>2, <2>3 DEF PartsListed
    <2> HIDE DEF u
    <2>5. upload'[v].object = IF v = u THEN list ELSE upload[v].object
      BY <2>1, <2>2 DEF PageInv, PageTyped, RowRecord
    <2> QED  BY <1>1, <2>4, <2>5
  <1>3. ASSUME NEW t \in Tabs, OfTab(t), ~CompleteUpload(t)
        PROVE  upload'[v].object = upload[v].object
    <2>1. CASE CreateSession(t) \/ RegisterRemote(t)
      <3> DEFINE u == tab'[t].session
      <3>1. u \in PageUploads /\ \E x \in {"open", "queued"} :
              upload' = [upload EXCEPT ![u].state = x, ![u].anonymous = tab[t].anonymous]
        BY <2>1, CreateFields DEF PageInv, New
      <3> HIDE DEF u
      <3> QED  BY <1>1, <3>1 DEF PageInv, PageTyped, RowRecord
    <2>2. CASE PutPart(t) \/ PutFails(t)
      <3> DEFINE u == tab[t].session
      <3>1. u \in PageUploads /\ \E more \in SUBSET AllParts :
              upload' = [upload EXCEPT ![u].stored = upload[u].stored \cup more]
        BY <2>2, PutFields DEF PageInv
      <3> HIDE DEF u
      <3> QED  BY <1>1, <3>1 DEF PageInv, PageTyped, RowRecord
    <2> QED  BY <1>3, <2>1, <2>2, Aside DEF Writes
  <1>4. ASSUME NEW u \in PageUploads, UploadEnds(u) PROVE upload'[v].object = upload[v].object
    BY <1>1, <1>4 DEF UploadEnds, PageInv, PageTyped, RowRecord
  <1> QED  BY <1>1, <1>2, <1>3, <1>4, StepOfTab

(* A list of ids is a small set. *)
LEMMA FewIds ==
  ASSUME NEW s, AreIds(s)
  PROVE  IsFiniteSet(ToSet(s)) /\ Cardinality(ToSet(s)) <= AnonMax
  <1>1. Len(s) \in Nat /\ IsFiniteSet(1..Len(s)) /\ Cardinality(1..Len(s)) = Len(s)
    BY FS_Interval DEF AreIds
  <1> DEFINE f == [n \in 1..Len(s) |-> s[n]]
  <1>2. f \in Surjection(1..Len(s), ToSet(s))
    BY DEF Surjection, ToSet, AreIds
  <1>3. IsFiniteSet(ToSet(s)) /\ Cardinality(ToSet(s)) <= Cardinality(1..Len(s))
    BY <1>1, <1>2, FS_Surjection DEF ExistsSurjection
  <1>4. Cardinality(ToSet(s)) \in Nat
    BY <1>3, FS_CardinalityType
  <1> QED  BY <1>1, <1>3, <1>4, SizesAreNat DEF AreIds

(* A poll asks about the ids of a list. *)
LEMMA PollsNext ==
  ASSUME PageInv, PageNext
  PROVE  PollsAreSmall'
  <1> SUFFICES ASSUME NEW o \in Tabs, NEW ids \in tab'[o].polls
               PROVE  IsFiniteSet(ids) /\ Cardinality(ids) <= AnonMax
    BY DEF PollsAreSmall
  <1>1. \A p \in Tabs : \A i \in tab[p].polls : IsFiniteSet(i) /\ Cardinality(i) <= AnonMax
    BY DEF PageInv, PollsAreSmall
  <1>2. ASSUME NEW t \in Tabs, OfTab(t)
        PROVE  ids \in tab[o].polls \/ (o = t /\ ids = ToSet(tab'[t].ids))
    <2>1. CASE o # t
      BY <1>2, <2>1, TabMoves
    <2>2. CASE o = t /\ (OpenPage(t) \/ ClosePage(t))
      BY <2>2, OpenFields, CloseFields, ClosedTyped DEF PageInv, AsksFor
    <2>3. CASE o = t /\ (PollAnswered(t) \/ PollFails(t) \/ TimerFires(t))
      <3>1. \/ AsksFor(tab'[t], tab[t], tab[t].ids)
            \/ tab'[t].polls \subseteq tab[t].polls
        BY <2>3, NewsFields DEF PageInv
      <3> QED  BY <2>3, <3>1 DEF AsksFor
    <2>4. CASE o = t /\ (Created(t) \/ RemoteRegistered(t))
      BY <2>4, AnsweredFields DEF PageInv, AsksFor, SameNews
    <2>5. CASE o = t /\ (Completed(t) \/ Refused(t) \/ CallLost(t))
      <3>1. SameNews(tab'[t], tab[t]) \/ AsksFor(tab'[t], tab[t], tab[t].ids)
        BY <2>5, OverFields DEF PageInv
      <3> QED  BY <2>5, <3>1 DEF AsksFor, SameNews
    <2>6. CASE o = t /\ ~(OpenPage(t) \/ ClosePage(t) \/ PollAnswered(t) \/ PollFails(t)
                          \/ TimerFires(t) \/ Created(t) \/ RemoteRegistered(t) \/ Completed(t)
                          \/ Refused(t) \/ CallLost(t))
      <3>1. SameForm(tab'[t], tab[t])
        BY <1>2, <2>6, SubmitFields, ListFields, ResumeFailsFields, CreateFields, PutFields,
          CompleteFields, AnotherFields DEF PageInv, OfTab
      <3> QED  BY <2>6, <3>1 DEF SameForm, SameNews
    <2> QED  BY <2>1, <2>2, <2>3, <2>4, <2>5, <2>6
  <1>3. ASSUME NEW v \in PageUploads, UploadEnds(v) PROVE ids \in tab[o].polls
    BY <1>3 DEF UploadEnds
  <1>4. \A t \in Tabs : AreIds(tab'[t].ids)
    BY TypedNext DEF PageTyped
  <1> QED  BY <1>1, <1>2, <1>3, <1>4, FewIds, StepOfTab
-----------------------------------------------------------------------------
(* The invariant of every page. *)

(* It holds at first. *)
LEMMA PageInvInit ==
  ASSUME PageInit
  PROVE  PageInv
  <1>1. /\ \A t \in Tabs : tab[t] = Closed
        /\ tab = [t \in Tabs |-> Closed] /\ saved = 0 /\ kept = <<>> /\ crowded = FALSE
        /\ \A u \in PageUploads : /\ upload[u] \in RowRecord /\ upload[u].state = "none"
                                  /\ upload[u].stored = {} /\ upload[u].object = {}
        /\ upload \in [PageUploads -> RowRecord]
    BY DEF PageInit, RowRecord
  <1>2. /\ Closed \in TabRecord /\ AreIds(<<>>) /\ Closed.ids = <<>>
        /\ Closed.pc = "closed" /\ Closed.session = 0 /\ Closed.existing = {} /\ Closed.etags = {}
        /\ Closed.polls = {}
    BY ClosedTyped
  <1>3. ToSet(<<>>) = {}
    BY IdsAsSet, <1>2 DEF AreIds
  <1>4. PageTyped
    <2>1. tab \in [Tabs -> TabRecord]
      BY <1>1, <1>2
    <2>3. saved \in 0..MaxUploads
      BY <1>1, SizesAreNat
    <2>4. crowded \in BOOLEAN
      BY <1>1
    <2>2. \A t \in Tabs : AreIds(tab[t].ids)
      BY <1>1, <1>2
    <2> QED  BY <1>1, <1>2, <2>1, <2>2, <2>3, <2>4 DEF PageTyped
  <1>5. NamedExist /\ RowsInOrder /\ SentIsStored
    BY <1>1, <1>2, <1>3 DEF NamedExist, Exists, RowsInOrder, SentIsStored
  <1>6. OnlyItsTab /\ PollsAreSmall
    BY <1>1, <1>2 DEF OnlyItsTab, Unanswered, PollsAreSmall
  <1>7. WholeFile
    BY <1>1 DEF WholeFile
  <1> QED  BY <1>4, <1>5, <1>6, <1>7 DEF PageInv

(* It is inductive. *)
LEMMA PageInvNext ==
  ASSUME PageInv, [PageNext]_pageVars
  PROVE  PageInv'
  <1>1. CASE PageNext
    BY <1>1, TypedNext, NamedNext, OrderNext, SentNext, OnlyItsTabNext, PollsNext, WholeNext
      DEF PageInv
  <1>2. CASE UNCHANGED pageVars
    <2>1. PageTyped' /\ NamedExist' /\ RowsInOrder'
      BY <1>2 DEF pageVars, PageInv, PageTyped, NamedExist, Exists, RowsInOrder
    <2>2. SentIsStored' /\ OnlyItsTab'
      BY <1>2 DEF pageVars, PageInv, SentIsStored, OnlyItsTab, Unanswered
    <2>3. PollsAreSmall' /\ WholeFile'
      BY <1>2 DEF pageVars, PageInv, PollsAreSmall, WholeFile
    <2> QED  BY <2>1, <2>2, <2>3 DEF PageInv
  <1> QED  BY <1>1, <1>2
-----------------------------------------------------------------------------
(* Polling. *)

(* The server looks at every id a page can send. *)
LEMMA LooksAtAll ==
  ASSUME AnonMax <= MaxTracked, NEW ids \in SUBSET PageUploads, IsFiniteSet(ids),
         Cardinality(ids) <= AnonMax, NEW u \in ids, upload[u].state # "ended"
  PROVE  Pending(ids)
  <1> DEFINE newer == {v \in ids : v > u}
             others == ids \ {u}
  <1>1. IsFiniteSet(others) /\ Cardinality(others) = Cardinality(ids) - 1
        /\ Cardinality(ids) \in Nat
    BY FS_RemoveElement, FS_CardinalityType
  <1>2. newer \in SUBSET others
    BY SizesAreNat DEF PageUploads
  <1>3. Cardinality(newer) <= Cardinality(others)
    <2> HIDE DEF newer, others
    <2> QED  BY <1>1, <1>2, FS_Subset
  <1>4. Cardinality(newer) \in Nat
    <2> HIDE DEF newer, others
    <2> QED  BY <1>1, <1>2, FS_Subset, FS_CardinalityType
  <1>5. Cardinality(newer) < MaxTracked
    <2> HIDE DEF newer, others
    <2> QED  BY <1>1, <1>3, <1>4, SizesAreNat
  <1> QED  BY <1>5 DEF Pending

(* A page that waits for news goes on doing so, whichever poll is answered. *)
LEMMA NewsNext ==
  ASSUME AnonMax <= MaxTracked, PageInv, NewsIsDue, PageNext
  PROVE  NewsIsDue'
  <1> DEFINE Due(o, u) == tab[o].timer \/ \E ids \in tab[o].polls : u \in ids
  <1> SUFFICES ASSUME NEW o \in Tabs, NEW u \in ToSet(tab'[o].ids), upload'[u].state # "ended"
               PROVE  Due(o, u)'
    BY DEF NewsIsDue
  <1>1. u \in PageUploads /\ upload[u].state # "ended"
    <2>1. u \in PageUploads
      BY TypedNext, IdsAsSet DEF PageTyped, AreIds
    <2> QED  BY <2>1, RowMoves DEF RowStep, PageInv
  <1>2. ASSUME u \in ToSet(tab[o].ids) PROVE Due(o, u)
    BY <1>1, <1>2 DEF NewsIsDue
  <1>3. ASSUME tab'[o].ids # <<>> => ToSet(tab'[o].ids) \in tab'[o].polls PROVE Due(o, u)'
    <2>1. tab'[o].ids # <<>>
      BY TypedNext, IdsAsSet DEF PageTyped, AreIds
    <2> QED  BY <1>3, <2>1
  <1>4. ASSUME SameNews(tab'[o], tab[o]) PROVE Due(o, u)'
    BY <1>2, <1>4 DEF SameNews
  <1>5. ASSUME NEW t \in Tabs, OfTab(t) PROVE Due(o, u)'
    <2>1. CASE o # t
      BY <1>4, <1>5, <2>1, TabMoves DEF SameNews
    <2>2. CASE o = t /\ OpenPage(t)
      BY <1>3, <2>2, OpenFields DEF PageInv, AsksFor
    <2>3. CASE o = t /\ ClosePage(t)
      BY <1>3, <2>3, CloseFields, ClosedTyped DEF PageInv
    <2>4. CASE o = t /\ (PollAnswered(t) \/ PollFails(t) \/ TimerFires(t))
      <3>1. tab'[t].ids = tab[t].ids
        BY <2>4, NewsFields DEF PageInv
      <3>2. CASE AsksFor(tab'[t], tab[t], tab[t].ids)
        BY <1>3, <2>4, <3>1, <3>2 DEF AsksFor
      <3>3. CASE tab'[t].timer
        BY <2>4, <3>3
      <3>4. ASSUME NEW ids \in tab[t].polls, tab'[t].polls = tab[t].polls \ {ids},
                   tab'[t].timer = tab[t].timer, ~Pending(ids)
            PROVE  Due(o, u)'
        <4>1. /\ ids \in SUBSET PageUploads /\ IsFiniteSet(ids) /\ Cardinality(ids) <= AnonMax
          BY TabTyped DEF PageInv, PollsAreSmall, TabRecord
        <4>2. u \notin ids
          BY <1>1, <3>4, <4>1, LooksAtAll
        <4> QED  BY <1>2, <2>4, <3>1, <3>4, <4>2
      <3> QED  BY <2>4, <3>2, <3>3, <3>4, NewsFields DEF PageInv
    <2>5. CASE o = t /\ (Created(t) \/ RemoteRegistered(t))
      BY <1>3, <1>4, <2>5, AnsweredFields DEF PageInv, AsksFor
    <2>6. CASE o = t /\ (Completed(t) \/ Refused(t) \/ CallLost(t))
      BY <1>3, <1>4, <2>6, OverFields DEF PageInv, AsksFor
    <2>7. CASE o = t /\ ~(OpenPage(t) \/ ClosePage(t) \/ PollAnswered(t) \/ PollFails(t)
                          \/ TimerFires(t) \/ Created(t) \/ RemoteRegistered(t) \/ Completed(t)
                          \/ Refused(t) \/ CallLost(t))
      <3>1. SameForm(tab'[t], tab[t])
        BY <1>5, <2>7, SubmitFields, ListFields, ResumeFailsFields, CreateFields, PutFields,
          CompleteFields, AnotherFields DEF PageInv, OfTab
      <3> QED  BY <1>4, <2>7, <3>1 DEF SameForm
    <2> QED  BY <2>1, <2>2, <2>3, <2>4, <2>5, <2>6, <2>7
  <1>6. ASSUME NEW v \in PageUploads, UploadEnds(v) PROVE Due(o, u)'
    BY <1>4, <1>6 DEF UploadEnds, SameNews
  <1> QED  BY <1>5, <1>6, StepOfTab
-----------------------------------------------------------------------------
(* One tab at a time. *)

Knows == {"resume", "list", "part", "done"}

(* What answers and new rows leave out: what is told was told before. *)
LEMMA Quiet ==
  ASSUME PageInv, OneByOneInv, ~crowded, PageNext, OneTab', kept' = kept,
         \A t \in Tabs : /\ tab'[t].pc # "closed" => tab'[t].ids = kept
                         /\ Unanswered(t)' => Unanswered(t) /\ tab'[t].session = tab[t].session
                         /\ tab'[t].pc \in Knows => Told(tab'[t].session),
         saved' # 0 => Told(saved'),
         \A v \in PageUploads : upload'[v].state # "none" => upload[v].state # "none"
  PROVE  OneTab' /\ SameList' /\ KeptInOrder' /\ NewestUnanswered' /\ ToldIsListed'
  <1>1. SameList'
    BY DEF SameList, Is
  <1>2. KeptInOrder'
    <2>1. ASSUME NEW n \in 1..Len(kept) PROVE upload'[kept[n]].anonymous
      <3>1. kept[n] \in PageUploads /\ kept[n] \in ToSet(kept)
        BY ElementOfSeq DEF PageInv, PageTyped, AreIds, ToSet
      <3>2. upload[kept[n]].state # "none" /\ upload[kept[n]].anonymous
        BY <3>1, SizesAreNat
          DEF PageInv, NamedExist, Exists, OneByOneInv, KeptInOrder, PageUploads
      <3> QED  BY <3>1, <3>2, RowMoves DEF PageInv, RowStep
    <2> QED  BY <2>1 DEF OneByOneInv, KeptInOrder
  <1>3. NewestUnanswered'
    BY DEF OneByOneInv, NewestUnanswered
  <1>4. ToldIsListed'
    <2> SUFFICES ASSUME NEW u \in PageUploads, upload'[u].anonymous, Told(u)'
                 PROVE  Listed(u)'
      BY DEF ToldIsListed
    <2>1. Told(u)
      <3>1. CASE upload'[u].stored # {}
        BY <3>1, RowMoves DEF PageInv, RowStep, Told
      <3>2. CASE saved' = u
        BY <3>2, SizesAreNat DEF PageUploads
      <3>3. CASE \E t \in Tabs : tab'[t].session = u /\ tab'[t].pc \in Knows
        BY <3>3
      <3> QED  BY <3>1, <3>2, <3>3 DEF Told, Knows
    <2>2. upload[u].state # "none"
      <3>1. CASE upload[u].stored # {}
        BY <3>1 DEF PageInv, RowsInOrder
      <3>2. CASE ~(upload[u].stored # {})
        BY <2>1, <3>2, SizesAreNat DEF Told, PageInv, NamedExist, Exists, PageUploads
      <3> QED  BY <3>1, <3>2
    <2>3. upload[u].anonymous
      BY <2>2, RowMoves DEF PageInv, RowStep
    <2>4. Listed(u)
      BY <2>1, <2>3 DEF OneByOneInv, ToldIsListed
    <2> QED  BY <2>4 DEF Listed
  <1> QED  BY <1>1, <1>2, <1>3, <1>4

(* Only a creation or a registration makes a row. *)
LEMMA NoNewRow ==
  ASSUME PageInv, NEW t \in Tabs, OfTab(t), ~CreateSession(t), ~RegisterRemote(t),
         NEW v \in PageUploads, upload'[v].state # "none"
  PROVE  upload[v].state # "none"
  <1>1. CASE PutPart(t) \/ PutFails(t)
    <2> DEFINE u == tab[t].session
    <2>1. u \in PageUploads /\ upload[u].state = "open"
          /\ \E more \in SUBSET AllParts :
               upload' = [upload EXCEPT ![u].stored = upload[u].stored \cup more]
      BY <1>1, PutFields DEF PageInv, Unfinished
    <2> HIDE DEF u
    <2> QED  BY <2>1 DEF PageInv, PageTyped, RowRecord
  <1>2. CASE CompleteUpload(t)
    <2> DEFINE u == tab[t].session
    <2>1. u \in PageUploads /\ upload[u].state = "open"
          /\ \E list \in SUBSET AllParts :
               upload' = [upload EXCEPT ![u].state = "queued", ![u].object = list]
      BY <1>2, CompleteFields DEF PageInv, Unfinished
    <2> HIDE DEF u
    <2> QED  BY <2>1 DEF PageInv, PageTyped, RowRecord
  <1> QED  BY <1>1, <1>2, Aside DEF Writes

(* A page that opens when another is open makes it several. *)
LEMMA OneTabNext ==
  ASSUME PageInv, OneTab, PageNext, ~crowded'
  PROVE  OneTab'
  <1>1. ASSUME NEW t \in Tabs, OfTab(t), tab'[t].pc # "closed"
        PROVE  tab[t].pc # "closed" \/ \A o \in Tabs \ {t} : tab[o].pc = "closed"
    <2>1. CASE OpenPage(t)
      BY <1>1, <2>1 DEF OpenPage, Is
    <2>2. CASE PollAnswered(t) \/ PollFails(t) \/ TimerFires(t)
      BY <1>1, <2>2, NewsFields DEF PageInv, SameWork
    <2>3. CASE ~(OpenPage(t) \/ PollAnswered(t) \/ PollFails(t) \/ TimerFires(t))
      <3>1. ASSUME ClosePage(t) PROVE tab[t].pc # "closed"
        BY <3>1 DEF ClosePage, Is
      <3>2. ASSUME Created(t) \/ RemoteRegistered(t) PROVE tab[t].pc # "closed"
        BY <3>2, AnsweredFields DEF PageInv, Unanswered
      <3> QED  BY <1>1, <2>3, <3>1, <3>2, SubmitFields, ListFields, ResumeFailsFields, CreateFields,
            PutFields, CompleteFields, OverFields, AnotherFields DEF PageInv, OfTab
    <2> QED  BY <2>1, <2>2, <2>3
  <1>2. ASSUME NEW t \in Tabs, OfTab(t) PROVE OneTab'
    <2>1. \A o \in Tabs \ {t} : tab'[o] = tab[o]
      BY <1>2, TabMoves
    <2> QED  BY <1>1, <1>2, <2>1 DEF OneTab, Is
  <1>3. ASSUME NEW v \in PageUploads, UploadEnds(v) PROVE OneTab'
    BY <1>3 DEF UploadEnds, OneTab, Is
  <1> QED  BY <1>2, <1>3, StepOfTab

(* What any step but a new row or its answer makes of its tab. *)
LEMMA QuietTab ==
  ASSUME PageInv, SameList, NEW t \in Tabs, OfTab(t),
         ~CreateSession(t), ~RegisterRemote(t), ~Created(t), ~RemoteRegistered(t)
  PROVE  /\ tab'[t].pc # "closed" => tab'[t].ids = kept
         /\ Unanswered(t)' => Unanswered(t) /\ tab'[t].session = tab[t].session
         /\ tab'[t].pc \in Knows => Told(tab'[t].session)
  <1>1. CASE OpenPage(t) \/ ClosePage(t)
    BY <1>1, OpenFields, CloseFields, ClosedTyped
      DEF PageInv, Frees, AsksFor, Unanswered, Knows
  <1>2. CASE PollAnswered(t) \/ PollFails(t) \/ TimerFires(t)
    BY <1>2, NewsFields DEF PageInv, SameWork, SameList, Is, Unanswered, Knows, Told
  <1>3. CASE SubmitForm(t) \/ ResumeFails(t) \/ UploadAnother(t)
    BY <1>3, SubmitFields, ResumeFailsFields, AnotherFields
      DEF PageInv, SameForm, SameNews, SameList, Is, Unanswered, Knows, Told
  <1>4. CASE Resume(t) \/ ListParts(t)
    BY <1>4, ListFields DEF PageInv, SameForm, SameNews, SameList, Is, Unanswered, Knows, Told
  <1>5. CASE PutPart(t) \/ PutFails(t) \/ CompleteUpload(t)
    BY <1>5, PutFields, CompleteFields, ZenonT(60)
      DEF PageInv, SameForm, SameNews, SameList, Is, Unanswered, Knows, Told, Frees
  <1>6. CASE Completed(t) \/ Refused(t) \/ CallLost(t)
    BY <1>6, OverFields DEF PageInv, SameNews, AsksFor, SameList, Is, Unanswered, Knows, Frees
  <1> QED  BY <1>1, <1>2, <1>3, <1>4, <1>5, <1>6 DEF OfTab

(* A new row is the newest, and nobody has been told of it. *)
LEMMA OneByOneCreated ==
  ASSUME PageInv, OneByOneInv, ~crowded, OneTab', PageNext,
         NEW t \in Tabs, CreateSession(t) \/ RegisterRemote(t)
  PROVE  SameList' /\ KeptInOrder' /\ NewestUnanswered' /\ ToldIsListed'
  <1> DEFINE w == tab'[t].session
  <1>1. /\ w \in New /\ SameForm(tab'[t], tab[t]) /\ tab'[t].pc \in {"created", "sent"}
        /\ tab[t].pc # "closed" /\ \A o \in Tabs \ {t} : tab'[o] = tab[o]
        /\ \E x \in {"open", "queued"} :
             upload' = [upload EXCEPT ![w].state = x, ![w].anonymous = tab[t].anonymous]
    BY CreateFields, TabMoves DEF PageInv, OfTab
  <1>2. saved' = saved /\ kept' = kept
    BY DEF CreateSession, RegisterRemote
  <1>3. w \in PageUploads /\ upload[w].state = "none" /\ upload[w].stored = {}
        /\ w # 0 /\ \A v \in PageUploads : w < v => upload[v].state = "none"
    BY <1>1, SizesAreNat DEF New, PageInv, RowsInOrder, PageUploads
  <1>4. saved # w /\ w \notin ToSet(kept) /\ \A p \in Tabs : tab[p].session # w
    BY <1>3 DEF PageInv, NamedExist, Exists
  <1> HIDE DEF w
  <1>5. \A v \in PageUploads : /\ upload'[v].stored = upload[v].stored
                               /\ v # w => upload'[v] = upload[v]
    BY <1>1, <1>3 DEF PageInv, PageTyped, RowRecord
  <1>6. SameList'
    BY <1>1, <1>2 DEF OneByOneInv, SameList, Is, SameForm, SameNews
  <1>7. KeptInOrder'
    <2>1. \A n \in 1..Len(kept) : kept[n] \in PageUploads /\ kept[n] # w
      BY <1>4, ElementOfSeq DEF PageInv, PageTyped, AreIds, ToSet
    <2> QED  BY <1>2, <1>5, <2>1 DEF OneByOneInv, KeptInOrder
  <1>8. NewestUnanswered'
    <2>1. ASSUME NEW o \in Tabs, Unanswered(o)' PROVE o = t
      BY <1>1, <2>1 DEF OneTab, Is, Unanswered
    <2>2. ASSUME NEW v \in PageUploads, upload'[v].state # "none" PROVE v <= w
      BY <1>3, <1>5, <2>2, SizesAreNat DEF PageUploads
    <2> QED  BY <2>1, <2>2 DEF NewestUnanswered, w
  <1>9. ToldIsListed'
    <2> SUFFICES ASSUME NEW u \in PageUploads, upload'[u].anonymous, Told(u)'
                 PROVE  Listed(u)'
      BY DEF ToldIsListed
    <2>1. Told(u)
      <3>1. CASE upload'[u].stored # {} \/ saved' = u
        BY <1>2, <1>5, <3>1 DEF Told
      <3>2. ASSUME NEW o \in Tabs, tab'[o].session = u, tab'[o].pc \in Knows PROVE Told(u)
        <4>1. o # t
          BY <1>1, <3>2 DEF Knows
        <4> QED  BY <1>1, <3>2, <4>1 DEF Told, Knows
      <3> QED  BY <3>1, <3>2 DEF Told, Knows
    <2>2. u # w
      BY <1>3, <1>4, <2>1 DEF Told
    <2>3. Listed(u)
      BY <1>5, <2>1, <2>2 DEF OneByOneInv, ToldIsListed
    <2> QED  BY <1>2, <2>3 DEF Listed
  <1> QED  BY <1>6, <1>7, <1>8, <1>9

(* What is on the list stays there or falls off the end, with newer ones ahead. *)
LEMMA ListedOn ==
  ASSUME NEW ids, AreIds(ids), NEW w \in PageUploads, w \notin ToSet(ids),
         \A m, n \in 1..Len(ids) : m < n => ids[m] > ids[n],
         \A n \in 1..Len(ids) : w > ids[n]
  PROVE  LET new == NewIds(ids, w) IN
         /\ \A m, n \in 1..Len(new) : m < n => new[m] > new[n]
         /\ w \in ToSet(new)
         /\ \A u \in PageUploads :
              u \in ToSet(ids) \/ (Len(ids) = AnonMax /\ \A n \in 1..Len(ids) : ids[n] > u) =>
                u \in ToSet(new) \/ (Len(new) = AnonMax /\ \A n \in 1..Len(new) : new[n] > u)
  <1> DEFINE new == NewIds(ids, w)
  <1>1. /\ new \in Seq(PageUploads) /\ new[1] = w
        /\ Len(new) = IF Len(ids) < AnonMax THEN Len(ids) + 1 ELSE AnonMax
        /\ \A n \in 2..Len(new) : new[n] = ids[n - 1]
    BY NewInFront DEF AreIds
  <1>2. /\ Len(ids) \in Nat /\ Len(new) \in Nat /\ Len(ids) <= AnonMax /\ AnonMax \in Nat \ {0}
        /\ \A n \in 1..Len(ids) : ids[n] \in Nat
        /\ w \in Nat
    <2>1. \A n \in 1..Len(ids) : ids[n] \in PageUploads
      BY ElementOfSeq DEF AreIds
    <2> QED  BY <1>1, <2>1, SizesAreNat DEF AreIds, PageUploads
  <1> HIDE DEF new
  <1>3. \A n \in 2..Len(new) : n - 1 \in 1..Len(ids) /\ new[n] = ids[n - 1]
    BY <1>1, <1>2
  <1>4. ASSUME NEW m \in 1..Len(new), NEW n \in 1..Len(new), m < n PROVE new[m] > new[n]
    <2>1. n \in 2..Len(new)
      BY <1>2, <1>4
    <2>2. CASE m = 1
      BY <1>1, <1>3, <2>1, <2>2
    <2>3. CASE m # 1
      <3>1. m \in 2..Len(new) /\ m - 1 < n - 1
        BY <1>2, <1>4, <2>3
      <3> QED  BY <1>3, <2>1, <3>1
    <2> QED  BY <2>2, <2>3
  <1>5. 1 \in 1..Len(new)
    BY <1>1, <1>2
  <1>6. w \in ToSet(new)
    BY <1>1, <1>5 DEF ToSet
  <1>7. ASSUME NEW u \in PageUploads, NEW k \in 1..Len(ids), ids[k] = u
        PROVE  u \in ToSet(new) \/ (Len(new) = AnonMax /\ \A n \in 1..Len(new) : new[n] > u)
    <2>1. CASE k + 1 <= Len(new)
      <3>1. k + 1 \in 2..Len(new) /\ (k + 1) - 1 = k
        BY <1>2, <2>1
      <3>2. new[k + 1] = u /\ k + 1 \in 1..Len(new)
        BY <1>2, <1>3, <1>7, <3>1
      <3> QED  BY <3>2 DEF ToSet
    <2>2. CASE ~(k + 1 <= Len(new))
      <3>1. Len(new) = AnonMax /\ k = Len(ids) /\ Len(ids) = AnonMax
        BY <1>1, <1>2, <2>2
      <3>2. ASSUME NEW n \in 1..Len(new) PROVE new[n] > u
        <4>1. CASE n = 1
          BY <1>1, <1>7, <4>1
        <4>2. CASE n # 1
          <5>1. n \in 2..Len(new) /\ n - 1 < k
            BY <1>2, <3>1, <4>2
          <5> QED  BY <1>3, <1>7, <5>1
        <4> QED  BY <4>1, <4>2
      <3> QED  BY <3>1, <3>2
    <2> QED  BY <2>1, <2>2
  <1>8. ASSUME NEW u \in PageUploads, Len(ids) = AnonMax, \A n \in 1..Len(ids) : ids[n] > u
        PROVE  Len(new) = AnonMax /\ \A n \in 1..Len(new) : new[n] > u
    <2>1. Len(new) = AnonMax /\ 1 \in 1..Len(ids) /\ u \in Nat
      BY <1>1, <1>2, <1>8, SizesAreNat DEF PageUploads
    <2>2. w > u
      BY <1>2, <1>8, <2>1
    <2>3. ASSUME NEW n \in 1..Len(new) PROVE new[n] > u
      <3>1. CASE n = 1
        BY <1>1, <2>2, <3>1
      <3>2. CASE n # 1
        <4>1. n \in 2..Len(new)
          BY <1>2, <3>2
        <4> QED  BY <1>3, <1>8, <4>1
      <3> QED  BY <3>1, <3>2
    <2> QED  BY <2>1, <2>3
  <1>9. \A u \in ToSet(ids) : \E k \in 1..Len(ids) : ids[k] = u
    BY DEF ToSet
  <1> QED  BY <1>4, <1>6, <1>7, <1>8, <1>9 DEF new

(* An answer puts the newest row on the list, and moves no other off it that
   AnonMax newer ones do not displace. *)
LEMMA OneByOneAnswered ==
  ASSUME PageInv, OneByOneInv, ~crowded, OneTab', PageNext,
         NEW t \in Tabs, Created(t) \/ RemoteRegistered(t)
  PROVE  SameList' /\ KeptInOrder' /\ NewestUnanswered' /\ ToldIsListed'
  <1> DEFINE w == tab[t].session
  <1>1. /\ w \in PageUploads /\ Unanswered(t) /\ w \notin ToSet(tab[t].ids)
        /\ tab'[t].ids = IF tab[t].anonymous THEN NewIds(tab[t].ids, w) ELSE tab[t].ids
        /\ kept' = IF tab[t].anonymous THEN tab'[t].ids ELSE kept
        /\ tab'[t].pc \notin {"created", "sent"} /\ \A o \in Tabs \ {t} : tab'[o] = tab[o]
        /\ saved' \in {saved, w} /\ (tab'[t].pc \in Knows => tab'[t].session = w)
    BY AnsweredFields, TabMoves DEF PageInv, OfTab, Frees, Knows
  <1>2. upload' = upload
    BY DEF Created, RemoteRegistered
  <1>3. /\ tab[t].ids = kept /\ upload[w].anonymous = tab[t].anonymous /\ w \notin ToSet(kept)
        /\ \A v \in PageUploads : upload[v].state # "none" => v <= w
    BY <1>1 DEF OneByOneInv, SameList, NewestUnanswered, PageInv, OnlyItsTab, Unanswered, Is
  <1> HIDE DEF w
  <1>4. \A o \in Tabs \ {t} : tab'[o].pc = "closed"
    BY <1>1 DEF OneByOneInv, OneTab, Is, Unanswered
  <1>5. \A n \in 1..Len(kept) :
          kept[n] \in PageUploads /\ w > kept[n] /\ upload[kept[n]].anonymous
    <2>1. ASSUME NEW n \in 1..Len(kept) PROVE kept[n] \in PageUploads /\ w > kept[n]
      <3>1. kept[n] \in PageUploads /\ kept[n] \in ToSet(kept)
        BY ElementOfSeq DEF PageInv, PageTyped, AreIds, ToSet
      <3>2. upload[kept[n]].state # "none"
        BY <3>1, SizesAreNat DEF PageInv, NamedExist, Exists, PageUploads
      <3>3. kept[n] <= w /\ kept[n] # w
        BY <1>3, <3>1, <3>2
      <3> QED  BY <1>1, <3>1, <3>3, SizesAreNat DEF PageUploads
    <2> QED  BY <2>1 DEF OneByOneInv, KeptInOrder
  <1>6. SameList'
    BY <1>1, <1>3, <1>4 DEF SameList, Is
  <1>7. NewestUnanswered'
    BY <1>1, <1>4 DEF NewestUnanswered, Unanswered
  <1>8. ASSUME NEW u \in PageUploads, upload'[u].anonymous, Told(u)' PROVE u = w \/ Listed(u)
    <2>1. u = w \/ Told(u)
      BY <1>1, <1>2, <1>4, <1>8 DEF Told, Knows
    <2> QED  BY <1>2, <1>8, <2>1 DEF OneByOneInv, ToldIsListed
  <1>9. CASE tab[t].anonymous
    <2>1. kept' = NewIds(kept, w) /\ AreIds(kept) /\ w \notin ToSet(kept)
      BY <1>1, <1>3, <1>9 DEF PageInv, PageTyped
    <2>2. /\ \A m, n \in 1..Len(kept') : m < n => kept'[m] > kept'[n]
          /\ w \in ToSet(kept')
          /\ \A u \in PageUploads : Listed(u) => Listed(u)'
      <3>1. \A m, n \in 1..Len(kept) : m < n => kept[m] > kept[n]
        BY DEF OneByOneInv, KeptInOrder
      <3> QED  BY <1>1, <1>5, <2>1, <3>1, ListedOn DEF Listed
    <2>3. \A n \in 1..Len(kept') : upload'[kept'[n]].anonymous
      <3>1. ToSet(kept') \subseteq {w} \cup ToSet(kept)
        BY <1>1, <2>1, IdsOfNew
      <3>2. \A u \in ToSet(kept) : upload[u].anonymous
        BY <1>5 DEF ToSet
      <3>3. \A u \in ToSet(kept') : upload'[u].anonymous
        BY <1>2, <1>3, <1>9, <3>1, <3>2
      <3> QED  BY <3>3 DEF ToSet
    <2>4. KeptInOrder'
      BY <2>2, <2>3 DEF KeptInOrder
    <2>5. ToldIsListed'
      BY <1>8, <2>2 DEF ToldIsListed, Listed
    <2> QED  BY <1>6, <1>7, <2>4, <2>5
  <1>10. CASE ~tab[t].anonymous
    <2>1. kept' = kept /\ ~upload'[w].anonymous
      BY <1>1, <1>2, <1>3, <1>10
    <2>2. KeptInOrder'
      BY <1>2, <2>1 DEF OneByOneInv, KeptInOrder
    <2>3. ToldIsListed'
      BY <1>8, <2>1 DEF ToldIsListed, Listed
    <2> QED  BY <1>6, <1>7, <2>2, <2>3
  <1> QED  BY <1>9, <1>10

(* One tab at a time, the list stays sound until two are open. *)
LEMMA OneByOneNext ==
  ASSUME PageInv, OneByOneInv, [PageNext]_pageVars
  PROVE  OneByOneInv'
  <1>1. CASE PageNext
    <2> SUFFICES ASSUME ~crowded'
                 PROVE  (OneTab /\ SameList /\ KeptInOrder /\ NewestUnanswered /\ ToldIsListed)'
      BY DEF OneByOneInv
    <2>1. ~crowded /\ OneTab /\ SameList
      <3>1. crowded' = crowded \/ \E t \in Tabs : OpenPage(t)
        BY <1>1, StepOfTab, Aside DEF UploadEnds
      <3>2. ~crowded
        BY <3>1 DEF OpenPage
      <3> QED  BY <3>2 DEF OneByOneInv
    <2>2. OneTab'
      BY <1>1, <2>1, OneTabNext
    <2>3. ASSUME NEW t \in Tabs, CreateSession(t) \/ RegisterRemote(t)
          PROVE  (SameList /\ KeptInOrder /\ NewestUnanswered /\ ToldIsListed)'
      BY <1>1, <2>1, <2>2, <2>3, OneByOneCreated
    <2>4. ASSUME NEW t \in Tabs, Created(t) \/ RemoteRegistered(t)
          PROVE  (SameList /\ KeptInOrder /\ NewestUnanswered /\ ToldIsListed)'
      BY <1>1, <2>1, <2>2, <2>4, OneByOneAnswered
    <2>5. ASSUME NEW t \in Tabs, OfTab(t), ~CreateSession(t), ~RegisterRemote(t), ~Created(t),
                 ~RemoteRegistered(t)
          PROVE  (SameList /\ KeptInOrder /\ NewestUnanswered /\ ToldIsListed)'
      <3>1. kept' = kept /\ saved' \in {saved, 0}
        BY <2>5, Aside
      <3>2. \A v \in PageUploads : upload'[v].state # "none" => upload[v].state # "none"
        BY <2>5, NoNewRow
      <3>3. ASSUME NEW o \in Tabs
            PROVE  /\ tab'[o].pc # "closed" => tab'[o].ids = kept
                   /\ Unanswered(o)' => Unanswered(o) /\ tab'[o].session = tab[o].session
                   /\ tab'[o].pc \in Knows => Told(tab'[o].session)
        <4>1. CASE o = t
          BY <2>1, <2>5, <4>1, QuietTab
        <4>2. CASE o # t
          <5>1. tab'[o] = tab[o]
            BY <2>5, <4>2, TabMoves
          <5> QED  BY <2>1, <5>1 DEF SameList, Is, Unanswered, Told, Knows
        <4> QED  BY <4>1, <4>2
      <3>4. saved' # 0 => Told(saved')
        BY <3>1 DEF Told
      <3> QED  BY <1>1, <2>1, <2>2, <3>1, <3>2, <3>3, <3>4, Quiet
    <2>6. ASSUME NEW u \in PageUploads, UploadEnds(u)
          PROVE  (SameList /\ KeptInOrder /\ NewestUnanswered /\ ToldIsListed)'
      <3>1. /\ tab' = tab /\ kept' = kept /\ saved' = saved
            /\ upload[u].state # "none" /\ upload' = [upload EXCEPT ![u].state = "ended"]
        BY <2>6 DEF UploadEnds
      <3>2. \A v \in PageUploads : upload'[v].state # "none" => upload[v].state # "none"
        BY <3>1 DEF PageInv, PageTyped, RowRecord
      <3>3. \A o \in Tabs : /\ tab'[o].pc # "closed" => tab'[o].ids = kept
                            /\ Unanswered(o)' => Unanswered(o) /\ tab'[o].session = tab[o].session
                            /\ tab'[o].pc \in Knows => Told(tab'[o].session)
        BY <2>1, <3>1 DEF SameList, Is, Unanswered, Told, Knows
      <3>4. saved' # 0 => Told(saved')
        BY <3>1 DEF Told
      <3> QED  BY <1>1, <2>1, <2>2, <3>1, <3>2, <3>3, <3>4, Quiet
    <2> QED  BY <1>1, <2>2, <2>3, <2>4, <2>5, <2>6, StepOfTab
  <1>2. CASE UNCHANGED pageVars
    <2>1. (OneTab' <=> OneTab) /\ (SameList' <=> SameList) /\ (KeptInOrder' <=> KeptInOrder)
      BY <1>2 DEF pageVars, OneTab, SameList, KeptInOrder, Is
    <2>2. (NewestUnanswered' <=> NewestUnanswered) /\ (ToldIsListed' <=> ToldIsListed)
      BY <1>2 DEF pageVars, NewestUnanswered, Unanswered, ToldIsListed, Told, Listed
    <2> QED  BY <1>2, <2>1, <2>2 DEF pageVars, OneByOneInv
  <1> QED  BY <1>1, <1>2

(* At first no tab is open and no row is there. *)
LEMMA OneByOneInit ==
  ASSUME PageInit
  PROVE  OneByOneInv /\ NewsIsDue
  <1>1. /\ \A t \in Tabs : tab[t] = Closed
        /\ saved = 0 /\ kept = <<>> /\ Len(kept) = 0
        /\ \A u \in PageUploads : ~upload[u].anonymous
    BY DEF PageInit
  <1>2. Closed.ids = <<>> /\ Closed.pc = "closed" /\ ToSet(<<>>) = {}
    BY ClosedTyped, IdsAsSet DEF AreIds
  <1>3. OneTab /\ SameList /\ KeptInOrder /\ NewestUnanswered /\ ToldIsListed
    BY <1>1, <1>2 DEF OneTab, SameList, KeptInOrder, NewestUnanswered, ToldIsListed, Is, Unanswered
  <1>4. NewsIsDue
    BY <1>1, <1>2 DEF NewsIsDue
  <1> QED  BY <1>3, <1>4 DEF OneByOneInv
-----------------------------------------------------------------------------
(* What the invariants give. *)

(* A full list of newer ids displaces an older one. *)
LEMMA ListedOrDisplaced ==
  ASSUME PageInv, KeptInOrder, NEW u \in PageUploads, Listed(u), ~Displaced(u)
  PROVE  u \in ToSet(kept)
  <1> SUFFICES ASSUME Len(kept) = AnonMax, \A n \in 1..Len(kept) : kept[n] > u
               PROVE  Displaced(u)
    BY DEF Listed
  <1> DEFINE newer == {v \in PageUploads : v > u /\ upload[v].anonymous}
             f == [n \in 1..AnonMax |-> kept[n]]
  <1>1. IsFiniteSet(PageUploads)
    BY FS_Interval, SizesAreNat DEF PageUploads
  <1>2. IsFiniteSet(newer)
    <2>1. newer \in SUBSET PageUploads
      OBVIOUS
    <2> HIDE DEF newer
    <2> QED  BY <1>1, <2>1, FS_Subset
  <1>3. IsFiniteSet(1..AnonMax) /\ Cardinality(1..AnonMax) = AnonMax
    BY FS_Interval, SizesAreNat
  <1>4. \A n \in 1..AnonMax : kept[n] \in newer
    <2>1. ASSUME NEW n \in 1..AnonMax PROVE kept[n] \in PageUploads
      BY ElementOfSeq DEF PageInv, PageTyped, AreIds
    <2>2. \A n \in 1..AnonMax : kept[n] > u /\ upload[kept[n]].anonymous
      BY DEF KeptInOrder
    <2> QED  BY <2>1, <2>2
  <1>5. \A m, n \in 1..AnonMax : kept[m] = kept[n] => m = n
    BY DEF PageInv, PageTyped, AreIds, IsInjective
  <1> HIDE DEF newer
  <1>6. f \in Injection(1..AnonMax, newer)
    <2>1. f \in [1..AnonMax -> newer]
      BY <1>4
    <2>2. \A m, n \in 1..AnonMax : f[m] = f[n] => m = n
      BY <1>5
    <2> HIDE DEF f
    <2> QED  BY <2>1, <2>2 DEF Injection, IsInjective
  <1>7. AnonMax <= Cardinality(newer)
    BY <1>2, <1>3, <1>6, FS_Injection DEF ExistsInjection
  <1>8. Cardinality(newer) \in Nat
    BY <1>2, FS_CardinalityType
  <1> QED  BY <1>7, <1>8, SizesAreNat DEF Displaced, newer

(* The invariant types the page. *)
LEMMA TypeFromInv ==
  ASSUME PageInv
  PROVE  PageTypeOK
  <1>1. ASSUME NEW t \in Tabs
        PROVE  /\ tab[t].pc \in {"closed", "idle", "locked"} \cup Underway
               /\ tab[t].mode \in {"file", "url", "handoff"} /\ tab[t].session \in 0..MaxUploads
               /\ tab[t].existing \subseteq AllParts /\ tab[t].etags \subseteq AllParts
               /\ IsInjective(tab[t].ids) /\ Len(tab[t].ids) <= AnonMax
               /\ tab[t].polls \subseteq SUBSET PageUploads
    BY TabTyped DEF PageInv, TabRecord, AreIds
  <1>2. ToSet(kept) \subseteq PageUploads
    BY IdsAsSet DEF PageInv, PageTyped, AreIds
  <1>3. \A u \in PageUploads : upload[u].state \in {"none", "open", "queued", "ended"}
    BY DEF PageInv, PageTyped, RowRecord
  <1> QED  BY <1>1, <1>2, <1>3 DEF PageTypeOK, PageInv, PageTyped

(* What is told is listed, and what is listed is asked about. *)
LEMMA TrackedFromInv ==
  ASSUME AnonMax <= MaxTracked, PageInv, OneByOneInv, NewsIsDue
  PROVE  TrackedToTheEnd
  <1>1. StillTracked
    <2> SUFFICES ASSUME ~crowded, NEW u \in PageUploads, upload[u].anonymous,
                        upload[u].stored # {}, ~Displaced(u)
                 PROVE  /\ u \in ToSet(kept)
                        /\ \A t \in Tabs : ~Is(t, "closed") => u \in ToSet(tab[t].ids)
      BY DEF StillTracked
    <2>1. KeptInOrder /\ ToldIsListed /\ SameList
      BY DEF OneByOneInv
    <2>2. Listed(u)
      BY <2>1 DEF ToldIsListed, Told
    <2>3. u \in ToSet(kept)
      BY <2>1, <2>2, ListedOrDisplaced
    <2> QED  BY <2>1, <2>3 DEF SameList
  <1>2. PollsWhilePending
    <2> SUFFICES ASSUME NEW t \in Tabs, NEW u \in ToSet(tab[t].ids), upload[u].state # "ended",
                        ~tab[t].timer
                 PROVE  \E ids \in tab[t].polls : u \in ids /\ Pending(ids)
      BY DEF PollsWhilePending
    <2>1. PICK ids \in tab[t].polls : u \in ids
      BY DEF NewsIsDue
    <2>2. ids \in SUBSET PageUploads /\ IsFiniteSet(ids) /\ Cardinality(ids) <= AnonMax
      BY TabTyped DEF PageInv, PollsAreSmall, TabRecord
    <2> QED  BY <2>1, <2>2, LooksAtAll
  <1> QED  BY <1>1, <1>2, TypeFromInv DEF TrackedToTheEnd

(* uploader.js, completemultipart: whatever tabs, visits, retries and lost answers
   there were, an object that was put together has every part of the file. *)
THEOREM UploadWhole == PageSpec => []WholeFile
  <1>1. PageInit => PageInv
    BY PageInvInit
  <1>2. PageInv /\ [PageNext]_pageVars => PageInv'
    BY PageInvNext
  <1>3. PageInv => WholeFile
    BY DEF PageInv
  <1> QED  BY <1>1, <1>2, <1>3, PTL DEF PageSpec

(* uploader.js, rememberAnonymous and refreshAnonymous: provided the server looks
   at as many ids as a browser keeps (MAX_TRACKED and ANON_MAX, both 20), no
   anonymous upload is lost from view before it ended, unless displaced. *)
THEOREM TrackedToEnd ==
  ASSUME AnonMax <= MaxTracked
  PROVE  PageSpec => []TrackedToTheEnd
  <1> DEFINE Inv == PageInv /\ OneByOneInv /\ NewsIsDue
  <1>1. PageInit => Inv
    BY PageInvInit, OneByOneInit
  <1>2. Inv /\ [PageNext]_pageVars => Inv'
    <2> SUFFICES ASSUME Inv, [PageNext]_pageVars PROVE Inv'
      OBVIOUS
    <2>1. PageInv' /\ OneByOneInv'
      BY PageInvNext, OneByOneNext
    <2>2. NewsIsDue'
      <3>1. CASE PageNext
        BY <3>1, NewsNext
      <3>2. CASE UNCHANGED pageVars
        BY <3>2 DEF pageVars, NewsIsDue
      <3> QED  BY <3>1, <3>2
    <2> QED  BY <2>1, <2>2
  <1>3. Inv => TrackedToTheEnd
    BY TrackedFromInv
  <1> QED  BY <1>1, <1>2, <1>3, PTL DEF PageSpec
=============================================================================
