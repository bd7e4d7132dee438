----------------------------- MODULE UploadPage -----------------------------
(***************************************************************************)
(* The upload page, uploader.js: one browser with several tabs, which      *)
(* share its localStorage, and the calls a tab makes of the uploader API   *)
(* and of the object store.                                                *)
(*                                                                         *)
(* UploadLifecycle has the API's handlers; here a row is open, queued or   *)
(* ended.  A call that is answered, refused, never sent, or carried out    *)
(* with its answer lost are different outcomes.  The file is one and the   *)
(* details typed about it stay, so the saved session has one key.          *)
(***************************************************************************)
EXTENDS Naturals, SequencesExt

CONSTANTS
  Tabs,
  Parts,       \* how many parts the file has
  AnonMax,     \* ANON_MAX
  MaxTracked,  \* MAX_TRACKED, of the server
  MaxUploads,  \* bound: rows created
  MaxCrowded,  \* bound: rows created, once two tabs were open at a time
  MaxLosses,   \* bound: calls that fail or whose answer is lost
  MaxOpened    \* bound: pages opened

ASSUME SizesAreNat ==
  Parts \in Nat \ {0} /\ AnonMax \in Nat \ {0} /\ MaxTracked \in Nat /\ MaxUploads \in Nat

VARIABLES
  tab,      \* each tab's page
  saved,    \* localStorage: the upload session of the file, 0 for none
  kept,     \* localStorage: the anonymous ids, newest first
  upload,   \* the server's rows, and the parts in the object store
  losses,
  opened,   \* pages opened so far
  crowded   \* history: two tabs were open at a time

pageVars == <<tab, saved, kept, upload, losses, opened, crowded>>

PageUploads == 1..MaxUploads
AllParts == 1..Parts
Underway == {"resume", "create", "created", "list", "part", "done", "remote", "sent"}
Closed  == [pc |-> "closed", mode |-> "file", anonymous |-> FALSE, session |-> 0,
            existing |-> {}, etags |-> {}, again |-> FALSE, ids |-> <<>>,
            timer |-> FALSE, stray |-> FALSE, polls |-> {}]

PageTypeOK ==
  /\ \A t \in Tabs :
       /\ tab[t].pc \in {"closed", "idle", "locked"} \cup Underway
       /\ tab[t].mode \in {"file", "url", "handoff"} /\ tab[t].session \in 0..MaxUploads
       /\ tab[t].existing \subseteq AllParts /\ tab[t].etags \subseteq AllParts
       /\ IsInjective(tab[t].ids) /\ Len(tab[t].ids) <= AnonMax
       /\ tab[t].polls \subseteq SUBSET PageUploads
  /\ saved \in 0..MaxUploads /\ ToSet(kept) \subseteq PageUploads
  /\ \A u \in PageUploads : upload[u].state \in {"none", "open", "queued", "ended"}

PageInit ==
  /\ tab = [t \in Tabs |-> Closed] /\ saved = 0 /\ kept = <<>>
  /\ upload = [u \in PageUploads |-> [state |-> "none", anonymous |-> FALSE, stored |-> {}, object |-> {}]]
  /\ losses = 0 /\ opened = 0 /\ crowded = FALSE

Is(t, pc) == tab[t].pc = pc
Unfinished(u) == u # 0 /\ upload[u].state = "open"
New == {u \in PageUploads : /\ upload[u].state = "none"
                            /\ \A v \in 1..(u - 1) : upload[v].state # "none"
                            /\ crowded => u <= MaxCrowded}
LosesCall == losses < MaxLosses /\ losses' = losses + 1
Set(t, s) == tab' = [tab EXCEPT ![t] = s]

(* An error ends the submission and frees the form, which keeps the file. *)
Freed(s, pc) == [s EXCEPT !.pc = pc, !.session = 0, !.existing = {}, !.etags = {}, !.again = FALSE]
Stop(t) == Set(t, Freed(tab[t], "idle"))
-----------------------------------------------------------------------------
(* Tracking anonymous uploads. *)

(* refreshAnonymous, up to its fetch: the timer that is known is cleared. *)
Refreshed(s) ==
  [s EXCEPT !.timer = FALSE, !.polls = IF s.ids = <<>> THEN @ ELSE @ \cup {ToSet(s.ids)}]

(* rememberAnonymous, of the ids this tab knows: they are distinct, so that one
   removal does what the filter does. *)
Remembered(s, u) ==
  LET ids == <<u>> \o RemoveFirst(s.ids, u)
  IN Refreshed([s EXCEPT !.ids = SubSeq(ids, 1, IF Len(ids) < AnonMax THEN Len(ids) ELSE AnonMax)])

(* anonymous_uploads_partial: of the ids sent, as many as MAX_TRACKED. *)
Pending(ids) ==
  \E u \in ids : upload[u].state # "ended" /\ Cardinality({v \in ids : v > u}) < MaxTracked

(* The variable holds the last timer set: one set before it is out of reach. *)
Timed(s) == [s EXCEPT !.timer = TRUE, !.stray = @ \/ s.timer]

(* The answer of one of the fetches under way, which may come in any order. *)
PollAnswered(t) ==
  /\ \E ids \in tab[t].polls :
       LET s == [tab[t] EXCEPT !.polls = @ \ {ids}]
       IN Set(t, IF Pending(ids) THEN Timed(s) ELSE s)
  /\ UNCHANGED <<saved, kept, upload, losses, opened, crowded>>

PollFails(t) ==
  /\ LosesCall
  /\ \E ids \in tab[t].polls : Set(t, Timed([tab[t] EXCEPT !.polls = @ \ {ids}]))
  /\ UNCHANGED <<saved, kept, upload, opened, crowded>>

TimerFires(t) ==
  /\ \/ tab[t].timer /\ Set(t, Refreshed(tab[t]))
     \/ tab[t].stray /\ Set(t, Refreshed([tab[t] EXCEPT !.stray = FALSE]))
  /\ UNCHANGED <<saved, kept, upload, losses, opened, crowded>>

(* DOMContentLoaded; a handoff link decides the source. *)
OpenPage(t) ==
  /\ Is(t, "closed") /\ opened < MaxOpened /\ opened' = opened + 1
  /\ \E m \in {"file", "url", "handoff"}, a \in BOOLEAN :
       Set(t, Refreshed([Closed EXCEPT !.pc = "idle", !.mode = m, !.anonymous = a, !.ids = kept]))
  /\ crowded' = (crowded \/ \E o \in Tabs \ {t} : ~Is(o, "closed"))
  /\ crowded' => \A u \in PageUploads : u > MaxCrowded => upload[u].state = "none"
  /\ UNCHANGED <<saved, kept, upload, losses>>

(* Closed or reloaded at any time; a request that left goes on. *)
ClosePage(t) ==
  /\ ~Is(t, "closed") /\ Set(t, Closed)
  /\ UNCHANGED <<saved, kept, upload, losses, opened, crowded>>
-----------------------------------------------------------------------------
(* uploadFile. *)

SubmitForm(t) ==
  /\ Is(t, "idle")
  /\ Set(t, [tab[t] EXCEPT !.pc = IF tab[t].mode # "file" THEN "remote"
                                  ELSE IF saved # 0 THEN "resume" ELSE "create", !.session = saved])
  /\ UNCHANGED <<saved, kept, upload, losses, opened, crowded>>

(* listparts of the saved session. *)
Resume(t) ==
  /\ Is(t, "resume") /\ Unfinished(tab[t].session)
  /\ Set(t, [tab[t] EXCEPT !.pc = "part", !.existing = upload[tab[t].session].stored])
  /\ UNCHANGED <<saved, kept, upload, losses, opened, crowded>>

(* A session that ended, or whose parts could not be listed, is forgotten. *)
ResumeFails(t) ==
  /\ Is(t, "resume")
  /\ \/ ~Unfinished(tab[t].session) /\ UNCHANGED losses
     \/ LosesCall
  /\ saved' = 0 /\ Set(t, [tab[t] EXCEPT !.pc = "create", !.session = 0])
  /\ UNCHANGED <<kept, upload, opened, crowded>>

(* createmultipart at the server. *)
CreateSession(t) ==
  /\ Is(t, "create")
  /\ \E u \in New :
       /\ upload' = [upload EXCEPT ![u].state = "open", ![u].anonymous = tab[t].anonymous]
       /\ Set(t, [tab[t] EXCEPT !.pc = "created", !.session = u])
  /\ UNCHANGED <<saved, kept, losses, opened, crowded>>

(* Mutant: the id is remembered when the upload is complete. *)
CreatedUntracked(t) ==
  /\ Is(t, "created")
  /\ saved' = tab[t].session /\ Set(t, [tab[t] EXCEPT !.pc = "list"]) /\ UNCHANGED kept
  /\ UNCHANGED <<upload, losses, opened, crowded>>

(* Its answer: the id is remembered before any bytes move. *)
Created(t) ==
  LET u == tab[t].session IN
  /\ Is(t, "created") /\ saved' = u
  /\ IF tab[t].anonymous
       THEN LET s == Remembered(tab[t], u) IN Set(t, [s EXCEPT !.pc = "list"]) /\ kept' = s.ids
       ELSE Set(t, [tab[t] EXCEPT !.pc = "list"]) /\ UNCHANGED kept
  /\ UNCHANGED <<upload, losses, opened, crowded>>

ListParts(t) ==
  /\ Is(t, "list") /\ Unfinished(tab[t].session)
  /\ Set(t, [tab[t] EXCEPT !.pc = "part", !.existing = upload[tab[t].session].stored])
  /\ UNCHANGED <<saved, kept, upload, losses, opened, crowded>>

(* Parts go in order, but for those the session holds. *)
Unsent(t)  == AllParts \ (tab[t].existing \cup tab[t].etags)
Part(t)    == CHOOSE p \in Unsent(t) : \A q \in Unsent(t) : p <= q
Sending(t) == Is(t, "part") /\ Unsent(t) # {}

(* uploadPart: signed while the row is open, then put, and answered. *)
PutPart(t) ==
  /\ Sending(t) /\ Unfinished(tab[t].session)
  /\ upload' = [upload EXCEPT ![tab[t].session].stored = @ \cup {Part(t)}]
  /\ Set(t, [tab[t] EXCEPT !.etags = @ \cup {Part(t)}, !.again = FALSE])
  /\ UNCHANGED <<saved, kept, losses, opened, crowded>>

(* The put fails in a way a second attempt could get past, and may have stored
   the part; there is one more attempt. *)
PutFails(t) ==
  /\ Sending(t) /\ Unfinished(tab[t].session) /\ LosesCall
  /\ upload' \in {upload, [upload EXCEPT ![tab[t].session].stored = @ \cup {Part(t)}]}
  /\ IF tab[t].again THEN Stop(t) ELSE Set(t, [tab[t] EXCEPT !.again = TRUE])
  /\ UNCHANGED <<saved, kept, opened, crowded>>

(* Mutant: a part that was there already is not put on the list. *)
ListedSent(t) == tab[t].etags

PartsListed(t) == tab[t].etags \cup tab[t].existing

(* completemultipart at the server: the tab's list, or, when CORS hid an ETag,
   what the object store lists. *)
CompleteUpload(t) ==
  LET u == tab[t].session IN
  /\ Is(t, "part") /\ Unsent(t) = {} /\ Unfinished(u)
  /\ \E list \in {PartsListed(t), upload[u].stored} :
       upload' = [upload EXCEPT ![u].state = "queued", ![u].object = list]
  /\ Set(t, [tab[t] EXCEPT !.pc = "done"])
  /\ UNCHANGED <<saved, kept, losses, opened, crowded>>

(* Its answer: the session is forgotten, the picker emptied, the list refreshed. *)
Completed(t) ==
  /\ Is(t, "done") /\ saved' = 0
  /\ Set(t, Refreshed(Freed(tab[t], "idle")))
  /\ UNCHANGED <<kept, upload, losses, opened, crowded>>

(* Refused because the row is no longer open: the saved session stays. *)
Refused(t) ==
  /\ tab[t].pc \in {"list", "part"} /\ ~Unfinished(tab[t].session)
  /\ Stop(t)
  /\ UNCHANGED <<saved, kept, upload, losses, opened, crowded>>

(* Never sent, or answered too late; only a put is tried again. *)
CallLost(t) ==
  /\ LosesCall /\ tab[t].pc \in Underway \ {"resume"} /\ Stop(t)
  /\ UNCHANGED <<saved, kept, upload, opened, crowded>>
-----------------------------------------------------------------------------
(* submitRemoteSource: one request creates the row and queues it. *)

RegisterRemote(t) ==
  /\ Is(t, "remote")
  /\ \E u \in New :
       /\ upload' = [upload EXCEPT ![u].state = "queued", ![u].anonymous = tab[t].anonymous]
       /\ Set(t, [tab[t] EXCEPT !.pc = "sent", !.session = u])
  /\ UNCHANGED <<saved, kept, losses, opened, crowded>>

(* A source that was handed over is submitted once: the form is locked. *)
RemoteRegistered(t) ==
  LET u == tab[t].session
      s == IF tab[t].anonymous THEN Remembered(tab[t], u) ELSE tab[t] IN
  /\ Is(t, "sent") /\ kept' = IF tab[t].anonymous THEN s.ids ELSE kept
  /\ Set(t, Freed(s, IF s.mode = "handoff" THEN "locked" ELSE "idle"))
  /\ UNCHANGED <<saved, upload, losses, opened, crowded>>

UploadAnother(t) ==
  /\ Is(t, "locked") /\ Set(t, [tab[t] EXCEPT !.pc = "idle", !.mode = "file"])
  /\ UNCHANGED <<saved, kept, upload, losses, opened, crowded>>

(* The pipeline or the reconciler ends a row. *)
UploadEnds(u) ==
  /\ upload[u].state \in {"open", "queued"} /\ upload' = [upload EXCEPT ![u].state = "ended"]
  /\ UNCHANGED <<tab, saved, kept, losses, opened, crowded>>

PageNext ==
  \/ \E t \in Tabs :
       \/ OpenPage(t) \/ ClosePage(t) \/ PollAnswered(t) \/ PollFails(t) \/ TimerFires(t)
       \/ SubmitForm(t) \/ Resume(t) \/ ResumeFails(t) \/ CreateSession(t) \/ Created(t) \/ ListParts(t)
       \/ PutPart(t) \/ PutFails(t) \/ CompleteUpload(t) \/ Completed(t)
       \/ Refused(t) \/ CallLost(t) \/ RegisterRemote(t) \/ RemoteRegistered(t) \/ UploadAnother(t)
  \/ \E u \in PageUploads : UploadEnds(u)

PageSpec == PageInit /\ [][PageNext]_pageVars
-----------------------------------------------------------------------------
(* An object that was put together has every part of the file, whichever tab
   sent it, in however many visits, and whatever was sent twice. *)
WholeFile == \A u \in PageUploads : upload[u].object # {} => upload[u].object = AllParts

(* uploader.js: "only this browser knows it happened".  An anonymous upload of
   which a byte was sent is known to the browser, in storage and to any page
   that is open, whatever answer is lost later and whoever closes the tab,
   until AnonMax newer ones displace it.  Two tabs write over each other's list. *)
Displaced(u) == Cardinality({v \in PageUploads : v > u /\ upload[v].anonymous}) >= AnonMax
StillTracked ==
  ~crowded => \A u \in PageUploads :
    upload[u].anonymous /\ upload[u].stored # {} /\ ~Displaced(u) =>
      u \in ToSet(kept) /\ \A t \in Tabs : ~Is(t, "closed") => u \in ToSet(tab[t].ids)

(* A page asks again for as long as an upload it knows of has not ended: answers
   that overtake each other, failed polls and a timer lost from view never leave
   it with no poll under way and none to come. *)
PollsWhilePending ==
  \A t \in Tabs : \A u \in ToSet(tab[t].ids) :
    upload[u].state # "ended" =>
      tab[t].timer \/ \E ids \in tab[t].polls : u \in ids /\ Pending(ids)

(* No upload is lost from view before it has ended: an anonymous one stays on
   the browser's list, and whatever is on it is asked about again. *)
TrackedToTheEnd == PageTypeOK /\ StillTracked /\ PollsWhilePending
=============================================================================
