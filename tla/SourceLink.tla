---------------------------- MODULE SourceLink ----------------------------
(***************************************************************************)
(* An upload by link: the link is made direct and checked by the API, read *)
(* back by the fetch step, checked at every redirect, and what it answers  *)
(* is archived if it is an orthophoto.                                     *)
(*                                                                         *)
(* A link is its host, what it points at there, and the parts the rules    *)
(* look at.  Two programs tell an assets archive by its path: the API when *)
(* it names the upload, the fetch step when it reads the answer.           *)
(***************************************************************************)
EXTENDS Naturals, FiniteSets

CONSTANTS
  Submitted,    \* links callers submit
  Targets,      \* where redirects lead
  Bodies,       \* bodies servers send
  AllowPrivate, \* FETCH_ALLOW_PRIVATE_HOSTS
  MaxRedirects, \* url_guard.MAX_REDIRECTS
  MaxAttempts,  \* bound: attempts of the fetch step
  MaxResolves   \* bound: changes of what hosts resolve to

Hosts == {"drive", "dropbox", "onedrive", "onedriveapi", "sharepoint", "site"}
NoLink == [host |-> "none"]

(* What a link points at: a file, a folder, a document, nothing that is named; or
   an asset of a WebODM or a NodeODM, told by its path. *)
Links ==
  [host : Hosts,
   form : {"file", "folder", "doc", "noid", "webortho", "webzip", "webother", "nodeortho", "nodezip",
           "nodeother", "oddzip"},
   scheme : {"https", "http", "ftp"}, creds : BOOLEAN, frag : BOOLEAN, direct : BOOLEAN]

(* The paths of those assets are looked at only where the host is not known by
   name: elsewhere they are a file like any other. *)
ASSUME LinksAssumption ==
  /\ Submitted \cup Targets \subseteq Links
  /\ \A u \in Submitted :
       u.form \in {"webortho", "webzip", "nodeortho", "nodezip"} => u.host \in {"site", "onedriveapi"}
  /\ AllowPrivate \in BOOLEAN /\ MaxRedirects \in Nat

VARIABLES
  dns,     \* what each host resolves to
  source,  \* source_url of the upload
  fetch,   \* the fetch step: its URL, redirects and attempts
  asked,   \* the last request, and what its host resolved to when it was checked
  object,  \* what is archived under the upload's key
  resolves

linkVars == <<dns, source, fetch, asked, object, resolves>>

LinkInit ==
  /\ dns = [h \in Hosts |-> "public"]
  /\ source = NoLink
  /\ fetch = [pc |-> "idle", url |-> NoLink, hops |-> 0, attempts |-> 0]
  /\ asked = [url |-> NoLink, to |-> "public"]
  /\ object = "none" /\ resolves = 0
-----------------------------------------------------------------------------
Plain(u) == [u EXCEPT !.frag = FALSE]

DriveFolder(u) == u.host = "drive" /\ u.form \in {"folder", "doc", "noid"}

(* Links with no direct form, each turned away with a message of its own. *)
Indirect(u) ==
  \/ DriveFolder(u)
  \/ u.host \in {"dropbox", "sharepoint"} /\ u.form = "folder"
  \/ u.host = "site" /\ u.form \in {"webother", "nodeother"}

DriveDirect(u)      == [u EXCEPT !.direct = TRUE, !.frag = FALSE, !.creds = FALSE]
DropboxDirect(u)    == [u EXCEPT !.direct = TRUE, !.frag = FALSE]
SharepointDirect(u) == [u EXCEPT !.direct = TRUE, !.frag = FALSE]
OnedriveDirect(u)   ==
  [host |-> "onedriveapi", form |-> "file", scheme |-> "https", creds |-> FALSE, frag |-> FALSE,
   direct |-> TRUE]

(* NodeODM 2 serves nothing but all.zip. *)
OdmAsset(u) == [Plain(u) EXCEPT !.form = "nodezip"]

Normalise(u) ==
  CASE u.host = "drive"      -> DriveDirect(u)
    [] u.host = "dropbox"    -> DropboxDirect(u)
    [] u.host = "onedrive"   -> OnedriveDirect(u)
    [] u.host = "sharepoint" -> SharepointDirect(u)
    [] u.form \in {"webortho", "webzip"}   -> Plain(u)
    [] u.form \in {"nodeortho", "nodezip"} -> OdmAsset(u)
    [] OTHER -> u

(* url_guard.check_url, as the API and the fetch step both run it. *)
Permitted(u, to) ==
  /\ u.scheme \in {"https", "http"} /\ ~u.creds
  /\ AllowPrivate \/ (u.scheme = "https" /\ to = "public")

IsArchive(u)    == u.form \in {"webzip", "nodezip"}            \* source_links
IsArchiveUrl(u) == u.form \in {"webzip", "nodezip", "oddzip"}  \* fetch: any case of the path

-----------------------------------------------------------------------------
(* Whoever holds a name may point it elsewhere at any time. *)
Repoint(h) ==
  /\ resolves < MaxResolves /\ resolves' = resolves + 1
  /\ \E to \in {"public", "private", "mixed", "nowhere"} : dns' = [dns EXCEPT ![h] = to]
  /\ UNCHANGED <<source, fetch, asked, object>>

(* _checked_source_url, then the row. *)
SubmitLink(u) ==
  /\ source = NoLink
  /\ ~Indirect(u) /\ Permitted(Normalise(u), dns[Normalise(u).host])
  /\ source' = Plain(Normalise(u))
  /\ UNCHANGED <<dns, fetch, asked, object, resolves>>

(* A retried fetch whose bytes are archived never reads the link again. *)
BeginFetch ==
  /\ source # NoLink /\ object = "none"
  /\ fetch.pc \in {"idle", "retry"} /\ fetch.attempts < MaxAttempts
  /\ fetch' = [pc |-> "asking", url |-> source, hops |-> 0, attempts |-> fetch.attempts + 1]
  /\ UNCHANGED <<dns, source, asked, object, resolves>>

Fetched(result) == fetch' = [fetch EXCEPT !.pc = result]

(* Mutant: what a server redirects to is taken at its word. *)
PermittedAtFirst(u, to, hops) == hops > 0 \/ Permitted(u, to)

PermittedAtHop(u, to, hops) == Permitted(u, to)

Refused ==
  /\ fetch.pc = "asking"
  /\ \/ fetch.hops > MaxRedirects
     \/ ~PermittedAtHop(fetch.url, dns[fetch.url.host], fetch.hops)
  /\ Fetched("failed")
  /\ UNCHANGED <<dns, source, asked, object, resolves>>

(* The checked URL is sent without its fragment. *)
AskSource ==
  /\ fetch.pc = "asking" /\ fetch.hops <= MaxRedirects
  /\ PermittedAtHop(fetch.url, dns[fetch.url.host], fetch.hops)
  /\ asked' = [url |-> Plain(fetch.url), to |-> dns[fetch.url.host]]
  /\ fetch' = [fetch EXCEPT !.pc = "answered"]
  /\ UNCHANGED <<dns, source, object, resolves>>

Redirected(u) ==
  /\ fetch.pc = "answered"
  /\ fetch' = [fetch EXCEPT !.pc = "asking", !.url = u, !.hops = @ + 1]
  /\ UNCHANGED <<dns, source, asked, object, resolves>>

(* A redirect to nowhere, 4xx: for good. 429, 5xx, no connection: try again. *)
Unanswered ==
  /\ fetch.pc = "answered"
  /\ Fetched("failed") \/ Fetched("retry")
  /\ UNCHANGED <<dns, source, asked, object, resolves>>

Expected(head, zip) == head = IF zip THEN "zip" ELSE "tiff"

(* The body while it is streamed: its signature and its size. *)
Streams(b) == Expected(b.head, IsArchiveUrl(source)) /\ b.size = "fits"

(* extract_odm_orthophoto: the one member, of the same kind and size. *)
Extracts(b) ==
  b.head = "zip" => b.member = "tiff" /\ b.unpacked = "fits"

Contents(b) == IF b.head = "zip" THEN IF IsArchiveUrl(source) THEN b.member ELSE "zip" ELSE b.head

(* _fetch_from_url: nothing is archived before it is checked. *)
Archive(b) ==
  /\ fetch.pc = "answered"
  /\ Streams(b) /\ (IsArchiveUrl(source) => Extracts(b))
  /\ object' = Contents(b) /\ Fetched("done")
  /\ UNCHANGED <<dns, source, asked, resolves>>

Rejected(b) ==
  /\ fetch.pc = "answered"
  /\ ~(Streams(b) /\ (IsArchiveUrl(source) => Extracts(b)))
  /\ Fetched("failed")
  /\ UNCHANGED <<dns, source, asked, object, resolves>>

(* The transfer breaks off, or the bucket fails. *)
BreaksOff ==
  /\ fetch.pc = "answered"
  /\ Fetched("retry")
  /\ UNCHANGED <<dns, source, asked, object, resolves>>

LinkNext ==
  \/ \E h \in Hosts : Repoint(h)
  \/ \E u \in Submitted : SubmitLink(u)
  \/ BeginFetch \/ Refused \/ AskSource \/ Unanswered \/ BreaksOff
  \/ \E u \in Targets : Redirected(u)
  \/ \E b \in Bodies : Archive(b) \/ Rejected(b)

LinkSpec == LinkInit /\ [][LinkNext]_linkVars
-----------------------------------------------------------------------------
(* Every request the fetch step makes, the first and any it is redirected to,
   on any attempt and whatever names have come to point at since the link was
   accepted, goes to a URL the rules allow as they stand, and an attempt follows
   no more redirects than it may. *)
EveryHopChecked ==
  /\ asked.url # NoLink =>
       /\ Permitted(asked.url, asked.to) /\ ~asked.url.frag
  /\ fetch.pc = "answered" => fetch.hops <= MaxRedirects

(* The stored link is direct: normalised again it stays as it is, it never
   names an asset its server has stopped serving, and what the API names an
   orthophoto the fetch step unpacks as an assets archive.  So a link submitted
   again is the same upload's link, and what is archived is a TIFF. *)
LinkIsDirect ==
  /\ source # NoLink =>
       /\ ~Indirect(source) /\ Normalise(source) = source
       /\ source.form # "nodeortho"
       /\ IsArchive(source) => IsArchiveUrl(source)
  /\ object \in {"none", "tiff"}

(* What is fetched is what was submitted, and was allowed at every step. *)
LinkIsSound == EveryHopChecked /\ LinkIsDirect
=============================================================================
