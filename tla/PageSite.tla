------------------------------ MODULE PageSite ------------------------------
(***************************************************************************)
(* What the cache of pages promises to a reader, without jobs, downloads,  *)
(* archives or stores: a version is published at once, with every page it  *)
(* consists of, and stays published.  A request for a file of a version    *)
(* is told to wait while the version is not published; after that it is    *)
(* answered from the pages of the version and from nothing else.           *)
(***************************************************************************)
CONSTANTS Shas,      \* versions, as types.Version.SHA names them
          Requests,  \* HTTP requests, each with an identity
          AskedSha,  \* the version each request resolves to
          AskedFile, \* the file each request is for
          PagesOf,   \* the pages of a version: a set of [name, sha] records
          NoBody     \* no page

VARIABLES published,  \* the versions a reader can see
          reply       \* what each request was told

siteVars == <<published, reply>>

SiteInit ==
  /\ published = {}
  /\ reply = [r \in Requests |-> [kind |-> "new", body |-> NoBody]]

Tell(r, kind, body) ==
  /\ reply[r].kind = "new"
  /\ reply' = [reply EXCEPT ![r] = [kind |-> kind, body |-> body]]
  /\ UNCHANGED published

Publish(s) ==
  /\ published' = published \cup {s}
  /\ UNCHANGED reply

TellToWait(r) ==
  /\ AskedSha[r] \notin published
  /\ Tell(r, "preparing", NoBody)

Serve(r) ==
  /\ AskedSha[r] \in published
  /\ \E p \in PagesOf[AskedSha[r]] :
       /\ p.name = AskedFile[r]
       /\ Tell(r, "served", p.sha)

TellNotFound(r) ==
  /\ AskedSha[r] \in published
  /\ \A p \in PagesOf[AskedSha[r]] : p.name # AskedFile[r]
  /\ Tell(r, "notFound", NoBody)

(* Connections break when the process exits; the published pages stay.     *)
Disconnect ==
  /\ \E R \in SUBSET {r \in Requests : reply[r].kind = "new"} :
       reply' = [r \in Requests |->
                   IF r \in R THEN [kind |-> "dropped", body |-> NoBody] ELSE reply[r]]
  /\ UNCHANGED published

SiteNext ==
  \/ \E s \in Shas : Publish(s)
  \/ \E r \in Requests : TellToWait(r) \/ Serve(r) \/ TellNotFound(r)
  \/ Disconnect

SiteSpec == SiteInit /\ [][SiteNext]_siteVars
=============================================================================
