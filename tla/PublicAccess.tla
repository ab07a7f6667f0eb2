---------------------------- MODULE PublicAccess ----------------------------
(***************************************************************************)
(* Anonymous access through QR codes (PublicService and the public pages), *)
(* composed with uploading, editing, publishing and revoking.  A page is   *)
(* resolved once and then stays on the visitor's screen, links included; a *)
(* download resolves again, as of a moment fixed before it looks at the    *)
(* publications, and reads the file after that.                            *)
(***************************************************************************)
EXTENDS Publishing, Uploads

CONSTANT Visitor   \* browsers with a public page

VARIABLE visit     \* per visitor: the page it shows, the download it waits for

libraryVars == <<vars, uploadVars, visit>>

\* pc: away, resolve (page requested), page (on screen), find (download
\* requested), again (moment fixed), fetch (found, file about to be read),
\* served.  gone: what had ended when the download was requested.
Away == [pc |-> "away", target |-> Null, at |-> 0, links |-> {}, wanted |-> Null, gone |-> {}]

OpenVisit ==
  [pc : {"resolve", "page", "find", "again", "fetch", "served"}, target : ContextPool,
   at : Nat, links : SUBSET PubId, wanted : PubId \cup {Null}, gone : SUBSET PubId]

Visit == {Away} \cup OpenVisit

LibraryTypeOK == TypeOK /\ UploadsTypeOK /\ visit \in [Visitor -> Visit]

LibraryInit ==
  /\ Init
  /\ UploadsInit
  /\ visit = [v \in Visitor |-> Away]

\* Per key the resolver keeps one publication of the revision at the top, and
\* none when several revisions tie: visitors are not told of conflicts.
IsResolution(found, context, at) ==
  /\ found \subseteq Published
  /\ \A k \in Key :
       LET top   == Top(k, context, at)
           ofKey == {p \in found : KeyOfPub(p) = k}
       IN  IF top = {} \/ ResolutionConflict(k, context, at)
             THEN ofKey = {}
             ELSE \E p \in top : ofKey = {p}

----------------------------------------------------------------------------
\* Pages

RequestPage(v, target) ==
  /\ visit[v].pc = "away"
  /\ visit' = [visit EXCEPT ![v] =
       [Away EXCEPT !.pc = "resolve", !.target = target, !.at = now]]

ShowPage(v, found) ==
  /\ visit[v].pc = "resolve"
  /\ IsResolution(found, visit[v].target, visit[v].at)
  /\ visit' = [visit EXCEPT ![v].pc = "page", ![v].links = found]

----------------------------------------------------------------------------
\* Downloads

RequestDownload(v, p) ==
  /\ visit[v].pc = "page" /\ p \in visit[v].links
  /\ visit' = [visit EXCEPT ![v].pc = "find", ![v].wanted = p, ![v].gone = Ended]

\* The unit is looked up, the moment is fixed, the publication is looked up by
\* its stable id: it is never deleted.
FixMoment(v) ==
  /\ visit[v].pc = "find"
  /\ visit' = [visit EXCEPT ![v].pc = "again", ![v].at = now]

\* Mutant: whoever has the link may have the file.
ResolveLinks(v, found) ==
  /\ visit[v].pc = "again"
  /\ visit' = [visit EXCEPT ![v].pc = "fetch"]

\* streamIfCurrentlyResolved
ResolveAgain(v, found) ==
  /\ visit[v].pc = "again"
  /\ IsResolution(found, visit[v].target, visit[v].at)
  /\ visit' = [visit EXCEPT ![v].pc = IF visit[v].wanted \in found THEN "fetch" ELSE "page"]

Serve(v) ==
  /\ visit[v].pc = "fetch"
  /\ stored[pub[visit[v].wanted].revision] = "whole"
  /\ visit' = [visit EXCEPT ![v].pc = "served"]

\* The file is saved, the page still on screen; or the visitor is gone, or the
\* request fails.
BackToPage(v) ==
  /\ visit[v].pc = "served"
  /\ visit' = [visit EXCEPT ![v].pc = "page"]

LeavePage(v) ==
  /\ visit[v].pc # "away"
  /\ visit' = [visit EXCEPT ![v] = Away]

VisitStep(v) ==
  /\ \/ \E target \in ContextPool : RequestPage(v, target)
     \/ \E found \in SUBSET PubId : ShowPage(v, found) \/ ResolveAgain(v, found)
     \/ \E p \in PubId : RequestDownload(v, p)
     \/ FixMoment(v)
     \/ Serve(v)
     \/ BackToPage(v)
     \/ LeavePage(v)
  /\ UNCHANGED <<vars, uploadVars>>

----------------------------------------------------------------------------
\* requireRevision: editing and publishing are requested of revisions that exist.
OfExistingRevisions ==
  /\ \A e \in Editor : edit[e].pc # "idle" => edit[e].revision \in rows
  /\ \A w \in Publisher : tx[w].pc # "idle" => tx[w].revision \in rows

LibraryNext ==
  \/ Next /\ UNCHANGED <<uploadVars, visit>> /\ OfExistingRevisions'
  \/ \E u \in Uploader : UploadStep(u) /\ UNCHANGED <<publishingVars, visit>>
  \/ \E v \in Visitor : VisitStep(v)

LibrarySpec == LibraryInit /\ [][LibraryNext]_libraryVars

----------------------------------------------------------------------------
\* Properties

\* A download requested after a publication was revoked does not serve it,
\* however old the page with the link, and whatever is published, revoked or
\* looked up meanwhile (public.service.ts:113-116).  Only a request to revoke it
\* that read it ACTIVE and has not written yet can bring it back, by moving its
\* end past the moment of the download.
RevokedNotServed ==
  \A v \in Visitor :
    visit[v].pc \in {"fetch", "served"} => visit[v].wanted \notin visit[v].gone

\* What a download has found can be read: no publication is without its whole
\* file, though files and rows are written apart (public.service.ts:131).
PublishedHaveFiles ==
  \A p \in Published : stored[pub[p].revision] = "whole"
=============================================================================
