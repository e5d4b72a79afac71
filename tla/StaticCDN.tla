------------------------------- MODULE StaticCDN -------------------------------
(***************************************************************************)
(* One static site: a bucket, an origin access control and a CloudFront    *)
(* distribution, and the row that names them (internal/staticcdn/service.go *)
(* with SaveStaticCDN and DeleteStaticCDN of internal/persistence).        *)
(* Create and Delete are requests of many AWS commands; Refresh runs for   *)
(* every list that asks for fresh data.  AWS is external; a command that   *)
(* changes something may fail, or take effect and fail to say so.          *)
(***************************************************************************)
EXTENDS Naturals

CONSTANTS
    MaxRequests,        \* HTTP requests being handled at a time
    MaxDistributions    \* bound on the distributions created

ASSUME StaticCDNAssumption == MaxRequests \in Nat /\ MaxDistributions \in Nat

Requests == 1 .. MaxRequests

VARIABLES
    bucket,     \* AWS: none, empty or full
    access,     \* AWS: the origin access control, whose name is fixed, exists
    site,       \* AWS: what became of each distribution
    row,        \* static_cdn_resources
    request,    \* what each request does, with its copy of the row
    upset       \* something happened that the code cannot repair (see RowNamesEverything)

aws == <<bucket, access, site>>
cdnVars == <<aws, row, request, upset>>

NoSite == 0
NoRow == [status |-> "none", taken |-> FALSE, access |-> FALSE, site |-> NoSite]
Served == [at |-> "served", copy |-> NoRow]
Sites == 1 .. MaxDistributions

Serves(r, stage) == request[r].at = stage
\* Requests are alike: the first free number is given to the next one.
Starts(r) == Serves(r, "served") /\ \A q \in Requests : q < r => ~Serves(q, "served")
Step(r, stage, copy) == request' = [request EXCEPT ![r] = [at |-> stage, copy |-> copy]]
Done(r) == request' = [request EXCEPT ![r] = Served]
Creating(r) == request[r].at \in {"bucket", "configure", "access", "site", "policy"}
Deleting(r) == request[r].at \in {"objects", "unsite", "unaccess", "unbucket", "unrow"}

-------------------------------------------------------------------------------
(* Create.                                                                 *)

StartCreate(r) ==
    /\ Starts(r) /\ row.status \in {"none", "failed"}
    /\ row' = IF row = NoRow THEN [NoRow EXCEPT !.status = "creating"]
              ELSE [row EXCEPT !.taken = FALSE]
    /\ Step(r, "bucket", row')
    /\ upset' = (upset \/ \E q \in Requests : Creating(q) \/ Deleting(q))
    /\ UNCHANGED aws

\* fail: what was created so far is saved under a context of its own.
Fails(r, copy) ==
    /\ Done(r)
    /\ row' = [copy EXCEPT !.status = "failed"]

\* A retry asks for the bucket first; if that fails, it is created again, which
\* AWS refuses with the error that stands for a name taken by somebody else.
MakeBucket(r) ==
    /\ Serves(r, "bucket")
    /\ LET copy == request[r].copy
           retry == copy.status = "failed"
       IN \/ retry /\ bucket # "none" /\ Step(r, "configure", copy) /\ UNCHANGED <<bucket, row, upset>>
          \/ /\ bucket # "none" /\ Fails(r, [copy EXCEPT !.taken = TRUE])
             /\ upset' = TRUE /\ UNCHANGED bucket
          \/ bucket = "none" /\ bucket' = "empty" /\ Step(r, "configure", copy) /\ UNCHANGED <<row, upset>>
          \/ bucket' \in {bucket, "empty"} /\ bucket = "none" /\ Fails(r, copy) /\ UNCHANGED upset
    /\ UNCHANGED <<access, site>>

ConfigureBucket(r) ==
    /\ Serves(r, "configure")
    /\ \/ bucket # "none" /\ Step(r, "access", request[r].copy) /\ UNCHANGED row
       \/ Fails(r, request[r].copy)
    /\ UNCHANGED <<aws, upset>>

MakeAccess(r) ==
    /\ Serves(r, "access")
    /\ LET copy == request[r].copy
           made == [copy EXCEPT !.access = TRUE]
       IN IF copy.access THEN Step(r, "site", copy) /\ UNCHANGED <<access, row, upset>>
          ELSE \/ /\ ~access /\ access' = TRUE /\ UNCHANGED upset
                  /\ (row' = made /\ Step(r, "site", made)) \/ Fails(r, made)
               \/ Fails(r, copy) /\ UNCHANGED <<access, upset>>
               \/ ~access /\ access' = TRUE /\ Fails(r, copy) /\ upset' = TRUE
    /\ UNCHANGED <<bucket, site>>

\* The reference of the request holds the time, so that AWS takes a repetition
\* for another distribution.
MakeSite(r) ==
    /\ Serves(r, "site")
    /\ LET copy == request[r].copy
       IN IF copy.site # NoSite THEN Step(r, "policy", copy) /\ UNCHANGED <<site, row, upset>>
          ELSE \/ Fails(r, copy) /\ UNCHANGED <<site, upset>>
               \/ \E s \in Sites :
                    /\ site[s] = "none" /\ \A t \in Sites : t < s => site[t] # "none"
                    /\ site' = [site EXCEPT ![s] = "deploying"]
                    /\ \/ LET made == [copy EXCEPT !.site = s, !.status = "inprogress"]
                          IN /\ (row' = made /\ Step(r, "policy", made)) \/ Fails(r, made)
                             /\ UNCHANGED upset
                       \/ Fails(r, copy) /\ upset' = TRUE
    /\ UNCHANGED <<bucket, access>>

PutPolicy(r) ==
    /\ Serves(r, "policy")
    /\ LET copy == request[r].copy
       IN \/ /\ bucket # "none" /\ Done(r)
             /\ row' \in {row, [copy EXCEPT !.status = IF @ = "creating" THEN "inprogress" ELSE @]}
          \/ Fails(r, copy)
    /\ UNCHANGED <<aws, upset>>

-------------------------------------------------------------------------------
(* Refresh.                                                                *)

StartRefresh(r) ==
    /\ Starts(r) /\ row.site # NoSite
    /\ Step(r, "ask", row)
    /\ UNCHANGED <<aws, row, upset>>

Seen(copy) ==
    [copy EXCEPT !.status = CASE site[copy.site] = "gone" -> "deleted"
                              [] site[copy.site] \in {"live", "disabled"} -> "deployed"
                              [] OTHER -> "inprogress"]
AskSite(r) ==
    /\ Serves(r, "ask")
    /\ Step(r, "write", Seen(request[r].copy)) \/ Done(r)
    /\ UNCHANGED <<aws, row, upset>>

\* An upsert: a row that was deleted meanwhile is there again.
SaveRefreshed(r) ==
    /\ Serves(r, "write")
    /\ row' = request[r].copy
    /\ upset' = (upset \/ (row # NoRow /\ row.site # row'.site))
    /\ Done(r)
    /\ UNCHANGED aws

-------------------------------------------------------------------------------
(* Delete.                                                                 *)

\* A row that failed because its name was taken has nothing to remove.
StartDelete(r) ==
    /\ Starts(r) /\ row # NoRow
    /\ IF row.status = "failed" /\ row.taken /\ ~row.access /\ row.site = NoSite
         THEN row' = NoRow /\ UNCHANGED request
         ELSE Step(r, "objects", row) /\ UNCHANGED row
    /\ upset' = (upset \/ \E q \in Requests : Creating(q))
    /\ UNCHANGED aws

\* An error, of a bucket that has gone as well, ends the request.
ListObjects(r) ==
    /\ Serves(r, "objects")
    /\ (bucket = "empty" /\ Step(r, "unsite", request[r].copy)) \/ Done(r)
    /\ UNCHANGED <<aws, row, upset>>

\* Mutant: a distribution that is being disabled is not waited for.
RemoveSiteOnce(r) ==
    /\ Serves(r, "unsite")
    /\ LET copy == request[r].copy
       IN /\ site' = IF copy.site = NoSite \/ site[copy.site] = "gone" THEN site
                     ELSE [site EXCEPT ![copy.site] = IF @ = "disabled" THEN "gone" ELSE "disabling"]
          /\ Step(r, "unaccess", copy)
    /\ UNCHANGED <<bucket, access, row, upset>>
\* ErrDeletePending: a distribution is disabled first, and deleted by a later
\* request once that is deployed.
RemoveSite(r) ==
    /\ Serves(r, "unsite")
    /\ LET copy == request[r].copy
           pending == Done(r) /\ row' \in {row, [copy EXCEPT !.status = "disabling"]}
       IN IF copy.site = NoSite \/ site[copy.site] = "gone"
            THEN Step(r, "unaccess", copy) /\ UNCHANGED <<site, row>>
          ELSE \/ /\ site[copy.site] = "disabled" /\ site' = [site EXCEPT ![copy.site] = "gone"]
                  /\ Step(r, "unaccess", copy) /\ UNCHANGED row
               \/ /\ site[copy.site] \in {"deploying", "live"}
                  /\ site' = [site EXCEPT ![copy.site] = "disabling"] /\ pending
               \/ site[copy.site] = "disabling" /\ pending /\ UNCHANGED site
               \/ Done(r) /\ UNCHANGED <<site, row>>
    /\ UNCHANGED <<bucket, access, upset>>

\* Any error of reading the control counts as its absence.
RemoveAccess(r) ==
    /\ Serves(r, "unaccess")
    /\ \/ access' = (access /\ ~request[r].copy.access)
          /\ Step(r, "unbucket", request[r].copy) /\ UNCHANGED upset
       \/ Done(r) /\ UNCHANGED <<access, upset>>
       \/ access /\ Step(r, "unbucket", request[r].copy) /\ upset' = TRUE /\ UNCHANGED access
    /\ UNCHANGED <<bucket, site, row>>

RemoveBucket(r) ==
    /\ Serves(r, "unbucket")
    /\ \/ bucket = "empty" /\ bucket' = "none" /\ Step(r, "unrow", request[r].copy)
       \/ Done(r) /\ UNCHANGED bucket
    /\ UNCHANGED <<access, site, row, upset>>

RemoveRow(r) ==
    /\ Serves(r, "unrow")
    /\ row' \in {NoRow, row} /\ Done(r)
    /\ UNCHANGED <<aws, upset>>

-------------------------------------------------------------------------------
(* AWS, the objects, and the end of the process.                           *)

Propagate ==
    /\ \E s \in Sites :
         \/ site[s] = "deploying" /\ site' = [site EXCEPT ![s] = "live"]
         \/ site[s] = "disabling" /\ site' = [site EXCEPT ![s] = "disabled"]
    /\ UNCHANGED <<bucket, access, row, request, upset>>

ChangeObjects ==
    /\ bucket # "none" /\ row # NoRow
    /\ bucket' = IF bucket = "empty" THEN "full" ELSE "empty"
    /\ UNCHANGED <<access, site, row, request, upset>>

StopRequests ==
    /\ \E r \in Requests : ~Serves(r, "served")
    /\ request' = [r \in Requests |-> Served]
    /\ UNCHANGED <<aws, row, upset>>

CDNInit ==
    /\ bucket = "none" /\ access = FALSE /\ site = [s \in Sites |-> "none"]
    /\ row = NoRow /\ request = [r \in Requests |-> Served] /\ upset = FALSE

CDNNext ==
    \/ \E r \in Requests :
         \/ StartCreate(r) \/ MakeBucket(r) \/ ConfigureBucket(r) \/ MakeAccess(r) \/ MakeSite(r)
         \/ PutPolicy(r) \/ StartRefresh(r) \/ AskSite(r) \/ SaveRefreshed(r)
         \/ StartDelete(r) \/ ListObjects(r) \/ RemoveSite(r) \/ RemoveAccess(r)
         \/ RemoveBucket(r) \/ RemoveRow(r)
    \/ Propagate \/ ChangeObjects \/ StopRequests

CDNSpec == CDNInit /\ [][CDNNext]_cdnVars

-------------------------------------------------------------------------------
(* Properties.                                                             *)

\* The row names everything the site has in AWS, so that a later request can
\* remove it: however Create and Delete failed, were repeated or were cut off, and
\* beside any Refresh.  It is upset by an AWS command whose effect was not
\* reported or not saved, by a Create beside another Create or Delete, by a Refresh that began
\* before the site was deleted and created again, and by an error that is taken
\* for the absence of a bucket or of a control.
RowNamesEverything ==
    upset \/ /\ bucket # "none" => row # NoRow
             /\ access => row.access
             /\ \A s \in Sites : site[s] \notin {"none", "gone"} => row.site = s
===============================================================================
