------------------------------- MODULE Services -------------------------------
(***************************************************************************)
(* The services behind the API that share no more than the world's clock.  *)
(* One of them moves at a time, as a part; what the others hold stays as   *)
(* it began.  What the parts promise is therefore promised by all of them. *)
(***************************************************************************)
EXTENDS Exports, Hunts, ImportQueue, DetectionPoller, Charts, SessionPages, Limits, Observer,
        ResultsPager, RowBlocks, PacketFlow, FlowSamples, UploadScan

VARIABLE part \* which of the parts moves

\* What does not move while a part does.
workspaceVars == <<casesVars, exportVars, huntVars>>
captureVars == <<worldVars, queueVars, pollerVars, chart, opened, related>>
guardVars == <<limitVars, observerVars>>
evidenceVars == <<blockVars, packetVars, sampleVars, uploadVars>>
servicesVars == <<part, workspaceVars, captureVars, guardVars, pagerVars, evidenceVars>>

\* Some have two, to be bounded in different ways: cases by what is edited or
\* by their titles, limits by what is called or by who signs in, the observer
\* by what is requested or by what is streamed.  That of the filters moves
\* nothing here: their language is a module of its own (FilterAlgebra).
Parts == {"cases", "titles", "exports", "hunts", "imports", "poller", "charts", "related", "limits", "logins", "requests",
          "streams", "pager", "filters", "blocks", "packets", "samples", "uploads"}

\* A choice that only one part makes at its beginning is made in that part.
ServicesInit ==
    /\ part \in Parts
    /\ IF part = "blocks" THEN seed \in Seeds ELSE seed = CHOOSE d \in Seeds : TRUE
    /\ IF part = "packets" THEN session \in Captures ELSE session = CHOOSE c \in Captures : TRUE
    /\ IF part = "samples" THEN sampled \in FlowRows \X Widths ELSE sampled = CHOOSE r \in FlowRows \X Widths : TRUE
    /\ IF part = "uploads" THEN body \in Bodies ELSE body = CHOOSE b \in Bodies : TRUE
    /\ ExportsInit /\ HuntsInit /\ QueueInit /\ after = -1 /\ got = {}
    /\ chart = NoChart /\ opened = {} /\ related = NoPages
    /\ LimitsInit /\ ObserverInit /\ PagerInit
    /\ BlocksInit /\ PacketInit /\ SamplesInit /\ UploadInit
    /\ part # "pager" => ~job.failing

WorkspaceNext ==
    /\ UNCHANGED <<captureVars, guardVars, pagerVars, evidenceVars>>
    /\ \/ part \in {"cases", "titles"} /\ UNCHANGED <<exportVars, huntVars>> /\ CasesNext
       \/ part = "exports" /\ UNCHANGED huntVars /\ ExportsNext
       \/ part = "hunts" /\ UNCHANGED <<casesVars, exportVars>> /\ HuntsNext
CaptureNext ==
    /\ UNCHANGED <<workspaceVars, guardVars, pagerVars, evidenceVars>>
    /\ \/ part = "imports" /\ UNCHANGED <<pollerVars, chart, opened, related>> /\ QueueNext
       \/ part = "poller" /\ UNCHANGED <<queueVars, chart, opened, related>> /\ PollerNext
       \/ part = "charts" /\ UNCHANGED <<queueVars, pollerVars, opened, related>> /\ ChartsNext
       \/ part = "related" /\ UNCHANGED <<queueVars, pollerVars, chart>> /\ RelatedNext
GuardNext ==
    /\ UNCHANGED <<workspaceVars, captureVars, pagerVars, evidenceVars>>
    /\ \/ part \in {"limits", "logins"} /\ UNCHANGED observerVars /\ LimitsNext
       \/ part \in {"requests", "streams"} /\ UNCHANGED limitVars /\ ObserverNext
PagesNext ==
    /\ UNCHANGED <<workspaceVars, captureVars, guardVars, evidenceVars>>
    /\ part = "pager" /\ PagerNext
EvidenceNext ==
    /\ UNCHANGED <<workspaceVars, captureVars, guardVars, pagerVars>>
    /\ \/ part = "blocks" /\ UNCHANGED <<packetVars, sampleVars, uploadVars>> /\ BlocksNext
       \/ part = "packets" /\ UNCHANGED <<blockVars, sampleVars, uploadVars>> /\ PacketNext
       \/ part = "samples" /\ UNCHANGED <<blockVars, packetVars, uploadVars>> /\ Sample
       \/ part = "uploads" /\ UNCHANGED <<blockVars, packetVars, sampleVars>> /\ UploadNext

ServicesNext ==
    UNCHANGED part /\ (WorkspaceNext \/ CaptureNext \/ GuardNext \/ PagesNext \/ EvidenceNext)
ServicesSpec == ServicesInit /\ [][ServicesNext]_servicesVars

-----------------------------------------------------------------------------
\* The type invariants of the parts, each where it moves.
ServicesTypeOK ==
    /\ part \in Parts
    /\ part \in {"cases", "titles"} => CasesTypeOK
    /\ part = "exports" => ExportsTypeOK
    /\ part = "hunts" => HuntsTypeOK /\ TabsAreTrue
    /\ part = "imports" => QueueTypeOK
    /\ part \in {"limits", "logins"} => LimitsTypeOK
    /\ part \in {"requests", "streams"} => ObserverTypeOK
    /\ part = "pager" => PagerTypeOK
=============================================================================
