-------------------------------- MODULE MCData --------------------------------
(***************************************************************************)
(* Stopping the sandbox of a host, and the data that components hand to    *)
(* their callers, one component at a time: `part` says which one.          *)
(*   fence      ProcessGroups::stop with hostile work (HostFence)          *)
(*   order      the events of one observer (EventOrder)                    *)
(*   output     sanitizing and capturing output (OutputStreams)            *)
(*   session, frames   a Daytona session exec (DaytonaExec)                *)
(*   archive    Docker's tar streams (DockerArchive)                       *)
(*   transfer, typed   Daytona's staged writes and stdio (DaytonaFacets)   *)
(*   retry      retried git commands (GitRetry)                            *)
(*   git        git credentials and clones (DerivedGit)                    *)
(*   listener   the data channels of a plugin client (ChannelListener)     *)
(* They share no state; the composition shares their checks.               *)
(***************************************************************************)
EXTENDS HostFence, EventOrder, OutputStreams, DaytonaExec, DockerArchive, DaytonaFacets,
        GitRetry, DerivedGit, ChannelListener

CONSTANTS p1, p2, p3

ThreePids == {p1, p2, p3}

VARIABLE part

dataParts == <<orderVars, outputVars, daytonaExecVars, archiveVars, facetVars>>
gitParts == <<retryVars, gitVars, listenerVars>>
mcVars == <<part, vars, dataParts, gitParts>>

\* The value of the variables of a component that is not the part.
Off == "off"

OrderOff ==
    /\ next_sequence = Off /\ holder = Off /\ emitting = Off /\ running = Off
    /\ subject = Off /\ reports = Off /\ noticed = Off /\ told = Off

OutputOff ==
    /\ text = Off /\ filter = Off /\ cleaned = Off /\ kept = Off

SessionOff ==
    /\ toolbox = Off /\ sessionRun = Off /\ logStream = Off /\ inputPump = Off
    /\ dropped = Off /\ toolErrors = Off /\ frames = Off

ArchiveOff ==
    /\ archive = Off /\ wanted = Off /\ pos = Off /\ chunk = Off /\ scan = Off
    /\ output = Off /\ reading = Off /\ upload = Off

FacetsOff ==
    /\ transfer = Off /\ stdio = Off /\ typed = Off /\ fileErrors = Off

RetryOff ==
    /\ policy = Off /\ minted = Off /\ peer = Off /\ now = Off /\ stage = Off
    /\ allowed = Off /\ began = Off /\ raised = Off /\ wire = Off /\ attempts = Off
    /\ wakes = Off /\ failures = Off /\ reported = Off

GitOff ==
    /\ origin = Off /\ target = Off /\ head = Off /\ content = Off /\ store = Off
    /\ temp = Off /\ helpers = Off /\ gitCall = Off /\ calls = Off /\ cuts = Off
    /\ alone = Off /\ lapped = Off /\ last = Off

ListenerOff ==
    /\ acceptTask = Off /\ listener = Off /\ opening = Off /\ expectations = Off
    /\ oneshot = Off /\ admitting = Off /\ claim = Off
    /\ opened = Off /\ lost = Off /\ samples = Off /\ taken = Off

\* Process ids are interchangeable.  Clocks and wires do not meet in a retry: a remote peer is
\* met without a deadline.  A connection fails in one way at most.
MCInit ==
    /\ part \in {"fence", "order", "output", "session", "frames", "archive", "transfer", "typed",
                 "retry", "git", "listener"}
    /\ Init /\ owner = p1
    /\ IF part = "order" THEN OrderInit ELSE OrderOff
    /\ IF part = "output" THEN OutputInit ELSE OutputOff
    /\ IF part \in {"session", "frames"} THEN SessionInit /\ FramesInit ELSE SessionOff
    /\ IF part = "archive" THEN ArchiveInit ELSE ArchiveOff
    /\ IF part \in {"transfer", "typed"} THEN FacetsInit ELSE FacetsOff
    /\ part = "typed" => transfer.length = 0 /\ transfer.given = 0 /\ transfer.via = "direct"
    /\ IF part = "retry"
       THEN RetryInit /\ (peer # "local" => policy.factor = 1 /\ policy.max_elapsed = Absent)
       ELSE RetryOff
    /\ IF part = "git" THEN GitInit ELSE GitOff
    /\ IF part = "listener"
       THEN /\ ListenerInit
            /\ \A c \in Connections :
                 Cardinality({f \in {"peer", "frame", "token"} :
                                \/ f = "peer" /\ ~claim[c].trusted
                                \/ f = "frame" /\ ~claim[c].open
                                \/ f = "token" /\ claim[c].token # claim[c].id}) <= 1
       ELSE ListenerOff

OfFence(A) == part = "fence" /\ A /\ UNCHANGED <<part, dataParts, gitParts>>
OfData(p, A, rest) == part = p /\ A /\ UNCHANGED <<part, vars, rest, gitParts>>
OfGit(p, A, rest) == part = p /\ A /\ UNCHANGED <<part, vars, dataParts, rest>>

MCNext ==
    \/ OfFence(Next)
    \/ OfData("order", OrderNext, <<outputVars, daytonaExecVars, archiveVars, facetVars>>)
    \/ OfData("output", OutputNext, <<orderVars, daytonaExecVars, archiveVars, facetVars>>)
    \/ OfData("session", SessionNext, <<orderVars, outputVars, frames, archiveVars, facetVars>>)
    \/ OfData("frames", FramesNext, <<orderVars, outputVars, sessionVars, archiveVars, facetVars>>)
    \/ OfData("archive", ArchiveNext, <<orderVars, outputVars, daytonaExecVars, facetVars>>)
    \/ OfData("transfer", TransferNext,
              <<orderVars, outputVars, daytonaExecVars, archiveVars, stdioVars>>)
    \/ OfData("typed", StdioNext,
              <<orderVars, outputVars, daytonaExecVars, archiveVars, transferVars>>)
    \/ OfGit("retry", RetryNext, <<gitVars, listenerVars>>)
    \/ OfGit("git", GitNext, <<retryVars, listenerVars>>)
    \/ OfGit("listener", ListenerNext, <<retryVars, gitVars>>)
    \/ part # "fence" /\ UNCHANGED mcVars       \* the others may come to rest

MCSpec == MCInit /\ [][MCNext]_mcVars

-----------------------------------------------------------------------------
\* An observer gets the events of an operation in the order of their numbers, the last one
\* before the call returns.
EventsAreOrdered == part = "order" => OrderTypeOK /\ EventsInOrder


\* A transfer that succeeds is whole: a range read from a tar stream is the file's range, a
\* resource that is not a file writes nothing, an upload has its declared length, a write is
\* the whole content and a staged one touches its target only when all of it is staged, and a
\* stdio process is reported as it ended.
TransfersAreWhole ==
    CASE part = "archive" ->
           ArchiveTypeOK /\ ReadIsTheRange /\ NotAFileWritesNothing /\ UploadIsWhole
      [] part \in {"transfer", "typed"} -> FacetsTypeOK /\ PublishedIsWhole /\ StdioTellsTheTruth
      [] OTHER -> TRUE

\* A git command is repeated only where that is safe and within its policy, its report keeps
\* every attempt across the wire, and ambient credentials are those of the last call that set
\* or removed them, never half a file.
GitIsSafe ==
    CASE part = "retry" -> RetryTypeOK /\ RetryIsSafe /\ ReportIsComplete
      [] part = "git" -> GitTypeOK /\ AmbientCredentialsHold
      [] OTHER -> TRUE

\* Data channels are accounted for: a channel reaches the operation that asked for it and no
\* other, nobody waits on a sender that is gone, and permits and samples add up whoever gives
\* up, fails or is cut off first.
ChannelsAreAccounted ==
    part = "listener" =>
        /\ ListenerTypeOK /\ ChannelsReachTheirOwn /\ WaitersAreTold
        /\ BudgetsHold /\ SamplesAddUp
=============================================================================
