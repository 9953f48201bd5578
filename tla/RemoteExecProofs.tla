-------------------------- MODULE RemoteExecProofs --------------------------
(***************************************************************************)
(* Proofs about the streaming exec over the plugin protocol: all of its    *)
(* safety properties, for every bound on the frames and every choice of    *)
(* stdin modes.                                                            *)
(*                                                                         *)
(* The invariant follows the request: how far its task is decides what may *)
(* exist of its channel, its command and its answer (RequestInv), what the *)
(* host may hold of the answer and the output (AnswerInv), and where a     *)
(* stop that is on its way came from (StopInv).                            *)
(***************************************************************************)
EXTENDS RemoteExec, TLAPS

Early == {"sent", "handling"}
Opening == {"opening", "collect"}
Working == {"collect", "running", "finishing"}

\* What the plugin has done for a request that is so far.
RequestInv ==
    /\ req \in Early => ~ Opened /\ fwd = "off" /\ stops = {}
    /\ req \in Early \cup Opening => cmd = "none" /\ result = "none"
    /\ req \in Working => Opened
    /\ cmd # "none" => Opened
    /\ req \in Opening \cup Working /\ serve = "serving" => registered
    /\ cmd = "running" => req = "running" \/ result = "error" \/ serve \in {"aborted", "dead"}
    /\ result \in Terminations => cmd = "ended" /\ req \in {"finishing", "over"}
    /\ req = "finishing" => result # "none"
    /\ serve = "stopped" => req \in {"sent", "over"}
    /\ eof => req = "over"

\* What the host knows of a run, and what it has read of its output, is so.
AnswerInv ==
    /\ pump = "accept" => input # "failed"
    /\ "ok" \in {reply, call} => result \in Terminations /\ ~ inputError /\ req = "over"
    /\ confirmed => result \in Terminations
    /\ pump = "done" => eof /\ got = sent /\ input # "failed"

StopArrived == Killed \/ ~ Serving \/ result # "none" \/ req = "over"

\* Where a stop came from: a token of the plugin from a stop request or its
\* own stdin pump, a stop request from a token that fired at the host, and
\* that from the caller, the sink or the input.
StopInv ==
    /\ "kill" \in asked => "kill" \in caller \/ sinkFailed \/ input = "failed"
    /\ "term" \in asked => "term" \in caller
    /\ Live => stops \subseteq asked
    /\ Live /\ "term" \in tokens => "term" \in asked
    /\ Live /\ "kill" \in tokens => "kill" \in asked \/ inputError
    /\ "kill" \in acks \/ stopAck => StopArrived
    /\ result = "Killed" => "kill" \in tokens \/ serve # "serving"
    /\ result = "Cancelled" => "term" \in tokens \/ lost

IInv == TypeOK /\ RequestInv /\ AnswerInv /\ StopInv

\* The host's call: its tokens, its answer and its end.
LEMMA CallIInv ==
    ASSUME IInv,
           \/ \E t \in Tokens : FireToken(t)
           \/ Route
           \/ ControlCloses
           \/ ReturnResult
           \/ ReturnError
           \/ DrainExpires
           \/ DropFuture
    PROVE  IInv'
<1> USE DEF IInv, hostVars, linkVars, pluginVars, Tokens, Terminations, Early, Opening, Working
<1>0. FlagsOK
    BY DEF TypeOK
<1>1. ASSUME NEW t \in Tokens, FireToken(t)
      PROVE  IInv'
  <2>0. FlagsOK'
    BY ZenonT(60), <1>0, <1>1 DEF FireToken, FlagsOK
  <2>1. TypeOK'
    BY <1>1, <2>0 DEF FireToken, TypeOK
  <2>2. RequestInv'
    BY <1>1 DEF FireToken, RequestInv, Opened
  <2>3. AnswerInv'
    BY <1>1 DEF FireToken, AnswerInv, RequestInv, TypeOK
  <2>4. StopInv'
    BY <1>1 DEF FireToken, StopInv, RequestInv, AnswerInv, TypeOK, StopArrived,
       Killed, Serving, Live, Opened
  <2> QED
    BY <2>1, <2>2, <2>3, <2>4
<1>2. CASE Route
  <2>0. FlagsOK'
    BY ZenonT(60), <1>0, <1>2 DEF Route, FlagsOK
  <2>1. TypeOK'
    BY <1>2, <2>0 DEF Route, TypeOK
  <2>2. RequestInv'
    BY <1>2 DEF Route, RequestInv, Opened
  <2>3. AnswerInv'
    BY <1>2 DEF Route, AnswerInv, RequestInv, TypeOK
  <2>4. StopInv'
    BY <1>2 DEF Route, StopInv, RequestInv, AnswerInv, TypeOK, StopArrived,
       Killed, Serving, Live, Opened
  <2> QED
    BY <2>1, <2>2, <2>3, <2>4
<1>3. CASE ControlCloses
  <2>0. FlagsOK'
    BY ZenonT(60), <1>0, <1>3 DEF ControlCloses, FlagsOK
  <2>1. TypeOK'
    BY <1>3, <2>0 DEF ControlCloses, TypeOK
  <2>2. RequestInv'
    BY <1>3 DEF ControlCloses, RequestInv, Opened
  <2>3. AnswerInv'
    BY <1>3 DEF ControlCloses, AnswerInv, RequestInv, TypeOK
  <2>4. StopInv'
    BY <1>3 DEF ControlCloses, StopInv, RequestInv, AnswerInv, TypeOK, StopArrived,
       Killed, Serving, Live, Opened
  <2> QED
    BY <2>1, <2>2, <2>3, <2>4
<1>4. CASE ReturnResult
  <2>0. FlagsOK'
    BY ZenonT(60), <1>0, <1>4 DEF ReturnResult, End, Verdict, FlagsOK
  <2>1. TypeOK'
    BY <1>4, <2>0 DEF ReturnResult, End, Verdict, TypeOK
  <2>2. RequestInv'
    BY <1>4 DEF ReturnResult, End, Verdict, RequestInv, Opened
  <2>3. AnswerInv'
    BY <1>4 DEF ReturnResult, End, Verdict, AnswerInv, RequestInv, TypeOK
  <2>4. StopInv'
    BY <1>4 DEF ReturnResult, End, Verdict, StopInv, RequestInv, AnswerInv, TypeOK, StopArrived,
       Killed, Serving, Live, Opened
  <2> QED
    BY <2>1, <2>2, <2>3, <2>4
<1>5. CASE ReturnError
  <2>0. FlagsOK'
    BY ZenonT(60), <1>0, <1>5 DEF ReturnError, End, FlagsOK
  <2>1. TypeOK'
    BY <1>5, <2>0 DEF ReturnError, End, TypeOK
  <2>2. RequestInv'
    BY <1>5 DEF ReturnError, End, RequestInv, Opened
  <2>3. AnswerInv'
    BY <1>5 DEF ReturnError, End, AnswerInv, RequestInv, TypeOK
  <2>4. StopInv'
    BY <1>5 DEF ReturnError, End, StopInv, RequestInv, AnswerInv, TypeOK, StopArrived,
       Killed, Serving, Live, Opened
  <2> QED
    BY <2>1, <2>2, <2>3, <2>4
<1>6. CASE DrainExpires
  <2>0. FlagsOK'
    BY ZenonT(60), <1>0, <1>6 DEF DrainExpires, End, FlagsOK
  <2>1. TypeOK'
    BY <1>6, <2>0 DEF DrainExpires, End, TypeOK
  <2>2. RequestInv'
    BY <1>6 DEF DrainExpires, End, RequestInv, Opened
  <2>3. AnswerInv'
    BY <1>6 DEF DrainExpires, End, AnswerInv, RequestInv, TypeOK
  <2>4. StopInv'
    BY <1>6 DEF DrainExpires, End, StopInv, RequestInv, AnswerInv, TypeOK, StopArrived,
       Killed, Serving, Live, Opened
  <2> QED
    BY <2>1, <2>2, <2>3, <2>4
<1>7. CASE DropFuture
  <2>0. FlagsOK'
    BY ZenonT(60), <1>0, <1>7 DEF DropFuture, End, FlagsOK
  <2>1. TypeOK'
    BY <1>7, <2>0 DEF DropFuture, End, TypeOK
  <2>2. RequestInv'
    BY <1>7 DEF DropFuture, End, RequestInv, Opened
  <2>3. AnswerInv'
    BY <1>7 DEF DropFuture, End, AnswerInv, RequestInv, TypeOK
  <2>4. StopInv'
    BY <1>7 DEF DropFuture, End, StopInv, RequestInv, AnswerInv, TypeOK, StopArrived,
       Killed, Serving, Live, Opened
  <2> QED
    BY <2>1, <2>2, <2>3, <2>4
<1> QED
    BY <1>1, <1>2, <1>3, <1>4, <1>5, <1>6, <1>7

\* The data channel, the pump and the stdin feeder at the host.
LEMMA ChannelIInv ==
    ASSUME IInv,
           \/ Admit
           \/ HandOver
           \/ Accept
           \/ AcceptTimesOut
           \/ PumpFrame
           \/ PumpEnds
           \/ FeedStdin
    PROVE  IInv'
<1> USE DEF IInv, hostVars, linkVars, pluginVars, Tokens, Terminations, Early, Opening, Working
<1>0. FlagsOK
    BY DEF TypeOK
<1>1. CASE Admit
  <2>0. FlagsOK'
    BY ZenonT(60), <1>0, <1>1 DEF Admit, ChanTo, FlagsOK
  <2>1. TypeOK'
    BY <1>1, <2>0 DEF Admit, ChanTo, TypeOK
  <2>2. RequestInv'
    BY <1>1 DEF Admit, ChanTo, RequestInv, Opened
  <2>3. AnswerInv'
    BY <1>1 DEF Admit, ChanTo, AnswerInv, RequestInv, TypeOK
  <2>4. StopInv'
    BY <1>1 DEF Admit, ChanTo, StopInv, RequestInv, AnswerInv, TypeOK, StopArrived,
       Killed, Serving, Live, Opened
  <2> QED
    BY <2>1, <2>2, <2>3, <2>4
<1>2. CASE HandOver
  <2>0. FlagsOK'
    BY ZenonT(60), <1>0, <1>2 DEF HandOver, ChanTo, FlagsOK
  <2>1. TypeOK'
    BY <1>2, <2>0 DEF HandOver, ChanTo, TypeOK
  <2>2. RequestInv'
    BY <1>2 DEF HandOver, ChanTo, RequestInv, Opened
  <2>3. AnswerInv'
    BY <1>2 DEF HandOver, ChanTo, AnswerInv, RequestInv, TypeOK
  <2>4. StopInv'
    BY <1>2 DEF HandOver, ChanTo, StopInv, RequestInv, AnswerInv, TypeOK, StopArrived,
       Killed, Serving, Live, Opened
  <2> QED
    BY <2>1, <2>2, <2>3, <2>4
<1>3. CASE Accept
  <2>0. FlagsOK'
    BY ZenonT(60), <1>0, <1>3 DEF Accept, ChanTo, FlagsOK
  <2>1. TypeOK'
    BY <1>3, <2>0 DEF Accept, ChanTo, TypeOK
  <2>2. RequestInv'
    BY <1>3 DEF Accept, ChanTo, RequestInv, Opened
  <2>3. AnswerInv'
    BY <1>3 DEF Accept, ChanTo, AnswerInv, RequestInv, TypeOK
  <2>4. StopInv'
    BY <1>3 DEF Accept, ChanTo, StopInv, RequestInv, AnswerInv, TypeOK, StopArrived,
       Killed, Serving, Live, Opened
  <2> QED
    BY <2>1, <2>2, <2>3, <2>4
<1>4. CASE AcceptTimesOut
  <2>0. FlagsOK'
    BY ZenonT(60), <1>0, <1>4 DEF AcceptTimesOut, FlagsOK
  <2>1. TypeOK'
    BY <1>4, <2>0 DEF AcceptTimesOut, TypeOK
  <2>2. RequestInv'
    BY <1>4 DEF AcceptTimesOut, RequestInv, Opened
  <2>3. AnswerInv'
    BY <1>4 DEF AcceptTimesOut, AnswerInv, RequestInv, TypeOK
  <2>4. StopInv'
    BY <1>4 DEF AcceptTimesOut, StopInv, RequestInv, AnswerInv, TypeOK, StopArrived,
       Killed, Serving, Live, Opened
  <2> QED
    BY <2>1, <2>2, <2>3, <2>4
<1>5. CASE PumpFrame
  <2>0. FlagsOK'
    BY ZenonT(60), <1>0, <1>5 DEF PumpFrame, Pumping, FlagsOK
  <2>1. TypeOK'
    <3>1. caller' \subseteq asked' /\ asked' \subseteq Tokens
      BY <1>5 DEF PumpFrame, TypeOK
    <3>2. got' \in 0 .. sent' /\ sent' \in 0 .. MaxFrames
      BY <1>5, FramesAssumption DEF PumpFrame, TypeOK
    <3> QED
      BY <1>5, <2>0, <3>1, <3>2 DEF PumpFrame, TypeOK
  <2>2. RequestInv'
    BY <1>5 DEF PumpFrame, Pumping, RequestInv, Opened
  <2>3. AnswerInv'
    BY <1>5 DEF PumpFrame, Pumping, AnswerInv, RequestInv, TypeOK
  <2>4. StopInv'
    BY <1>5 DEF PumpFrame, Pumping, StopInv, RequestInv, AnswerInv, TypeOK, StopArrived,
       Killed, Serving, Live, Opened
  <2> QED
    BY <2>1, <2>2, <2>3, <2>4
<1>6. CASE PumpEnds
  <2>0. FlagsOK'
    BY ZenonT(60), <1>0, <1>6 DEF PumpEnds, Pumping, FlagsOK
  <2>1. TypeOK'
    BY <1>6, <2>0 DEF PumpEnds, Pumping, TypeOK
  <2>2. RequestInv'
    BY <1>6 DEF PumpEnds, Pumping, RequestInv, Opened
  <2>3. AnswerInv'
    BY <1>6 DEF PumpEnds, Pumping, AnswerInv, RequestInv, TypeOK
  <2>4. StopInv'
    BY <1>6 DEF PumpEnds, Pumping, StopInv, RequestInv, AnswerInv, TypeOK, StopArrived,
       Killed, Serving, Live, Opened
  <2> QED
    BY <2>1, <2>2, <2>3, <2>4
<1>7. CASE FeedStdin
  <2>0. FlagsOK'
    BY ZenonT(60), <1>0, <1>7 DEF FeedStdin, FlagsOK
  <2>1. TypeOK'
    <3>1. caller' \subseteq asked' /\ asked' \subseteq Tokens
      BY <1>7 DEF FeedStdin, TypeOK
    <3> QED
      BY <1>7, <2>0, <3>1 DEF FeedStdin, TypeOK
  <2>2. RequestInv'
    BY <1>7 DEF FeedStdin, RequestInv, Opened
  <2>3. AnswerInv'
    BY <1>7 DEF FeedStdin, AnswerInv, RequestInv, TypeOK
  <2>4. StopInv'
    BY <1>7 DEF FeedStdin, StopInv, RequestInv, AnswerInv, TypeOK, StopArrived,
       Killed, Serving, Live, Opened
  <2> QED
    BY <2>1, <2>2, <2>3, <2>4
<1> QED
    BY <1>1, <1>2, <1>3, <1>4, <1>5, <1>6, <1>7

\* forward_stops at the host, and the plugin's handler of a stop.
LEMMA ForwardIInv ==
    ASSUME IInv,
           \/ SendTerm
           \/ SendKill
           \/ TermAnswered
           \/ KillAnswered
           \/ \E l \in Tokens : Stop(l)
    PROVE  IInv'
<1> USE DEF IInv, hostVars, linkVars, pluginVars, Tokens, Terminations, Early, Opening, Working
<1>0. FlagsOK
    BY DEF TypeOK
<1>1. CASE SendTerm
  <2>0. FlagsOK'
    BY ZenonT(60), <1>0, <1>1 DEF SendTerm, Forward, FlagsOK
  <2>1. TypeOK'
    BY <1>1, <2>0 DEF SendTerm, Forward, TypeOK
  <2>2. RequestInv'
    BY <1>1 DEF SendTerm, Forward, RequestInv, Opened
  <2>3. AnswerInv'
    BY <1>1 DEF SendTerm, Forward, AnswerInv, RequestInv, TypeOK
  <2>4. StopInv'
    BY <1>1 DEF SendTerm, Forward, StopInv, RequestInv, AnswerInv, TypeOK, StopArrived,
       Killed, Serving, Live, Opened
  <2> QED
    BY <2>1, <2>2, <2>3, <2>4
<1>2. CASE SendKill
  <2>0. FlagsOK'
    BY ZenonT(60), <1>0, <1>2 DEF SendKill, Forward, FlagsOK
  <2>1. TypeOK'
    BY <1>2, <2>0 DEF SendKill, Forward, TypeOK
  <2>2. RequestInv'
    BY <1>2 DEF SendKill, Forward, RequestInv, Opened
  <2>3. AnswerInv'
    BY <1>2 DEF SendKill, Forward, AnswerInv, RequestInv, TypeOK
  <2>4. StopInv'
    BY <1>2 DEF SendKill, Forward, StopInv, RequestInv, AnswerInv, TypeOK, StopArrived,
       Killed, Serving, Live, Opened
  <2> QED
    BY <2>1, <2>2, <2>3, <2>4
<1>3. CASE TermAnswered
  <2>0. FlagsOK'
    BY ZenonT(60), <1>0, <1>3 DEF TermAnswered, Forward, FlagsOK
  <2>1. TypeOK'
    BY <1>3, <2>0 DEF TermAnswered, Forward, TypeOK
  <2>2. RequestInv'
    BY <1>3 DEF TermAnswered, Forward, RequestInv, Opened
  <2>3. AnswerInv'
    BY <1>3 DEF TermAnswered, Forward, AnswerInv, RequestInv, TypeOK
  <2>4. StopInv'
    BY <1>3 DEF TermAnswered, Forward, StopInv, RequestInv, AnswerInv, TypeOK, StopArrived,
       Killed, Serving, Live, Opened
  <2> QED
    BY <2>1, <2>2, <2>3, <2>4
<1>4. CASE KillAnswered
  <2>0. FlagsOK'
    BY <1>0, <1>4 DEF KillAnswered, Forward, FlagsOK
  <2>1. TypeOK'
    BY <1>4, <2>0 DEF KillAnswered, Forward, TypeOK
  <2>2. RequestInv'
    BY <1>4 DEF KillAnswered, Forward, RequestInv, Opened
  <2>3. AnswerInv'
    BY <1>4 DEF KillAnswered, Forward, AnswerInv, RequestInv, TypeOK
  <2>4. StopInv'
    BY <1>4 DEF KillAnswered, Forward, StopInv, RequestInv, AnswerInv, TypeOK, StopArrived,
       Killed, Serving, Live, Opened
  <2> QED
    BY <2>1, <2>2, <2>3, <2>4
<1>5. ASSUME NEW l \in Tokens, Stop(l)
      PROVE  IInv'
  <2>0. FlagsOK'
    BY ZenonT(60), <1>0, <1>5 DEF Stop, FlagsOK
  <2>1. TypeOK'
    BY <1>5, <2>0 DEF Stop, TypeOK
  <2>2. RequestInv'
    BY <1>5 DEF Stop, RequestInv, Opened
  <2>3. AnswerInv'
    BY <1>5 DEF Stop, AnswerInv, RequestInv, TypeOK
  <2>4. StopInv'
    BY <1>5 DEF Stop, StopInv, RequestInv, AnswerInv, TypeOK, StopArrived,
       Killed, Serving, Live, Opened
  <2> QED
    BY <2>1, <2>2, <2>3, <2>4
<1> QED
    BY <1>1, <1>2, <1>3, <1>4, <1>5

\* The plugin's request task.
LEMMA TaskIInv ==
    ASSUME IInv,
           \/ Handle
           \/ Register
           \/ Open
           \/ Collect
           \/ Output
           \/ StdinBreaks
           \/ \E t \in Terminations \cup {"error"} : RunReturns(t)
           \/ FinishChannel
    PROVE  IInv'
<1> USE DEF IInv, hostVars, linkVars, pluginVars, Tokens, Terminations, Early, Opening, Working
<1>0. FlagsOK
    BY DEF TypeOK
<1>1. CASE Handle
  <2>0. FlagsOK'
    BY ZenonT(60), <1>0, <1>1 DEF Handle, Answer, Task, FlagsOK
  <2>1. TypeOK'
    BY <1>1, <2>0 DEF Handle, Answer, Task, TypeOK
  <2>2. RequestInv'
    BY <1>1 DEF Handle, Answer, Task, RequestInv, Opened
  <2>3. AnswerInv'
    BY <1>1 DEF Handle, Answer, Task, AnswerInv, RequestInv, TypeOK
  <2>4. StopInv'
    BY <1>1 DEF Handle, Answer, Task, StopInv, RequestInv, AnswerInv, TypeOK, StopArrived,
       Killed, Serving, Live, Opened
  <2> QED
    BY <2>1, <2>2, <2>3, <2>4
<1>2. CASE Register
  <2>0. FlagsOK'
    BY ZenonT(60), <1>0, <1>2 DEF Register, Task, FlagsOK
  <2>1. TypeOK'
    BY <1>2, <2>0 DEF Register, Task, TypeOK
  <2>2. RequestInv'
    BY <1>2 DEF Register, Task, RequestInv, Opened
  <2>3. AnswerInv'
    BY <1>2 DEF Register, Task, AnswerInv, RequestInv, TypeOK
  <2>4. StopInv'
    BY <1>2 DEF Register, Task, StopInv, RequestInv, AnswerInv, TypeOK, StopArrived,
       Killed, Serving, Live, Opened
  <2> QED
    BY <2>1, <2>2, <2>3, <2>4
<1>3. CASE Open
  <2>0. FlagsOK'
    BY ZenonT(60), <1>0, <1>3 DEF Open, Start, Answer, Task, FlagsOK
  <2>1. TypeOK'
    BY <1>3, <2>0 DEF Open, Start, Answer, Task, TypeOK
  <2>2. RequestInv'
    BY <1>3 DEF Open, Start, Answer, Task, RequestInv, Opened
  <2>3. AnswerInv'
    BY <1>3 DEF Open, Start, Answer, Task, AnswerInv, RequestInv, TypeOK
  <2>4. StopInv'
    BY <1>3 DEF Open, Start, Answer, Task, StopInv, RequestInv, AnswerInv, TypeOK, StopArrived,
       Killed, Serving, Live, Opened
  <2> QED
    BY <2>1, <2>2, <2>3, <2>4
<1>4. CASE Collect
  <2>0. FlagsOK'
    BY ZenonT(60), <1>0, <1>4 DEF Collect, Start, Answer, Task, FlagsOK
  <2>1. TypeOK'
    BY <1>4, <2>0 DEF Collect, Start, Answer, Task, TypeOK
  <2>2. RequestInv'
    BY <1>4 DEF Collect, Start, Answer, Task, RequestInv, Opened
  <2>3. AnswerInv'
    BY <1>4 DEF Collect, Start, Answer, Task, AnswerInv, RequestInv, TypeOK
  <2>4. StopInv'
    BY <1>4 DEF Collect, Start, Answer, Task, StopInv, RequestInv, AnswerInv, TypeOK, StopArrived,
       Killed, Serving, Live, Opened
  <2> QED
    BY <2>1, <2>2, <2>3, <2>4
<1>5. CASE Output
  <2>0. FlagsOK'
    BY ZenonT(60), <1>0, <1>5 DEF Output, Task, FlagsOK
  <2>1. TypeOK'
    <3>1. got' \in 0 .. sent' /\ sent' \in 0 .. MaxFrames
      BY <1>5, FramesAssumption DEF Output, Task, TypeOK
    <3> QED
      BY <1>5, <2>0, <3>1 DEF Output, Task, TypeOK
  <2>2. RequestInv'
    BY <1>5 DEF Output, Task, RequestInv, Opened
  <2>3. AnswerInv'
    BY <1>5 DEF Output, Task, AnswerInv, RequestInv, TypeOK
  <2>4. StopInv'
    BY <1>5 DEF Output, Task, StopInv, RequestInv, AnswerInv, TypeOK, StopArrived,
       Killed, Serving, Live, Opened
  <2> QED
    BY <2>1, <2>2, <2>3, <2>4
<1>6. CASE StdinBreaks
  <2>0. FlagsOK'
    BY ZenonT(60), <1>0, <1>6 DEF StdinBreaks, Task, FlagsOK
  <2>1. TypeOK'
    BY <1>6, <2>0 DEF StdinBreaks, Task, TypeOK
  <2>2. RequestInv'
    BY <1>6 DEF StdinBreaks, Task, RequestInv, Opened
  <2>3. AnswerInv'
    BY <1>6 DEF StdinBreaks, Task, AnswerInv, RequestInv, TypeOK
  <2>4. StopInv'
    BY <1>6 DEF StdinBreaks, Task, StopInv, RequestInv, AnswerInv, TypeOK, StopArrived,
       Killed, Serving, Live, Opened
  <2> QED
    BY <2>1, <2>2, <2>3, <2>4
<1>7. ASSUME NEW t \in Terminations \cup {"error"}, RunReturns(t)
      PROVE  IInv'
  <2>0. FlagsOK'
    BY ZenonT(60), <1>0, <1>7 DEF RunReturns, Task, FlagsOK
  <2>1. TypeOK'
    BY <1>7, <2>0 DEF RunReturns, Task, TypeOK
  <2>2. RequestInv'
    BY <1>7 DEF RunReturns, Task, RequestInv, Opened
  <2>3. AnswerInv'
    BY <1>7 DEF RunReturns, Task, AnswerInv, RequestInv, TypeOK
  <2>4. StopInv'
    BY <1>7 DEF RunReturns, Task, StopInv, RequestInv, AnswerInv, TypeOK, StopArrived,
       Killed, Serving, Live, Opened
  <2> QED
    BY <2>1, <2>2, <2>3, <2>4
<1>8. CASE FinishChannel
  <2>0. FlagsOK'
    BY ZenonT(60), <1>0, <1>8 DEF FinishChannel, Answer, Task, FlagsOK
  <2>1. TypeOK'
    BY <1>8, <2>0 DEF FinishChannel, Answer, Task, TypeOK
  <2>2. RequestInv'
    BY <1>8 DEF FinishChannel, Answer, Task, RequestInv, Opened
  <2>3. AnswerInv'
    BY <1>8 DEF FinishChannel, Answer, Task, AnswerInv, RequestInv, TypeOK
  <2>4. StopInv'
    BY <1>8 DEF FinishChannel, Answer, Task, StopInv, RequestInv, AnswerInv, TypeOK, StopArrived,
       Killed, Serving, Live, Opened
  <2> QED
    BY <2>1, <2>2, <2>3, <2>4
<1> QED
    BY <1>1, <1>2, <1>3, <1>4, <1>5, <1>6, <1>7, <1>8

\* The plugin's serve loop.
LEMMA ServeIInv ==
    ASSUME IInv,
           \/ CloseSessions
           \/ ServeStops
           \/ ServeAborts
           \/ PluginDies
    PROVE  IInv'
<1> USE DEF IInv, hostVars, linkVars, pluginVars, Tokens, Terminations, Early, Opening, Working
<1>0. FlagsOK
    BY DEF TypeOK
<1>1. CASE CloseSessions
  <2>0. FlagsOK'
    BY ZenonT(60), <1>0, <1>1 DEF CloseSessions, FlagsOK
  <2>1. TypeOK'
    BY <1>1, <2>0 DEF CloseSessions, TypeOK
  <2>2. RequestInv'
    BY <1>1 DEF CloseSessions, RequestInv, Opened
  <2>3. AnswerInv'
    BY <1>1 DEF CloseSessions, AnswerInv, RequestInv, TypeOK
  <2>4. StopInv'
    BY <1>1 DEF CloseSessions, StopInv, RequestInv, AnswerInv, TypeOK, StopArrived,
       Killed, Serving, Live, Opened
  <2> QED
    BY <2>1, <2>2, <2>3, <2>4
<1>2. CASE ServeStops
  <2>0. FlagsOK'
    BY ZenonT(60), <1>0, <1>2 DEF ServeStops, FlagsOK
  <2>1. TypeOK'
    BY <1>2, <2>0 DEF ServeStops, TypeOK
  <2>2. RequestInv'
    BY <1>2 DEF ServeStops, RequestInv, Opened
  <2>3. AnswerInv'
    BY <1>2 DEF ServeStops, AnswerInv, RequestInv, TypeOK
  <2>4. StopInv'
    BY <1>2 DEF ServeStops, StopInv, RequestInv, AnswerInv, TypeOK, StopArrived,
       Killed, Serving, Live, Opened
  <2> QED
    BY <2>1, <2>2, <2>3, <2>4
<1>3. CASE ServeAborts
  <2>0. FlagsOK'
    BY ZenonT(60), <1>0, <1>3 DEF ServeAborts, FlagsOK
  <2>1. TypeOK'
    BY <1>3, <2>0 DEF ServeAborts, TypeOK
  <2>2. RequestInv'
    BY <1>3 DEF ServeAborts, RequestInv, Opened
  <2>3. AnswerInv'
    BY <1>3 DEF ServeAborts, AnswerInv, RequestInv, TypeOK
  <2>4. StopInv'
    BY <1>3 DEF ServeAborts, StopInv, RequestInv, AnswerInv, TypeOK, StopArrived,
       Killed, Serving, Live, Opened
  <2> QED
    BY <2>1, <2>2, <2>3, <2>4
<1>4. CASE PluginDies
  <2>0. FlagsOK'
    BY ZenonT(60), <1>0, <1>4 DEF PluginDies, FlagsOK
  <2>1. TypeOK'
    BY <1>4, <2>0 DEF PluginDies, TypeOK
  <2>2. RequestInv'
    BY <1>4 DEF PluginDies, RequestInv, Opened
  <2>3. AnswerInv'
    BY <1>4 DEF PluginDies, AnswerInv, RequestInv, TypeOK
  <2>4. StopInv'
    BY <1>4 DEF PluginDies, StopInv, RequestInv, AnswerInv, TypeOK, StopArrived,
       Killed, Serving, Live, Opened
  <2> QED
    BY <2>1, <2>2, <2>3, <2>4
<1> QED
    BY <1>1, <1>2, <1>3, <1>4

-----------------------------------------------------------------------------
\* The initial state satisfies the inductive invariant.
LEMMA InitIInv == Init => IInv
<1> SUFFICES ASSUME Init
             PROVE  IInv
    OBVIOUS
<1>1. FlagsOK
    BY DEF Init, FlagsOK
<1>2. got \in 0 .. sent /\ sent \in 0 .. MaxFrames
    BY FramesAssumption DEF Init
<1>3. TypeOK
    BY <1>1, <1>2, StdinAssumption DEF Init, TypeOK
<1>4. RequestInv /\ AnswerInv /\ StopInv
    BY DEF Init, RequestInv, AnswerInv, StopInv, Early, Opening, Working, Opened, Terminations
<1> QED
    BY <1>3, <1>4 DEF IInv

\* Every step keeps the inductive invariant.
LEMMA NextIInv == IInv /\ [Next]_vars => IInv'
<1> SUFFICES ASSUME IInv, [Next]_vars
             PROVE  IInv'
    OBVIOUS
<1>1. CASE UNCHANGED vars
  <2> USE <1>1 DEF vars, hostVars, linkVars, pluginVars, IInv
  <2>1. TypeOK'
    BY DEF TypeOK, FlagsOK
  <2>2. RequestInv' /\ AnswerInv' /\ StopInv'
    BY DEF RequestInv, AnswerInv, StopInv, Opened, StopArrived, Killed, Serving, Live
  <2> QED
    BY <2>1, <2>2
<1>2. CASE HostStep
    BY <1>2, CallIInv, ChannelIInv, ForwardIInv DEF HostStep
<1>3. CASE Environment
    BY <1>3, CallIInv, ChannelIInv, TaskIInv, ServeIInv DEF Environment
<1>4. CASE SendTerm \/ \E l \in Tokens : Stop(l)
    BY <1>4, ForwardIInv
<1>5. CASE Register \/ Open \/ FinishChannel \/ \E t \in Terminations \cup {"error"} : RunReturns(t)
    BY <1>5, TaskIInv
<1>6. CASE ServeStops
    BY <1>6, ServeIInv
<1> QED
    BY <1>1, <1>2, <1>3, <1>4, <1>5, <1>6 DEF Next

\* The invariant the results rest on, of every behaviour.
THEOREM Invariance == Spec => []IInv
<1>1. Init => IInv
    BY InitIInv
<1>2. IInv /\ [Next]_vars => IInv'
    BY NextIInv
<1> QED
    BY <1>1, <1>2, PTL DEF Spec

\* Every variable of a streaming exec keeps its type, for any number of frames.
THEOREM TypeCorrect == Spec => []TypeOK
<1>1. IInv => TypeOK
    BY DEF IInv
<1> QED
    BY <1>1, Invariance, PTL

\* An exec/stream call that gave up before its channel was authenticated never
\* runs its command, whenever the plugin gets to the request.
THEOREM ForgottenWorkNeverRuns == Spec => []ForgottenNeverRuns
<1>1. IInv => ForgottenNeverRuns
    BY DEF IInv, RequestInv, Opened, ForgottenNeverRuns
<1> QED
    BY <1>1, Invariance, PTL

\* A serve loop that ended because its requests did leaves no command running,
\* except one whose provider reported an error.
THEOREM StoppedServerIsIdle == Spec => []StoppedServerHasNoWork
<1>1. IInv => StoppedServerHasNoWork
    BY DEF IInv, RequestInv, StoppedServerHasNoWork
<1> QED
    BY <1>1, Invariance, PTL

\* Only ReturnResult ends the call with a Termination.
LEMMA TerminationIsReturned ==
    ASSUME IInv, Next, NEW t \in Terminations, Returns(t)
    PROVE  ReturnResult
<1> USE DEF Returns, Terminations, hostVars
<1>1. CASE HostStep
    BY <1>1 DEF HostStep, Admit, HandOver, Accept, PumpFrame, PumpEnds, SendKill, TermAnswered,
       KillAnswered, Route, ReturnError, End, ChanTo, Forward
<1>2. CASE Environment
    BY <1>2 DEF Environment, FireToken, ControlCloses, DrainExpires, DropFuture, AcceptTimesOut,
       FeedStdin, Handle, Collect, Output, StdinBreaks, CloseSessions, ServeAborts, PluginDies, End,
       Task
<1>3. CASE SendTerm \/ \E l \in Tokens : Stop(l)
    BY <1>3 DEF SendTerm, Stop, Forward
<1>4. CASE Register \/ Open \/ FinishChannel \/ ServeStops
           \/ \E r \in Terminations \cup {"error"} : RunReturns(r)
    BY <1>4 DEF Register, Open, FinishChannel, ServeStops, RunReturns, Task
<1> QED
    BY <1>1, <1>2, <1>3, <1>4 DEF Next

\* A result that is not marked truncated comes with every frame the plugin
\* wrote, and no chunk was lost before the channel.
THEOREM ResultsAreComplete == Spec => ResultIsComplete
<1>1. ASSUME IInv, [Next]_vars, NEW t \in Terminations, Returns(t), ~ truncated'
      PROVE  got = sent /\ eof /\ ~ lost
  <2>1. Next
    BY <1>1 DEF Returns, Terminations, vars, hostVars
  <2>2. ReturnResult
    BY <1>1, <2>1, TerminationIsReturned
  <2> QED
    BY <1>1, <2>2 DEF ReturnResult, IInv, AnswerInv, TypeOK, FlagsOK
<1>2. IInv /\ [Next]_vars =>
        [\A t \in Terminations : Returns(t) /\ ~ truncated' => got = sent /\ eof /\ ~ lost]_vars
    BY <1>1
<1> QED
    BY <1>2, Invariance, PTL DEF Spec, ResultIsComplete

\* What the caller is told of its run is so: an acknowledged stop arrived, a
\* confirmed termination is one, and the Termination is one that was asked for.
THEOREM TerminationsAreTrue == Spec => TerminationIsTrue
<1>1. ASSUME IInv, Returns("Incomplete")
      PROVE  /\ stopAck => Killed \/ ~ Serving \/ result # "none" \/ req = "over"
             /\ confirmed => cmd = "ended"
    BY <1>1 DEF IInv, StopInv, StopArrived, AnswerInv, RequestInv
<1>2. ASSUME IInv, [Next]_vars, NEW t \in {"Killed", "Cancelled"}, Returns(t)
      PROVE  /\ ReturnResult /\ Live /\ result \in Terminations /\ ~ inputError
             /\ input # "failed"
  <2>1. Next
    BY <1>2 DEF Returns, vars, hostVars
  <2>2. ReturnResult
    BY <1>2, <2>1, TerminationIsReturned DEF Terminations
  <2> QED
    BY <1>2, <2>2 DEF ReturnResult, IInv, AnswerInv, End
<1>3. ASSUME IInv, [Next]_vars, Returns("Killed")
      PROVE  "kill" \in caller \/ serve # "serving"
  <2>1. result = "Killed" /\ ~ sinkFailed
    BY <1>2, <1>3 DEF ReturnResult, End, Verdict, Returns
  <2> QED
    BY <1>2, <1>3, <2>1 DEF IInv, StopInv
<1>4. ASSUME IInv, [Next]_vars, Returns("Cancelled")
      PROVE  "term" \in caller \/ sinkFailed \/ lost
  <2>1. result = "Cancelled" \/ sinkFailed
    BY <1>2, <1>4 DEF ReturnResult, End, Verdict, Returns
  <2> QED
    BY <1>2, <1>4, <2>1 DEF IInv, StopInv
<1> QED
    BY <1>1, <1>3, <1>4, Invariance, PTL DEF Spec, TerminationIsTrue
=============================================================================
