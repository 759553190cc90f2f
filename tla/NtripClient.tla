---------------------------- MODULE NtripClient ----------------------------
(***************************************************************************)
(* ntrip_client (src/src/Dgps/src/ntripclient.cpp): the thread that asks a *)
(* caster for correction data and hands them on, over UDP (RTP), RTSP or   *)
(* TCP (HTTP, NTRIP1, AUTO), and tries again until it is told to stop.     *)
(*                                                                         *)
(* Every call that can fail is a choice between its outcomes; the text of  *)
(* requests and answers is left out, but for what the code tells apart.    *)
(* stop is args->stop: the thread sets it on errors it thinks final, the   *)
(* owner sets it to end the thread.                                        *)
(*                                                                         *)
(* Bounds: MaxAttempts connection attempts.                                *)
(***************************************************************************)
EXTENDS Naturals

CONSTANT MaxAttempts

ASSUME NtripClientAssumption == MaxAttempts \in Nat \ {0}

VARIABLES
  args,      \* [mode, data, ser]: data is FALSE for a source table
  stop, error,
  at,        \* where the thread is
  sleeptime,
  sockfd,    \* "zero", "open", "failed" (-1), or "stale": closed, the number kept
  sockudp,   \* "none" or "open": the one of this attempt
  leaked,    \* UDP sockets of earlier attempts that are still open
  session,   \* what the caster keeps for us: "none", "asked", "setup", "playing"
  ended,     \* the request that ended the session in this attempt ("" when none)
  wild,      \* a number was closed that this thread had closed before
  attempts

ntVars == <<args, stop, error, at, sleeptime, sockfd, sockudp, leaked, session, ended,
            wild, attempts>>
ntConn == <<sockfd, sockudp, leaked, session, ended, wild>>
ntRest == <<args, sleeptime, attempts>>

Modes == {"UDP", "RTSP", "HTTP", "NTRIP1", "AUTO"}

NtInit ==
  /\ args \in [mode : Modes, data : BOOLEAN, ser : BOOLEAN]
  /\ stop = FALSE /\ error = FALSE
  /\ at = "start" /\ sleeptime = 0 /\ attempts = 0
  /\ sockfd = "zero" /\ sockudp = "none" /\ leaked = 0
  /\ session = "none" /\ ended = "" /\ wild = FALSE

\* What a failing call does: an error ends the attempt, stop ends the thread.
Fine == UNCHANGED <<stop, error>>
SetError == error' = TRUE /\ UNCHANGED stop
SetStop == stop' = TRUE /\ UNCHANGED error
Go(pc) == at' = pc
Ready == ~stop /\ ~error

\* The device is opened and the serial thread started; a log file that cannot be
\* opened makes the function return, which destroys the joinable thread.
NtStart ==
  /\ at = "start"
  /\ \/ Go("top")
     \/ args.ser /\ Go("terminated")
  /\ Fine /\ UNCHANGED <<ntRest, ntConn>>

\* The way an attempt takes, once it has a socket.
Way == CASE args.mode = "UDP" -> "udp"
         [] args.mode = "RTSP" /\ args.data -> "rtsp"
         [] OTHER -> "tcp"

\* The pause, then the port, the name and the socket.  A name that is not found
\* leaves sockfd as it was.
NtAttempt ==
  /\ at = "top" /\ (attempts < MaxAttempts \/ stop)
  /\ attempts' = IF stop THEN attempts ELSE attempts + 1
  /\ sleeptime' = IF sleeptime = 0 THEN 1 ELSE sleeptime + 2
  /\ session' = "none" /\ ended' = ""
  /\ \/ stop /\ Go("close") /\ stop' = stop /\ error' = FALSE /\ UNCHANGED sockfd
     \/ /\ ~stop
        /\ \/ Go("close") /\ stop' = TRUE /\ error' = FALSE /\ UNCHANGED sockfd
           \/ Go("close") /\ stop' = stop /\ error' = TRUE /\ UNCHANGED sockfd
           \/ Go("close") /\ stop' = stop /\ error' = TRUE /\ sockfd' = "failed"
           \/ Go(Way) /\ stop' = stop /\ error' = FALSE /\ sockfd' = "open"
  /\ UNCHANGED <<args, sockudp, leaked, wild>>

-----------------------------------------------------------------------------
(* UDP *)

\* The request: too long, bind or connect failed, not sent, or sent.
UdpRequest ==
  /\ at = "udp"
  /\ \/ SetStop /\ Go("close") /\ UNCHANGED session
     \/ SetError /\ Go("close") /\ UNCHANGED session
     \/ Fine /\ Go("udp_answer") /\ session' = "asked"
  /\ UNCHANGED <<ntRest, sockfd, sockudp, leaked, ended, wild>>

\* The answer: none, a stream (whose session number may be unreadable), a source
\* table (read to its end, to its last packet or not at all), or another one.
UdpAnswer ==
  /\ at = "udp_answer"
  /\ \/ Fine /\ Go("udp_close") /\ UNCHANGED session
     \/ (Fine \/ SetStop) /\ Go("udp_loop") /\ session' = "playing"
     \/ (Fine \/ SetStop \/ SetError) /\ Go("udp_loop") /\ UNCHANGED session
  /\ UNCHANGED <<ntRest, sockfd, sockudp, leaked, ended, wild>>

\* select, which may fail; then recv, on a socket that blocks.
UdpLoop ==
  /\ at = "udp_loop"
  /\ \/ Ready /\ Fine /\ Go("udp_recv")
     \/ Ready /\ SetError /\ UNCHANGED at
     \/ ~Ready /\ Fine /\ Go("udp_close")
  /\ UNCHANGED <<ntRest, ntConn>>

\* A packet is shown or dropped, the caster closes, or a keep-alive is not sent.
UdpRecv ==
  /\ at = "udp_recv"
  /\ Fine \/ SetError
  /\ Go("udp_loop")
  /\ UNCHANGED <<ntRest, ntConn>>

\* Mutant: only a client that was not stopped says goodbye.
UdpCloseUnlessStopped ==
  /\ at = "udp_close"
  /\ IF stop THEN UNCHANGED <<session, ended>> ELSE session' = "none" /\ ended' = "close"
  /\ Go("close") /\ Fine
  /\ UNCHANGED <<ntRest, sockfd, sockudp, leaked, wild>>

\* The packet of type 98; its result is not looked at.
UdpClose ==
  /\ at = "udp_close"
  /\ session' = "none" /\ ended' = "close"
  /\ Go("close") /\ Fine
  /\ UNCHANGED <<ntRest, sockfd, sockudp, leaked, wild>>

-----------------------------------------------------------------------------
(* RTSP *)

\* What is left of the attempt when SETUP is not sent: the UDP socket stays open.
Leaks(opened) == /\ Go("close")
                 /\ leaked' = leaked + opened
                 /\ UNCHANGED sockudp

\* The second socket, its port, the connection and the text of SETUP.
RtspStart ==
  /\ at = "rtsp"
  /\ \/ SetError /\ Leaks(0)
     \/ SetError /\ Leaks(1)
     \/ SetStop /\ Leaks(1)
     \/ stop /\ Fine /\ Leaks(1)
     \/ ~stop /\ Fine /\ Go("rtsp_setup") /\ sockudp' = "open" /\ UNCHANGED leaked
  /\ UNCHANGED <<ntRest, sockfd, session, ended, wild>>

\* SETUP: not sent, no answer or another one; or 200 OK, of which the port and the
\* session must be readable.
RtspSetup ==
  /\ at = "rtsp_setup"
  /\ \/ SetError /\ Go("rtsp_udp") /\ UNCHANGED session
     \/ SetStop /\ Go("rtsp_udp") /\ session' = "setup"
     \/ Fine /\ Go(IF stop THEN "rtsp_udp" ELSE "rtsp_play") /\ session' = "setup"
  /\ UNCHANGED <<ntRest, sockfd, sockudp, leaked, ended, wild>>

\* PLAY: too long, not sent, no answer; another answer than 200 OK is torn down.
RtspPlay ==
  /\ at = "rtsp_play"
  /\ \/ (SetStop \/ SetError) /\ Go("rtsp_udp") /\ UNCHANGED session
     \/ Fine /\ Go("rtsp_teardown") /\ UNCHANGED session
     \/ (Fine \/ SetError) /\ Go("rtsp_loop") /\ session' = "playing"
  /\ UNCHANGED <<ntRest, sockfd, sockudp, leaked, ended, wild>>

\* Mutant: only an error ends the loop.
RtspLoopGoesOn ==
  /\ at = "rtsp_loop"
  /\ \/ Ready /\ (Fine \/ SetError \/ SetStop) /\ UNCHANGED at
     \/ error /\ Fine /\ Go("rtsp_teardown")
  /\ UNCHANGED <<ntRest, ntConn>>

\* One turn takes at most the second of select: both sockets are non-blocking.
RtspLoop ==
  /\ at = "rtsp_loop"
  /\ \/ Ready /\ (Fine \/ SetError \/ SetStop) /\ UNCHANGED at
     \/ ~Ready /\ Fine /\ Go("rtsp_teardown")
  /\ UNCHANGED <<ntRest, ntConn>>

\* TEARDOWN, which may not be sent.
RtspTeardown ==
  /\ at = "rtsp_teardown"
  /\ Go("rtsp_udp")
  /\ ended' = "teardown"
  /\ \/ Fine /\ session' = "none"
     \/ (SetStop \/ SetError) /\ UNCHANGED session
  /\ UNCHANGED <<ntRest, sockfd, sockudp, leaked, wild>>

RtspUdp ==
  /\ at = "rtsp_udp"
  /\ sockudp' = "none"
  /\ Go("close") /\ Fine
  /\ UNCHANGED <<ntRest, sockfd, leaked, session, ended, wild>>

-----------------------------------------------------------------------------
(* TCP *)

\* connect, the text of the request, and the request.
TcpConnect ==
  /\ at = "tcp"
  /\ \/ (SetError \/ SetStop) /\ Go("close")
     \/ stop /\ Fine /\ Go("close")
     \/ ~stop /\ Fine /\ Go(IF args.data THEN "tcp_sent" ELSE "tcp_rows")
  /\ sleeptime' = IF at' = "tcp_rows" THEN 0 ELSE sleeptime
  /\ UNCHANGED <<args, attempts, ntConn>>

\* The loops look at stop and error, then call recv, which blocks.
Recv == [tcp_sent |-> "tcp_head", tcp_next |-> "tcp_data", tcp_rows |-> "tcp_table"]
TcpLoop ==
  /\ at \in DOMAIN Recv
  /\ Go(IF stop \/ (error /\ at # "tcp_rows") THEN "close" ELSE Recv[at])
  /\ Fine
  /\ UNCHANGED <<ntRest, ntConn>>

\* The caster has closed or the connection is broken.
TcpEnds ==
  /\ at \in {"tcp_head", "tcp_data", "tcp_table"}
  /\ Fine /\ Go("close")
  /\ UNCHANGED <<ntRest, ntConn>>

\* The first buffer: data without gnss/data, no 200 OK, or the old protocol where
\* HTTP was asked for.  NTRIP1 takes the whole buffer for the header; otherwise what
\* follows the header is data.
TcpHead ==
  /\ at = "tcp_head"
  /\ Fine \/ SetError \/ (args.mode = "HTTP" /\ SetStop)
  /\ \/ Go("tcp_next")
     \/ args.mode # "NTRIP1" /\ Go("tcp_write")
  /\ UNCHANGED <<ntRest, ntConn>>

TcpData ==
  /\ at = "tcp_data"
  /\ Fine /\ Go("tcp_write")
  /\ UNCHANGED <<ntRest, ntConn>>

\* The buffer: a wrong chunk is an error; a device that cannot be written stops; a
\* device that is not open is opened again and the data are lost.
TcpWrite(how) ==
  /\ at = "tcp_write"
  /\ \/ how = "written" /\ Fine
     \/ how = "chunk" /\ args.mode # "NTRIP1" /\ SetError
     \/ how = "failed" /\ args.ser /\ ~stop /\ SetStop
     \/ how = "reopened" /\ args.ser /\ Fine
  /\ Go(IF args.ser /\ ~stop' THEN "tcp_nmea" ELSE "tcp_next")
  /\ sleeptime' = 0
  /\ UNCHANGED <<args, attempts, ntConn>>

\* Lines of the device are taken until one is a GGA line, which is sent, or none is
\* left; a failure to send is only reported.
TcpNmea(last) ==
  /\ at = "tcp_nmea"
  /\ Go(IF last THEN "tcp_next" ELSE "tcp_nmea") /\ Fine
  /\ UNCHANGED <<ntRest, ntConn>>

TcpTable ==
  /\ at = "tcp_table"
  /\ Fine /\ Go("tcp_rows")
  /\ UNCHANGED <<ntRest, ntConn>>

-----------------------------------------------------------------------------
\* sockfd is closed unless it is 0; the number is kept.
Closed == CASE sockfd \in {"open", "stale"} -> "stale" [] OTHER -> sockfd

\* The end of an attempt.
NtClose ==
  /\ at = "close"
  /\ wild' = (wild \/ sockfd = "stale")
  /\ sockfd' = Closed
  /\ Go(IF args.data /\ ~stop THEN "top" ELSE IF args.ser THEN "terminated" ELSE "ended")
  /\ Fine
  /\ UNCHANGED <<ntRest, sockudp, leaked, session, ended>>

\* args->stop, set by the owner.
OwnerStops ==
  /\ ~stop /\ stop' = TRUE
  /\ UNCHANGED <<error, at, ntRest, ntConn>>

\* Where recv waits for the caster, for as long as it says nothing.
Waiting == {"udp_answer", "udp_recv", "rtsp_setup", "rtsp_play", "tcp_head", "tcp_data",
            "tcp_table"}
Over == {"ended", "terminated"}

Answers == UdpAnswer \/ UdpRecv \/ RtspSetup \/ RtspPlay \/ TcpEnds \/ TcpHead
             \/ TcpData \/ TcpTable
Runs == NtStart \/ NtAttempt \/ UdpRequest \/ UdpLoop \/ UdpClose
          \/ RtspStart \/ RtspLoop \/ RtspTeardown \/ RtspUdp
          \/ TcpConnect \/ TcpLoop \/ NtClose
Writes == \E how \in {"written", "chunk", "failed", "reopened"} : TcpWrite(how)

NtNext == Answers \/ Runs \/ Writes \/ TcpNmea(TRUE) \/ OwnerStops

NtSpec == NtInit /\ [][NtNext]_ntVars

-----------------------------------------------------------------------------
(* Properties *)

NtTypeOK ==
  /\ args \in [mode : Modes, data : BOOLEAN, ser : BOOLEAN]
  /\ stop \in BOOLEAN /\ error \in BOOLEAN /\ wild \in BOOLEAN
  /\ at \in {"start", "top", "udp", "udp_loop", "udp_close", "rtsp", "rtsp_loop",
             "rtsp_teardown", "rtsp_udp", "tcp", "tcp_write", "tcp_nmea", "close"}
             \cup Waiting \cup Over \cup DOMAIN Recv
  /\ sleeptime \in 0..(2 * MaxAttempts + 1)
  /\ sockfd \in {"zero", "open", "failed", "stale"}
  /\ sockudp \in {"none", "open"}
  /\ leaked \in 0..MaxAttempts
  /\ session \in {"none", "asked", "setup", "playing"}
  /\ ended \in {"", "close", "teardown"}
  /\ attempts \in 0..MaxAttempts

\* An attempt leaves nothing behind, whichever of its calls failed and whenever it
\* was stopped: both its sockets are closed and a stream that played was ended, by
\* the close packet ("send connection close always") or by TEARDOWN.  What the code
\* does leave: the UDP socket of an RTSP attempt that fails before SETUP, a session
\* that was set up and did not play, and a number that is closed again when the
\* name of the caster is not found.
AttemptLeavesNothing ==
  /\ NtTypeOK
  /\ at \in {"top"} \cup Over =>
       /\ sockfd # "open" /\ sockudp = "none"
       /\ args.mode = "UDP" => session = "none"
       /\ session = "playing" => ended = "teardown"
       /\ leaked > 0 \/ session = "setup" => args.mode = "RTSP"

\* Once stop is set the thread ends, or waits for the caster; a stream over RTSP
\* does not even wait.
HonoursStop ==
  /\ stop ~> (at \in Waiting \cup Over)
  /\ (stop /\ at = "rtsp_loop") ~> (at \in Over)
=============================================================================
