------------------------------ MODULE DgpsNode ------------------------------
(***************************************************************************)
(* The DGPS node: ntrip_client in NTRIP1 mode on a thread of its own, the  *)
(* serial thread ntrserial_client, and the node's timer, which publishes   *)
(* the receiver's lines.  The serial thread appends what it reads to       *)
(* g_nmea, which the timer takes lines from, and to sbuf, which            *)
(* ntrip_client takes GGA lines from.                                      *)
(*                                                                         *)
(* A line of the receiver is two pieces, the second with the newline; a    *)
(* read returns any number of pieces.  Lines with odd numbers are GGA      *)
(* lines.  Both takers look for the newline without the lock that append   *)
(* holds.  Appending may move the string, so a search during an append can *)
(* read freed memory: the line is then cut at a wrong place, and what is   *)
(* cut does not match any expression.                                      *)
(*                                                                         *)
(* Bounds: MaxPieces pieces from the receiver, a device that appears once. *)
(***************************************************************************)
EXTENDS NtripClient, Sequences

CONSTANT MaxPieces

ASSUME DgpsNodeAssumption == MaxPieces \in Nat

VARIABLES
  node,      \* "up", "joining" (in the destructor), "gone"
  sx,        \* [open: isOpen, opens: calls of open that succeeded]
  plugged,   \* the device is there
  produced,  \* pieces the receiver has sent
  tty,       \* pieces the kernel holds
  reader,    \* the serial thread: [at, got]
  opening,   \* what TcpWrite found isOpen to be, until it calls SerialInit
  g_nmea, sbuf,
  published, \* lines the timer published
  sent       \* GGA lines sent to the caster

dgOwn == <<node, sx, plugged, produced, tty, reader, opening, g_nmea, sbuf,
           published, sent>>
dgVars == <<ntVars, dgOwn>>
dgSerial == <<sx, plugged, produced, tty, opening>>
dgLines == <<g_nmea, sbuf, published, sent>>

Piece == (1..MaxPieces) \X {"a", "b"}
PieceNo(n) == IF n % 2 = 1 THEN <<(n + 1) \div 2, "a">> ELSE <<n \div 2, "b">>
IsGGA(line) == line[1][1] % 2 = 1 /\ line[1][2] = "a"

\* The node before its threads run.
DgRest ==
  /\ node = "up"
  /\ sx = [open |-> FALSE, opens |-> 0]
  /\ plugged \in BOOLEAN
  /\ produced = 0 /\ tty = <<>>
  /\ reader = [at |-> "loop", got |-> <<>>]
  /\ opening = FALSE
  /\ g_nmea = <<>> /\ sbuf = <<>> /\ published = <<>> /\ sent = <<>>

\* The constructor's args: NTRIP1 and a mount point; serialPort may be empty.
DgInit == NtInit /\ args.mode = "NTRIP1" /\ args.data /\ DgRest

Up == at # "terminated" /\ node # "gone"
SerialThread == args.ser /\ at # "start"

\* The receiver sends whether or not anybody reads; the kernel keeps what is sent to
\* an open device.
Receiver ==
  /\ plugged /\ produced < MaxPieces
  /\ produced' = produced + 1
  /\ tty' = IF sx.open THEN Append(tty, PieceNo(produced + 1)) ELSE tty
  /\ UNCHANGED <<ntVars, node, sx, plugged, reader, opening, dgLines>>

\* The device may appear late, and be lost.
Plug ==
  /\ ~plugged /\ sx.opens = 0
  /\ plugged' = TRUE
  /\ UNCHANGED <<ntVars, node, sx, produced, tty, reader, opening, dgLines>>

Unplug ==
  /\ plugged
  /\ plugged' = FALSE /\ tty' = <<>>
  /\ UNCHANGED <<ntVars, node, sx, produced, reader, opening, dgLines>>

\* SerialInit flushes what the kernel holds, and does not close an earlier stream.
SerialInit ==
  IF plugged THEN sx' = [open |-> TRUE, opens |-> sx.opens + 1] /\ tty' = <<>>
             ELSE sx' = [sx EXCEPT !.open = FALSE] /\ UNCHANGED tty

-----------------------------------------------------------------------------
(* ntrserial_client *)

\* A device that is not open is opened.
ReaderOpens ==
  /\ SerialThread /\ reader.at = "loop" /\ ~stop
  /\ ~sx.open
  /\ reader' = [reader EXCEPT !.at = "init"]
  /\ UNCHANGED <<ntVars, node, dgSerial, dgLines>>

ReaderInit ==
  /\ reader.at = "init"
  /\ SerialInit
  /\ reader' = [reader EXCEPT !.at = "loop"]
  /\ UNCHANGED <<ntVars, node, plugged, produced, opening, dgLines>>

\* SerialRead.  A device that is gone is an error that is only reported.
ReaderReads ==
  /\ SerialThread /\ reader.at = "loop" /\ ~stop
  /\ sx.open
  /\ \E n \in 1..Len(tty) :
       /\ reader' = [at |-> "nmea", got |-> SubSeq(tty, 1, n)]
       /\ tty' = SubSeq(tty, n + 1, Len(tty))
  /\ UNCHANGED <<ntVars, node, sx, plugged, produced, opening, dgLines>>

\* appendNMEA, then sbuf; "nmea" and "sbuf" are the times the locks are held.
ReaderAppends ==
  /\ \/ /\ reader.at = "nmea"
        /\ g_nmea' = g_nmea \o reader.got
        /\ reader' = [reader EXCEPT !.at = "sbuf"]
        /\ UNCHANGED sbuf
     \/ /\ reader.at = "sbuf"
        /\ sbuf' = sbuf \o reader.got
        /\ reader' = [at |-> "loop", got |-> <<>>]
        /\ UNCHANGED g_nmea
  /\ UNCHANGED <<ntVars, node, dgSerial, published, sent>>

Reader == ReaderOpens \/ ReaderInit \/ ReaderReads \/ ReaderAppends

-----------------------------------------------------------------------------
(* Taking a line *)

Newlines(q) == {k \in DOMAIN q : q[k][2] = "b"}
HasLine(q) == Newlines(q) # {}

\* Mutant: the last newline.
LastNewline(q) == CHOOSE k \in Newlines(q) : \A j \in Newlines(q) : k >= j

FirstNewline(q) == CHOOSE k \in Newlines(q) : \A j \in Newlines(q) : k <= j
Candidate(q) == SubSeq(q, 1, FirstNewline(q))
Rest(q) == SubSeq(q, FirstNewline(q) + 1, Len(q))

\* getGpsMsg: the expressions begin with the start of a line and look at no checksum.
Matches(line) == \E k \in DOMAIN line : line[k][2] = "a"

\* timer_callback: getNmea, and a message of the kind the line matches.
timer_callback ==
  /\ node = "up"
  /\ HasLine(g_nmea)
  /\ g_nmea' = Rest(g_nmea)
  /\ LET line == Candidate(g_nmea) IN
     \/ Matches(line) /\ published' = Append(published, line)
     \/ (~Matches(line) \/ reader.at = "nmea") /\ UNCHANGED published
  /\ UNCHANGED <<ntVars, node, dgSerial, reader, sbuf, sent>>

\* One turn of ntrip_client's loop over sbuf.
TakeLine ==
  /\ \/ ~HasLine(sbuf) /\ TcpNmea(TRUE) /\ UNCHANGED <<sbuf, sent>>
     \/ /\ HasLine(sbuf)
        /\ sbuf' = Rest(sbuf)
        /\ LET line == Candidate(sbuf) IN
           \/ IsGGA(line) /\ TcpNmea(TRUE) /\ sent' = Append(sent, line)
           \/ ~IsGGA(line) /\ TcpNmea(FALSE) /\ UNCHANGED sent
           \/ reader.at = "sbuf" /\ TcpNmea(FALSE) /\ UNCHANGED sent
  /\ UNCHANGED <<node, dgSerial, reader, g_nmea, published>>

-----------------------------------------------------------------------------
(* ntrip_client's other steps *)

\* SerialInit when the thread starts; it goes on when the device is not there.
ClientStarts ==
  /\ NtStart
  /\ IF args.ser THEN SerialInit ELSE UNCHANGED <<sx, tty>>
  /\ UNCHANGED <<node, plugged, produced, reader, opening, dgLines>>

\* SerialWrite looks at isOpen first; SerialInit follows on a device that was not.
ClientWrites ==
  /\ \/ /\ args.ser /\ ~stop /\ at = "tcp_write"
        /\ ~sx.open /\ ~opening
        /\ opening' = TRUE
        /\ UNCHANGED <<ntVars, sx, tty>>
     \/ opening /\ TcpWrite("reopened") /\ SerialInit /\ opening' = FALSE
     \/ /\ ~opening
        /\ \/ TcpWrite("written") /\ (stop \/ ~args.ser \/ (sx.open /\ plugged))
           \/ TcpWrite("failed") /\ sx.open /\ ~plugged
        /\ UNCHANGED <<sx, tty, opening>>
  /\ UNCHANGED <<node, plugged, produced, reader, dgLines>>

ClientRuns ==
  /\ at # "start"
  /\ Runs \/ Answers
  /\ UNCHANGED <<node, dgSerial, reader, dgLines>>

\* ~DGpsHmw: stop, join, and the announcement; the thread that destroys the
\* joinable serial thread ends the process first.
Destructor ==
  /\ \/ node = "up" /\ node' = "joining" /\ stop' = TRUE
     \/ node = "joining" /\ at = "ended" /\ node' = "gone" /\ UNCHANGED stop
  /\ UNCHANGED <<error, at, ntRest, ntConn, dgSerial, reader, dgLines>>

DgNext ==
  /\ Up
  /\ Receiver \/ Plug \/ Unplug \/ Reader \/ timer_callback \/ TakeLine
       \/ ClientStarts \/ ClientWrites \/ ClientRuns \/ Destructor

DgSpec == DgInit /\ [][DgNext]_dgVars

-----------------------------------------------------------------------------
(* Properties *)

DgTypeOK ==
  /\ NtTypeOK
  /\ node \in {"up", "joining", "gone"}
  /\ sx \in [open : BOOLEAN, opens : 0..2]
  /\ plugged \in BOOLEAN /\ opening \in BOOLEAN
  /\ produced \in 0..MaxPieces
  /\ \A q \in {tty, reader.got, g_nmea, sbuf} : \A k \in DOMAIN q : q[k] \in Piece
  /\ reader.at \in {"loop", "init", "nmea", "sbuf"}

WholeLine(line) == Len(line) = 2 /\ line[1] = <<line[2][1], "a">> /\ line[2][2] = "b"
Rising(lines) == \A i, j \in DOMAIN lines : i < j =>
                   lines[i][Len(lines[i])][1] < lines[j][Len(lines[j])][1]

\* What the node publishes and what it sends to the caster are whole lines of the
\* receiver, in their order and none twice, although three threads work on the two
\* strings and the searches are not locked.  A line can be lost, and joined with the
\* next one when both threads have opened the device: the second SerialInit
\* throws away what the kernel holds of a line that was begun.
WholeLines ==
  /\ DgTypeOK
  /\ Rising(published) /\ Rising(sent)
  /\ sx.opens <= 1 =>
       /\ \A k \in DOMAIN published : WholeLine(published[k])
       /\ \A k \in DOMAIN sent : WholeLine(sent[k])
=============================================================================
