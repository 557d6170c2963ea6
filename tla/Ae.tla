---------------------------------- MODULE Ae ----------------------------------
(* The file-event table of the event loop (ae.c, ae.h) as pure operators, and  *)
(* the two conversions between times that every user of the loop performs.     *)
(* EventLoop.tla runs the loop itself; the clients of the loop (TcpClient.tla) *)
(* update the table of their own thread with these operators.                  *)
EXTENDS Integers

\* AE_READABLE and AE_WRITABLE; AE_NONE is the empty set.
R == "R"
W == "W"
Masks == SUBSET {R, W}

\* One aeFileEvent. rfileProc and wfileProc are names of callbacks.
FileEvents(Procs, Clients) ==
  [mask : Masks, rfileProc : Procs, wfileProc : Procs, clientData : Clients]

\* aeCreateFileEvent: merge the mask, and overwrite the callbacks of the
\* directions asked for and the client data, which both directions share.
aeCreateFileEvent(events, f, mask, proc, data) ==
  [events EXCEPT ![f] =
     [mask       |-> @.mask \cup mask,
      rfileProc  |-> IF R \in mask THEN proc ELSE @.rfileProc,
      wfileProc  |-> IF W \in mask THEN proc ELSE @.wfileProc,
      clientData |-> data]]

\* aeDeleteFileEvent: only the mask changes, the callbacks stay behind.
aeDeleteFileEvent(events, f, mask) == [events EXCEPT ![f].mask = @ \ mask]

\* round(usec / 1000.0L + 0.5): one millisecond more than the whole
\* milliseconds of the wait, even when the wait is a whole number of them.
MsecToWait(usec, usecPerMsec) == usec \div usecPerMsec + 1

\* aeAddMillisecondsToNow: the loop reads its clock in whole milliseconds, so
\* the part of the current millisecond already gone is not waited for.
DueMsec(now, msec, usecPerMsec) == now \div usecPerMsec + msec
===============================================================================
