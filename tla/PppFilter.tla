------------------------------ MODULE PppFilter ------------------------------
\* PppFilter (pppfilter.cc): the handheld wants a 0x7e at the beginning and at the
\* end of every PPP frame, where pppd may let two frames share one. The filter
\* is a function of its two members and the data written; a byte is Flag (0x7e)
\* or another.
EXTENDS Integers, Sequences

CONSTANT Flag

\* m_ppp_mode, and whether m_last is 0x7e (it is 0 otherwise).
NewFilter == [ppp_mode |-> FALSE, after_flag |-> TRUE]

\* Filter: the flag that opens a frame is put in front of any byte that follows
\* the flag that closed the one before.
Put(f, b) ==
  CASE f.after_flag /\ b # Flag -> [after_flag |-> FALSE, out |-> f.out \o <<Flag, b>>]
    [] b = Flag                 -> [after_flag |-> ~f.after_flag, out |-> Append(f.out, b)]
    [] OTHER                    -> [f EXCEPT !.out = Append(@, b)]

Filter(after_flag, src) ==
  LET done[n \in 0..Len(src)] ==
        IF n = 0 THEN [after_flag |-> after_flag, out |-> << >>] ELSE Put(done[n - 1], src[n])
  IN done[Len(src)]

\* The bytes that Filter reserves in the buffer it writes to.
Needed(src) == (Len(src) \div 2) * 3 + 4

\* Write: PPP begins with the first buffer whose first byte is a flag, and never
\* ends. What was written last is remembered across buffers.
FilterWrite_forgets(f, data) ==
  IF f.ppp_mode \/ Head(data) = Flag
    THEN [filter |-> [ppp_mode |-> TRUE, after_flag |-> TRUE], out |-> Filter(TRUE, data).out]
    ELSE [filter |-> f, out |-> data]

FilterWrite(f, data) ==
  IF f.ppp_mode \/ Head(data) = Flag
    THEN LET r == Filter(f.after_flag, data)
         IN [filter |-> [ppp_mode |-> TRUE, after_flag |-> r.after_flag], out |-> r.out]
    ELSE [filter |-> f, out |-> data]
=============================================================================
