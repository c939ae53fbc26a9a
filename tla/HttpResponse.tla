---------------------------- MODULE HttpResponse ----------------------------
(***************************************************************************)
(* getHTTPResponse of src/lib/Microgear/AuthClient.c: the answer of the    *)
(* authentication server, read in chunks into one buffer.  A response is a *)
(* sequence of characters; a line that begins with STATUS or LENGTH is a   *)
(* status line or a Content-Length, whose value is its next character.     *)
(***************************************************************************)
EXTENDS Integers, SequencesExt

CR == 13
LF == 10
STATUS == 1
LENGTH == 2
NoValue == -1        \* httpstatus and clen before any line
INT_NULL == -2       \* the line has another key

\* strtol makes 0 of a line without a value.
headerParseLong(key, line) ==
  IF line = <<>> \/ line[1] # key THEN INT_NULL ELSE IF Len(line) = 1 THEN 0 ELSE line[2]

\* Where b has a CRLF; where the line begins that ends at i; the line; and what follows
\* the last CRLF.
Ends(b) == {i \in 1..(Len(b) - 1) : b[i] = CR /\ b[i + 1] = LF}
LineFrom(b, i) ==
  LET before == {j \in Ends(b) : j < i}
  IN IF before = {} THEN 1 ELSE Max(before) + 2
Line(b, i) == SubSeq(b, LineFrom(b, i), i - 1)
Rest(b) == Line(b, Len(b) + 1)

\* The ends of the lines of b that begin with key, and what the first of them gives.
Valued(b, key) == {i \in Ends(b) : headerParseLong(key, Line(b, i)) # INT_NULL}
ValueOf(b, key) == headerParseLong(key, Line(b, Min(Valued(b, key))))

Start == [buff |-> <<>>, header |-> TRUE, status |-> NoValue, clen |-> NoValue]

\* A mutation: an unfinished line is not kept for the next chunk.
ChunkForgetful(s, chunk) ==
  LET b == s.buff \o chunk
      inHeader == \A i \in Ends(b) : Line(b, i) # <<>>
  IN IF ~s.header THEN [s EXCEPT !.buff = b]
     ELSE [buff |-> IF inHeader THEN <<>> ELSE Rest(b),
           header |-> inHeader,
           status |-> IF s.status = NoValue /\ Ends(b) # {}
                      THEN headerParseLong(STATUS, Line(b, Min(Ends(b)))) ELSE s.status,
           clen |-> IF s.clen < 0 /\ Valued(b, LENGTH) # {}
                    THEN ValueOf(b, LENGTH) ELSE s.clen]

\* One read: while the header lasts, every line that ends in the buffer is looked at,
\* also those behind the empty line, and what follows the last one is kept.
Chunk(s, chunk) ==
  LET b == s.buff \o chunk
  IN IF ~s.header THEN [s EXCEPT !.buff = b]
     ELSE [buff |-> Rest(b),
           header |-> \A i \in Ends(b) : Line(b, i) # <<>>,
           status |-> IF s.status = NoValue /\ Ends(b) # {}
                      THEN headerParseLong(STATUS, Line(b, Min(Ends(b)))) ELSE s.status,
           clen |-> IF s.clen >= 0 \/ Ends(b) = {} THEN s.clen
                    ELSE IF Valued(b, LENGTH) = {} THEN INT_NULL ELSE ValueOf(b, LENGTH)]

\* The body is cut at the length that was announced.
getHTTPResponse(chunks) ==
  LET state[n \in 0..Len(chunks)] == IF n = 0 THEN Start ELSE Chunk(state[n - 1], chunks[n])
      s == state[Len(chunks)]
  IN [httpstatus |-> s.status,
      body |-> IF s.clen >= 0 /\ s.clen < Len(s.buff) THEN SubSeq(s.buff, 1, s.clen) ELSE s.buff]
=============================================================================
