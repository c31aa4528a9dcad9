-------------------------------- MODULE LzHuf --------------------------------
(***************************************************************************)
(* The adaptive Huffman code and the window of a compressed TeleDisk image *)
(* (vm/disk.cpp), which is decompressed to a file before it is read.  A    *)
(* tree is kept in three arrays: nodes in the order of their counts, the   *)
(* first of a node's two sons, and the parent of a node or of a character. *)
(***************************************************************************)
EXTENDS Integers, Sequences, SequencesExt

CONSTANTS
  Literals,  \* 256: characters from here on are lengths
  Threshold, \* 2: no shorter text is copied
  Lookahead, \* 60: nor a longer one
  Window,    \* 4096: how far back a copy may begin
  MaxFreq,   \* 0x8000: a root that has counted this far is halved
  InSize,    \* 512: bytes read at a time
  OutSize,   \* 512: bytes decoded at a time
  Positions, \* where an encoder finds text
  MaxCodes   \* bound: codes in a file

NChar == (Literals - Threshold) + Lookahead
Table == 2 * NChar - 1
Root == Table - 1
Chars == 0..(NChar - 1)
LzHufAssumption ==
  /\ {Literals, Threshold, Lookahead, Window, MaxFreq, InSize, OutSize, MaxCodes} \subseteq Nat \ {0}
  /\ Threshold < Lookahead /\ Lookahead < Window /\ NChar < MaxFreq /\ Positions \subseteq 0..4095

VARIABLES
  given,  \* the encoder's text, bits, tree and whether the file is closed
  made    \* the decoder, what it has written, and where td_decode is

lzVars == <<given, made>>

(* --------------------------------- tree -------------------------------- *)
Parents(son) ==
  [n \in 0..(Table + NChar - 1) |->
     IF n = Root THEN 0
     ELSE CHOOSE i \in 0..Root : son[i] = n \/ (son[i] < Table /\ son[i] + 1 = n)]
Tree(freq, son) == [freq |-> freq, son |-> son, prnt |-> Parents(son)]

StartHuff ==
  LET Son(i) == IF i < NChar THEN i + Table ELSE 2 * (i - NChar)
      freq[i \in 0..Table] == IF i = Table THEN 65535 ELSE IF i < NChar THEN 1
                              ELSE freq[Son(i)] + freq[Son(i) + 1]
  IN Tree(freq, [i \in 0..Root |-> Son(i)])

\* Every leaf's count is halved, and the inner nodes are made anew, each at its
\* place among those there are.
Reconst(h) ==
  LET leaves == SelectSeq([i \in 1..Table |-> i - 1], LAMBDA i : h.son[i] >= Table)
      start  == [freq |-> [n \in DOMAIN leaves |-> (h.freq[leaves[n]] + 1) \div 2],
                 son  |-> [n \in DOMAIN leaves |-> h.son[leaves[n]]]]
      Join(acc, i) ==
        LET f == acc.freq[i + 1] + acc.freq[i + 2]
            k == Len(SelectSeq(acc.freq, LAMBDA g : g <= f)) + 1
        IN [freq |-> InsertAt(acc.freq, k, f), son |-> InsertAt(acc.son, k, i)]
      all == FoldLeft(Join, start, [n \in 1..(NChar - 1) |-> 2 * (n - 1)])
  IN Tree([i \in 0..Table |-> IF i = Table THEN 65535 ELSE all.freq[i + 1]],
          [i \in 0..Root |-> all.son[i + 1]])

\* One more at a node: it changes places with the last node that counts less,
\* and its sons' parents with it; and so on for its parent.
RECURSIVE Climb(_, _)
Climb(h, c) ==
  LET k == h.freq[c] + 1
      l == CHOOSE m \in c..Root : h.freq[m] < k /\ h.freq[m + 1] >= k
      Sons(i) == IF i < Table THEN {i, i + 1} ELSE {i}
      up == IF l = c THEN [h EXCEPT !.freq[c] = k]
            ELSE [freq |-> [h.freq EXCEPT ![c] = h.freq[l], ![l] = k],
                  son  |-> [h.son EXCEPT ![c] = h.son[l], ![l] = h.son[c]],
                  prnt |-> [n \in DOMAIN h.prnt |-> IF n \in Sons(h.son[c]) THEN l
                                                    ELSE IF n \in Sons(h.son[l]) THEN c ELSE h.prnt[n]]]
      next == up.prnt[l]
  IN IF next = 0 THEN up ELSE Climb(up, next)

Update(h, c) ==
  LET full == IF h.freq[Root] = MaxFreq THEN Reconst(h) ELSE h
  IN Climb(full, full.prnt[c + Table])

(* ----------------------------- the bits read --------------------------- *)
Bit(b, i) == (b \div 2^i) % 2
Byte(b) == [i \in 1..8 |-> Bit(b, 8 - i)]
RECURSIVE Value(_)
Value(bits) == IF bits = <<>> THEN 0 ELSE 2 * Value(Front(bits)) + bits[Len(bits)]

\* td_next_word: more than eight bits are kept, but none is given when no byte
\* is left to read. A place of the buffer that was not filled is 0.
Refilled(r) ==
  IF r.ndx < r.cnt THEN r
  ELSE LET n == IF Len(r.file) < InSize THEN Len(r.file) ELSE InSize
       IN [r EXCEPT !.buf = SubSeq(r.file, 1, n), !.file = SubSeq(r.file, n + 1, Len(r.file)),
                    !.ndx = 0, !.cnt = n]
RECURSIVE Filled(_)
Filled(r) ==
  IF Len(r.bits) > 8 THEN r
  ELSE Filled([r EXCEPT !.bits = @ \o Byte(IF r.ndx < r.cnt THEN r.buf[r.ndx + 1] ELSE 0),
                        !.past = @ \/ r.ndx >= InSize, !.ndx = @ + 1])
NextWord(r) == LET f == Refilled(r) IN IF f.cnt = 0 THEN [f EXCEPT !.end = TRUE] ELSE Filled(f)
\* The next n bits, one or eight at a time, as a number.
Get(r, n) ==
  LET f == NextWord(r)
  IN IF f.end THEN [r |-> f, v |-> 0]
     ELSE [r |-> [f EXCEPT !.bits = SubSeq(@, n + 1, Len(@))], v |-> Value(SubSeq(f.bits, 1, n))]

RECURSIVE Walk(_, _, _)
Walk(r, h, c) ==
  IF c >= Table \/ r.end THEN [r |-> r, v |-> c - Table]
  ELSE LET b == Get(r, 1) IN Walk(b.r, h, IF b.r.end THEN c ELSE h.son[c + b.v])
DecodeChar(r, h) == Walk(r, h, h.son[Root])

\* td_d_len and td_d_code: of the first eight bits, how many are the code of a
\* position's upper six, and the code.
DLen(i) == IF i < 32 THEN 3 ELSE IF i < 80 THEN 4 ELSE IF i < 144 THEN 5
           ELSE IF i < 192 THEN 6 ELSE IF i < 240 THEN 7 ELSE 8
DCode(i) == IF i < 32 THEN 0 ELSE IF i < 80 THEN 1 + (i - 32) \div 16 ELSE IF i < 144 THEN 4 + (i - 80) \div 8
            ELSE IF i < 192 THEN 12 + (i - 144) \div 4 ELSE IF i < 240 THEN 24 + (i - 192) \div 2
            ELSE 48 + (i - 240)
RECURSIVE More(_, _, _)
More(r, i, n) == IF n = 0 \/ r.end THEN [r |-> r, v |-> i % 64]
                 ELSE LET b == Get(r, 1) IN More(b.r, 2 * i + b.v, n - 1)
Joined(first, low) == [r |-> low.r, v |-> 64 * DCode(first.v) + low.v]
Lower(first) == Joined(first, More(first.r, first.v, DLen(first.v) - 2))
DecodePosition(r) == Lower(Get(r, 8))

(* ------------------------------ the text ------------------------------- *)
InitDecode(file) ==
  [r |-> [file |-> file, buf |-> <<>>, ndx |-> 0, cnt |-> 0, bits |-> <<>>, end |-> FALSE, past |-> FALSE],
   tree |-> StartHuff, text |-> [i \in 0..(Window - 1) |-> 0], ptr |-> Window - Lookahead,
   pos |-> 0, ndx |-> 0, cnt |-> 0, out |-> <<>>, room |-> OutSize, had |-> 0, ended |-> FALSE]
Put(d, c) == [d EXCEPT !.text[d.ptr] = c, !.ptr = (@ + 1) % Window, !.out = Append(@, c)]

(* ------------------------------- actions ------------------------------- *)
\* The encoder: the path to a character, and the code of a position.
RECURSIVE Path(_, _, _)
Path(h, k, bits) == IF k = Root THEN bits ELSE Path(h, h.prnt[k], <<k % 2>> \o bits)
PositionBits(p) ==
  LET i == CHOOSE i \in 0..255 : DCode(i) = p \div 64 /\ \A j \in 0..(i - 1) : DCode(j) # p \div 64
  IN SubSeq(Byte(i), 1, DLen(i)) \o SubSeq(Byte(p % 64), 3, 8)
RECURSIVE Copied(_, _, _)
Copied(text, back, n) ==
  IF n = 0 THEN text
  ELSE LET at == Len(text) - back
       IN Copied(Append(text, IF at > 0 THEN text[at] ELSE 0), back, n - 1)

Init ==
  /\ given = [text |-> <<>>, bits |-> <<>>, tree |-> StartHuff, codes |-> 0, closed |-> FALSE]
  /\ made = InitDecode(<<>>)

Encode(c) ==
  /\ ~given.closed /\ given.codes < MaxCodes
  /\ \E p \in IF c < Literals THEN {0} ELSE Positions :
       given' = [given EXCEPT
         !.text = IF c < Literals THEN Append(@, c)
                  ELSE Copied(@, p % Window, c - (Literals - 1) + Threshold),
         !.bits = @ \o Path(given.tree, given.tree.prnt[c + Table], <<>>)
                    \o (IF c < Literals THEN <<>> ELSE PositionBits(p)),
         !.tree = Update(@, c), !.codes = @ + 1]
  /\ UNCHANGED made

\* The file ends with two bytes that are only there to be read ahead.
CloseFile ==
  /\ ~given.closed /\ given.codes > 0
  /\ given' = [given EXCEPT !.closed = TRUE]
  /\ LET padded == given.bits \o [i \in 1..(16 + ((-Len(given.bits)) % 8)) |-> 1]
     IN made' = InitDecode([n \in 1..(Len(padded) \div 8) |-> Value(SubSeq(padded, 8 * n - 7, 8 * n))])

\* td_decode: a character, or where a copy begins.
Located(d, p, length) ==
  IF p.r.end THEN [d EXCEPT !.r = p.r, !.room = 0]
  ELSE [d EXCEPT !.r = p.r, !.pos = (d.ptr - p.v - 1) % Window, !.ndx = 0, !.cnt = length]
Begun(d, a) ==
  IF a.v < Literals THEN [Put(d, a.v) EXCEPT !.r = a.r, !.room = @ - 1]
  ELSE Located(d, DecodePosition(a.r), a.v - (Literals - 1) + Threshold)
Decoded(d, a) ==
  IF a.r.end THEN [d EXCEPT !.r = a.r, !.room = 0] ELSE Begun([d EXCEPT !.tree = Update(@, a.v)], a)
DecodeCode ==
  /\ given.closed /\ ~made.ended /\ made.room > 0 /\ made.cnt = 0
  /\ made' = Decoded(made, DecodeChar(made.r, made.tree))
  /\ UNCHANGED given

\* What is copied may be what the copy has written. A copy that does not fit
\* goes on in the next call.
CopyText ==
  /\ made.room > 0 /\ made.cnt > 0
  /\ LET n == [Put(made, made.text[(made.pos + made.ndx) % Window]) EXCEPT !.room = @ - 1]
     IN made' = IF made.ndx + 1 = made.cnt THEN [n EXCEPT !.ndx = 0, !.cnt = 0] ELSE [n EXCEPT !.ndx = @ + 1]
  /\ UNCHANGED given

\* "do { td_decode } while(rd > 0)".
NextCall ==
  /\ made.room = 0 /\ ~made.ended
  /\ made' = [made EXCEPT !.room = OutSize, !.had = Len(made.out), !.ended = Len(made.out) = made.had]
  /\ UNCHANGED given

Next == (\E c \in Chars : Encode(c)) \/ CloseFile \/ DecodeCode \/ CopyText \/ NextCall
Spec == Init /\ [][Next]_lzVars

(* ------------------------------ properties ----------------------------- *)
TypeOK ==
  /\ given.text \in Seq(0..(Literals - 1)) /\ given.bits \in Seq({0, 1}) /\ made.out \in Seq(0..(Literals - 1))
  /\ given.codes \in 0..MaxCodes /\ {given.closed, made.ended} \subseteq BOOLEAN

\* The nodes are in the order of their counts, a node counts what its sons do,
\* and is the parent of them.
TreeIsWhole ==
  LET h == made.tree
      Inner == {i \in 0..Root : h.son[i] < Table}
  IN /\ \A i \in 0..(Root - 1) : h.freq[i] <= h.freq[i + 1]
     /\ \A i \in Inner : h.freq[i] = h.freq[h.son[i]] + h.freq[h.son[i] + 1]
     /\ \A i \in 0..Root : h.prnt[h.son[i]] = i /\ (i \in Inner => h.prnt[h.son[i] + 1] = i)

\* The text comes out as it went in, to its end; what comes after are the bits
\* that fill the last bytes.
TextIsWhole ==
  /\ ~made.r.past
  /\ IF Len(made.out) <= Len(given.text) THEN IsPrefix(made.out, given.text) ELSE IsPrefix(given.text, made.out)
  /\ made.ended => IsPrefix(given.text, made.out)
==============================================================================
