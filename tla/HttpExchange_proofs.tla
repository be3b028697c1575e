------------------------- MODULE HttpExchange_proofs --------------------------
(***************************************************************************)
(* Theorems about HttpExchange: the responses, for any headers, statuses   *)
(* and bodies a handler makes, and http_request_parse, for any messages    *)
(* whose lines are those of their bytes, any split of the bytes over the   *)
(* reads and any chunk size; both for any number of exchanges with the     *)
(* same structures.                                                        *)
(***************************************************************************)
EXTENDS HttpExchange, Lists_proofs

-----------------------------------------------------------------------------
(* Arrays of headers.                                                      *)

HasName(h, name) == \E i \in 1..h.length : h.slots[i].name = name

\* No name is in use twice.
OneEach(h) == \A i, j \in 1..h.length : h.slots[i].name = h.slots[j].name => i = j

LEMMA HeadersAre ==
    ASSUME NEW N, NEW V, NEW h \in HeadersOf(N, V)
    PROVE  /\ h = [slots |-> h.slots, length |-> h.length]
           /\ h.slots \in Seq([name : N, values : Seq(V)]) /\ Len(h.slots) \in Nat
           /\ h.length \in Nat /\ h.length <= Len(h.slots)
           /\ \A i \in 1..h.length : /\ i \in 1..Len(h.slots)
                                     /\ h.slots[i] \in [name : N, values : Seq(V)]
<1>1. /\ h = [slots |-> h.slots, length |-> h.length]
      /\ h.slots \in Seq([name : N, values : Seq(V)])
      /\ h.length \in Nat /\ h.length <= Len(h.slots)
  BY DEF HeadersOf
<1>2. Len(h.slots) \in Nat
  BY <1>1
<1>3. \A i \in 1..h.length : i \in 1..Len(h.slots)
  BY <1>1, <1>2
<1>4. \A i \in 1..Len(h.slots) : h.slots[i] \in [name : N, values : Seq(V)]
  <2>1. \A S : \A s \in Seq(S) : \A i \in 1..Len(s) : s[i] \in S
    OBVIOUS
  <2>2. QED
    BY <1>1, <2>1
<1>5. QED
  BY <1>1, <1>2, <1>3, <1>4

\* http_headers_get_cstr finds a header of that name, if there is one.
LEMMA GetIs ==
    ASSUME NEW N, NEW V, NEW h \in HeadersOf(N, V), NEW name
    PROVE  \/ HeadersGet(h, name) = 0 /\ ~HasName(h, name)
           \/ /\ HeadersGet(h, name) \in 1..h.length /\ HeadersGet(h, name) # 0
              /\ h.slots[HeadersGet(h, name)].name = name
<1> DEFINE found == {i \in 1..h.length : h.slots[i].name = name}
<1>1. HeadersGet(h, name) = IF found = {} THEN 0
                            ELSE CHOOSE i \in found : \A j \in found : i <= j
  BY DEF HeadersGet
<1>2. CASE found = {}
  BY <1>1, <1>2 DEF HasName
<1>3. CASE found # {}
  <2>1. h.length \in Nat
    BY HeadersAre
  <2>2. found \in SUBSET Nat
    BY <2>1
  <2>3. \E i \in found : \A j \in found : i <= j
    BY <1>3, <2>2, LeastNatural
  <2>4. HeadersGet(h, name) \in found
    BY <1>1, <1>3, <2>3
  <2>5. QED
    BY <2>1, <2>4
<1>4. QED
  BY <1>2, <1>3

LEMMA AddIs ==
    ASSUME NEW N, NEW V, NEW h \in HeadersOf(N, V), NEW name \in N
    PROVE  LET g == HeadersAdd(h, name)
           IN  /\ g \in HeadersOf(N, V) /\ g.length = h.length + 1
               /\ \A i \in 1..h.length : g.slots[i] = h.slots[i]
               /\ g.slots[h.length + 1] = [name |-> name, values |-> <<>>]
<1> DEFINE new == [name |-> name, values |-> <<>>]
           g == HeadersAdd(h, name)
<1>1. /\ h.slots \in Seq([name : N, values : Seq(V)]) /\ Len(h.slots) \in Nat
      /\ h.length \in Nat /\ h.length <= Len(h.slots)
  BY HeadersAre
<1>2. new \in [name : N, values : Seq(V)]
  OBVIOUS
<1> HIDE DEF new
<1>3. CASE h.length = Len(h.slots)
  <2>1. g = [slots |-> Append(h.slots, new), length |-> h.length + 1]
    BY <1>3 DEF HeadersAdd, new
  <2>2. /\ Append(h.slots, new) \in Seq([name : N, values : Seq(V)])
        /\ Len(Append(h.slots, new)) = h.length + 1
        /\ \A i \in 1..h.length : Append(h.slots, new)[i] = h.slots[i]
        /\ Append(h.slots, new)[h.length + 1] = new
    BY <1>1, <1>2, <1>3
  <2> HIDE DEF g
  <2>3. g \in HeadersOf(N, V)
    BY <1>1, <2>1, <2>2 DEF HeadersOf
  <2>4. /\ g \in HeadersOf(N, V) /\ g.length = h.length + 1
        /\ \A i \in 1..h.length : g.slots[i] = h.slots[i]
        /\ g.slots[h.length + 1] = new
    BY <2>1, <2>2, <2>3
  <2>5. QED
    BY <2>4 DEF g, new
<1>4. CASE h.length < Len(h.slots)
  <2> DEFINE s == [h.slots EXCEPT ![h.length + 1] = new]
  <2>1. g = [slots |-> s, length |-> h.length + 1]
    BY <1>1, <1>4 DEF HeadersAdd, new
  <2>2. /\ s \in Seq([name : N, values : Seq(V)]) /\ Len(s) = Len(h.slots)
        /\ \A i \in 1..h.length : s[i] = h.slots[i]
        /\ s[h.length + 1] = new
    BY <1>1, <1>2, <1>4
  <2> HIDE DEF g, s
  <2>3. g \in HeadersOf(N, V)
    BY <1>1, <1>4, <2>1, <2>2 DEF HeadersOf
  <2>4. QED
    BY <2>1, <2>2, <2>3 DEF g, new
<1>5. QED
  BY <1>1, <1>3, <1>4

\* http_headers_get_cstr(headers, name, 1).
LEMMA EnsureIs ==
    ASSUME NEW N, NEW V, NEW h \in HeadersOf(N, V), NEW name \in N, OneEach(h)
    PROVE  LET g == HeadersEnsure(h, name)
               at == HeadersGet(g, name)
           IN  /\ g \in HeadersOf(N, V) /\ OneEach(g) /\ h.length <= g.length
               /\ at \in 1..g.length /\ g.slots[at].name = name
               /\ \A i \in 1..g.length : i # at => i \in 1..h.length
               /\ \A i \in 1..h.length : g.slots[i] = h.slots[i]
               /\ \/ HasName(h, name) /\ g = h
                  \/ /\ ~HasName(h, name) /\ at = h.length + 1 /\ g.length = h.length + 1
                     /\ g.slots[at].values = <<>>
<1> DEFINE g == HeadersEnsure(h, name)
           at == HeadersGet(g, name)
<1>1. /\ h.slots \in Seq([name : N, values : Seq(V)]) /\ Len(h.slots) \in Nat
      /\ h.length \in Nat /\ h.length <= Len(h.slots)
  BY HeadersAre
<1>2. CASE HasName(h, name)
  <2>1. HeadersGet(h, name) # 0 /\ HeadersGet(h, name) \in 1..h.length
        /\ h.slots[HeadersGet(h, name)].name = name
    BY <1>2, GetIs
  <2>2. g = h
    BY <2>1 DEF HeadersEnsure
  <2>3. QED
    BY <1>1, <1>2, <2>1, <2>2
<1>3. CASE ~HasName(h, name)
  <2>1. g = HeadersAdd(h, name)
    BY <1>3, GetIs DEF HeadersEnsure, HasName
  <2>2. /\ g \in HeadersOf(N, V) /\ g.length = h.length + 1
        /\ \A i \in 1..h.length : g.slots[i] = h.slots[i]
        /\ g.slots[h.length + 1] = [name |-> name, values |-> <<>>]
    BY <2>1, AddIs
  <2> HIDE DEF g
  <2>a. \A i \in 1..g.length : i # h.length + 1 => i \in 1..h.length
    BY <1>1, <2>2
  <2>b. \A i \in 1..h.length : g.slots[i].name # name
    BY <1>3, <2>2 DEF HasName
  <2>3. \A i \in 1..g.length : i # h.length + 1 => i \in 1..h.length /\ g.slots[i].name # name
    BY <2>a, <2>b
  <2>4. h.length + 1 \in 1..g.length /\ g.slots[h.length + 1].name = name
    BY <1>1, <2>2
  <2>5. OneEach(g)
    BY <1>1, <2>2, <2>3, <2>4 DEF OneEach
  <2>6. HasName(g, name)
    BY <2>4 DEF HasName
  <2>7. at \in 1..g.length /\ g.slots[at].name = name
    BY <2>2, <2>6, GetIs
  <2>8. at = h.length + 1
    BY <2>3, <2>7
  <2> HIDE DEF at
  <2>9. /\ g \in HeadersOf(N, V) /\ OneEach(g) /\ h.length <= g.length
        /\ at \in 1..g.length /\ g.slots[at].name = name
        /\ \A i \in 1..g.length : i # at => i \in 1..h.length
        /\ \A i \in 1..h.length : g.slots[i] = h.slots[i]
        /\ ~HasName(h, name) /\ at = h.length + 1 /\ g.length = h.length + 1
        /\ g.slots[at].values = <<>>
    BY <1>1, <1>3, <2>2, <2>3, <2>5, <2>7, <2>8
  <2>10. QED
    BY <2>9 DEF at, g
<1>4. QED
  BY <1>2, <1>3

\* The values of one header are set.
LEMMA PutIs ==
    ASSUME NEW N, NEW V, NEW h \in HeadersOf(N, V), NEW at \in 1..h.length, NEW vs \in Seq(V)
    PROVE  LET g == [h EXCEPT !.slots[at].values = vs]
           IN  /\ g \in HeadersOf(N, V) /\ g.length = h.length
               /\ g.slots[at].name = h.slots[at].name /\ g.slots[at].values = vs
               /\ \A i \in 1..h.length : /\ i # at => g.slots[i] = h.slots[i]
                                         /\ g.slots[i].name = h.slots[i].name
               /\ OneEach(h) => OneEach(g)
<1> DEFINE s == [h.slots EXCEPT ![at] = [h.slots[at] EXCEPT !.values = vs]]
           g == [h EXCEPT !.slots[at].values = vs]
<1>1. /\ h = [slots |-> h.slots, length |-> h.length]
      /\ h.slots \in Seq([name : N, values : Seq(V)]) /\ Len(h.slots) \in Nat
      /\ h.length \in Nat /\ h.length <= Len(h.slots) /\ at \in 1..Len(h.slots)
      /\ h.slots[at] \in [name : N, values : Seq(V)]
  BY HeadersAre
<1>2. g = [slots |-> s, length |-> h.length]
  <2>1. g = [h EXCEPT !.slots = s]
    OBVIOUS
  <2> HIDE DEF s, g
  <2>2. QED
    BY <1>1, <2>1
<1>3. PICK x \in [name : N, values : Seq(V)] :
          /\ x = [h.slots[at] EXCEPT !.values = vs]
          /\ x.name = h.slots[at].name /\ x.values = vs
  <2>1. PICK y \in [name : N, values : Seq(V)] : y = h.slots[at]
    BY <1>1
  <2>2. [y EXCEPT !.values = vs] = [name |-> y.name, values |-> vs]
    OBVIOUS
  <2>3. [name |-> y.name, values |-> vs] \in [name : N, values : Seq(V)]
    OBVIOUS
  <2>4. QED
    BY <2>1, <2>2, <2>3
<1>4. /\ s \in Seq([name : N, values : Seq(V)]) /\ Len(s) = Len(h.slots)
      /\ \A i \in 1..Len(h.slots) : i # at => s[i] = h.slots[i]
      /\ s[at] = x
  <2>1. PICK t \in Seq([name : N, values : Seq(V)]) : t = h.slots
    BY <1>1
  <2>2. s = [t EXCEPT ![at] = x] /\ at \in 1..Len(t)
    BY <1>1, <1>3, <2>1
  <2>3. LET u == [t EXCEPT ![at] = x]
        IN  /\ u \in Seq([name : N, values : Seq(V)]) /\ Len(u) = Len(t)
            /\ \A i \in 1..Len(t) : i # at => u[i] = t[i]
            /\ u[at] = x
    BY <2>2
  <2> HIDE DEF s
  <2>4. QED
    BY <2>1, <2>2, <2>3
<1> HIDE DEF s, g
<1>5. g \in HeadersOf(N, V)
  BY <1>1, <1>2, <1>4 DEF HeadersOf
<1>6. s[at].name = h.slots[at].name /\ s[at].values = vs
  BY <1>3, <1>4
<1>7. \A i \in 1..h.length : (i # at => s[i] = h.slots[i]) /\ s[i].name = h.slots[i].name
  BY <1>1, <1>4, <1>6
<1>8. OneEach(h) => OneEach(g)
  BY <1>2, <1>7 DEF OneEach
<1>9. /\ g \in HeadersOf(N, V) /\ g.length = h.length
      /\ g.slots[at].name = h.slots[at].name /\ g.slots[at].values = vs
      /\ \A i \in 1..h.length : /\ i # at => g.slots[i] = h.slots[i]
                                /\ g.slots[i].name = h.slots[i].name
      /\ OneEach(h) => OneEach(g)
  BY <1>2, <1>5, <1>6, <1>7, <1>8
<1>10. QED
  BY <1>9 DEF g

\* n is read from the value of the header of f at at, which is as in h if it is more than n.
IsLength(f, h, at, n) ==
    /\ f.slots[at].name = "Content-Length"
    /\ \E v : /\ f.slots[at].values = <<v>> /\ v.scanned = n
              /\ v.exact \/ (at \in 1..h.length /\ f.slots[at] = h.slots[at])

\* f is h with one Content-Length, from whose value n is read, and the other headers as they
\* were.
IsFixed(f, h, n) ==
    /\ OneEach(f) /\ h.length <= f.length
    /\ \E at \in 1..f.length :
          /\ IsLength(f, h, at, n)
          /\ \A i \in 1..f.length : i # at => i \in 1..h.length /\ f.slots[i] = h.slots[i]
    /\ \A i \in 1..h.length : f.slots[i].name = h.slots[i].name

\* What http_response_write does to the headers.
LEMMA FixIs ==
    ASSUME NEW N, "Content-Length" \in N, NEW V, NEW n, Printed(n) \in V,
           NEW h \in HeadersOf(N, V), OneEach(h)
    PROVE  /\ FixContentLength(h, n) \in HeadersOf(N, V)
           /\ IsFixed(FixContentLength(h, n), h, n)
<1>1. PICK g : g = HeadersEnsure(h, "Content-Length")
  OBVIOUS
<1>2. PICK at : at = HeadersGet(g, "Content-Length")
  OBVIOUS
<1>3. /\ g \in HeadersOf(N, V) /\ OneEach(g) /\ h.length <= g.length
      /\ at \in 1..g.length /\ g.slots[at].name = "Content-Length"
      /\ \A i \in 1..g.length : i # at => i \in 1..h.length
      /\ \A i \in 1..h.length : g.slots[i] = h.slots[i]
      /\ at \in 1..h.length \/ g.slots[at].values = <<>>
  <2>1. h.length \in Nat
    BY HeadersAre
  <2>2. QED
    BY <1>1, <1>2, <2>1, EnsureIs
<1>4. PICK f : f = FixContentLength(h, n)
  OBVIOUS
<1>5. PICK vs \in Seq(V) : vs = g.slots[at].values
  <2>1. g.slots[at] \in [name : N, values : Seq(V)]
    BY <1>3, HeadersAre
  <2>2. QED
    BY <2>1
<1>a. PICK p \in V : p = Printed(n) /\ p.scanned = n /\ p.exact
  BY DEF Printed
<1>b. f = IF Len(vs) = 1 /\ vs[1].scanned = n THEN g ELSE HeaderAppend(HeaderClear(g, at), at, p)
  BY <1>1, <1>2, <1>4, <1>5, <1>a DEF FixContentLength, HeaderValues
<1>6. CASE Len(vs) = 1 /\ vs[1].scanned = n
  <2>1. f = g
    BY <1>6, <1>b
  <2>2. at \in 1..h.length /\ g.slots[at] = h.slots[at]
    BY <1>3, <1>5, <1>6
  <2>3. vs = <<vs[1]>>
    BY <1>5, <1>6
  <2>4. IsLength(f, h, at, n)
    BY <1>3, <1>5, <1>6, <2>1, <2>2, <2>3 DEF IsLength
  <2>5. QED
    BY <1>3, <1>4, <2>1, <2>4 DEF IsFixed
<1>7. CASE ~(Len(vs) = 1 /\ vs[1].scanned = n)
  <2>1. PICK c : c = [g EXCEPT !.slots[at].values = <<>>]
    OBVIOUS
  <2>2. <<>> \in Seq(V)
    OBVIOUS
  <2>3. /\ c \in HeadersOf(N, V) /\ c.length = g.length
        /\ c.slots[at].name = g.slots[at].name /\ c.slots[at].values = <<>>
        /\ \A i \in 1..g.length : /\ i # at => c.slots[i] = g.slots[i]
                                  /\ c.slots[i].name = g.slots[i].name
        /\ OneEach(g) => OneEach(c)
    <3>1. LET e == [g EXCEPT !.slots[at].values = <<>>]
          IN  /\ e \in HeadersOf(N, V) /\ e.length = g.length
              /\ e.slots[at].name = g.slots[at].name /\ e.slots[at].values = <<>>
              /\ \A i \in 1..g.length : /\ i # at => e.slots[i] = g.slots[i]
                                        /\ e.slots[i].name = g.slots[i].name
              /\ OneEach(g) => OneEach(e)
      BY <1>3, <2>2, PutIs
    <3>2. QED
      BY <2>1, <3>1
  <2>4. f = [c EXCEPT !.slots[at].values = Append(@, p)]
    BY <1>7, <1>b, <2>1 DEF HeaderAppend, HeaderClear
  <2>5. f = [c EXCEPT !.slots[at].values = <<p>>]
    <3>1. [c EXCEPT !.slots[at].values = Append(@, p)]
              = [c EXCEPT !.slots[at].values = Append(c.slots[at].values, p)]
      OBVIOUS
    <3>2. Append(c.slots[at].values, p) = <<p>>
      BY <2>3
    <3>3. QED
      BY <2>4, <3>1, <3>2
  <2>6. <<p>> \in Seq(V)
    OBVIOUS
  <2>7. at \in 1..c.length
    BY <1>3, <2>3
  <2>8. /\ f \in HeadersOf(N, V) /\ f.length = c.length
        /\ f.slots[at].name = c.slots[at].name /\ f.slots[at].values = <<p>>
        /\ \A i \in 1..c.length : /\ i # at => f.slots[i] = c.slots[i]
                                  /\ f.slots[i].name = c.slots[i].name
        /\ OneEach(c) => OneEach(f)
    <3>1. LET e == [c EXCEPT !.slots[at].values = <<p>>]
          IN  /\ e \in HeadersOf(N, V) /\ e.length = c.length
              /\ e.slots[at].name = c.slots[at].name /\ e.slots[at].values = <<p>>
              /\ \A i \in 1..c.length : /\ i # at => e.slots[i] = c.slots[i]
                                        /\ e.slots[i].name = c.slots[i].name
              /\ OneEach(c) => OneEach(e)
      <4>1. c \in HeadersOf(N, V)
        BY <2>3
      <4>2. QED
        BY <2>6, <2>7, <4>1, PutIs
    <3>2. QED
      BY <2>5, <3>1
  <2>9. ASSUME NEW i \in 1..f.length, i # at
        PROVE  i \in 1..h.length /\ f.slots[i] = h.slots[i]
    <3>1. i \in 1..g.length /\ i \in 1..c.length
      BY <2>3, <2>8
    <3>2. i \in 1..h.length /\ g.slots[i] = h.slots[i]
      BY <1>3, <2>9, <3>1
    <3>3. c.slots[i] = g.slots[i]
      BY <2>3, <2>9, <3>1
    <3>4. f.slots[i] = c.slots[i]
      BY <2>8, <2>9, <3>1
    <3>5. QED
      BY <3>2, <3>3, <3>4
  <2>10. \A i \in 1..h.length : i \in 1..g.length
    <3>1. h.length \in Nat
      BY HeadersAre
    <3>2. g.length \in Nat
      BY <1>3, HeadersAre
    <3>3. QED
      BY <1>3, <3>1, <3>2
  <2>11. \A i \in 1..h.length : f.slots[i].name = h.slots[i].name
    BY <1>3, <2>3, <2>8, <2>10
  <2>12. /\ f \in HeadersOf(N, V) /\ OneEach(f) /\ h.length <= f.length
         /\ at \in 1..f.length
         /\ f.slots[at].name = "Content-Length" /\ f.slots[at].values = <<p>>
    BY <1>3, <2>3, <2>8
  <2>13. IsLength(f, h, at, n)
    BY <1>a, <2>12 DEF IsLength
  <2>14. QED
    BY <1>4, <2>9, <2>11, <2>12, <2>13 DEF IsFixed
<1>8. QED
  BY <1>6, <1>7

-----------------------------------------------------------------------------
(* Bodies.                                                                 *)

Body == BuffersOf(Nat)

LEMMA ClearIs ==
    ASSUME NEW b \in Body
    PROVE  BufferClear(b) \in Body /\ BufferClear(b).length = 0
<1>1. b \in [data : Seq(Nat \union {Garbage}), length : Nat] /\ Len(b.data) \in Nat
  BY DEF Body, BuffersOf
<1>2. BufferClear(b) = [b EXCEPT !.length = 0]
  BY <1>1 DEF BufferClear, SetLength, EnsureCapacity
<1>3. QED
  BY <1>1, <1>2 DEF Body, BuffersOf

\* stream_buffer_write inside a buffer or at its end.
LEMMA WriteIs ==
    ASSUME NEW b \in Body, NEW pos \in 0..b.length, NEW k \in Nat, NEW x \in Nat
    PROVE  LET c == WriteAt(b, pos, [i \in 1..k |-> x])
           IN  /\ c \in Body
               /\ c.length = IF pos + k > b.length THEN pos + k ELSE b.length
               /\ \A i \in 1..c.length : \/ i \in (pos + 1)..(pos + k) /\ c.data[i] = x
                                         \/ i \in 1..b.length /\ c.data[i] = b.data[i]
<1> DEFINE src == [i \in 1..k |-> x]
           grown == IF pos + k > b.length THEN SetLength(b, pos + k) ELSE b
           new == [i \in DOMAIN grown.data |-> IF i \in (pos + 1)..(pos + k)
                                               THEN src[i - pos] ELSE grown.data[i]]
           c == WriteAt(b, pos, src)
<1>1. /\ b.data \in Seq(Nat \union {Garbage}) /\ b.length \in Nat /\ b.length <= Len(b.data)
      /\ pos \in Nat /\ pos <= b.length /\ Len(b.data) \in Nat
  BY DEF Body, BuffersOf
<1>2. Len(src) = k /\ \A i \in 1..k : src[i] = x
  OBVIOUS
<1>3. c = [grown EXCEPT !.data = new]
  BY <1>2 DEF WriteAt
<1> HIDE DEF src
<1>4. /\ grown \in Body /\ grown.length = IF pos + k > b.length THEN pos + k ELSE b.length
      /\ \A i \in 1..b.length : grown.data[i] = b.data[i]
  <2>1. CASE pos + k > Len(b.data)
    <3> DEFINE d == [i \in 1..(pos + k) |-> IF i <= Len(b.data) THEN b.data[i] ELSE Garbage]
    <3>1. \A i \in 1..(pos + k) : i <= Len(b.data) => b.data[i] \in Nat \union {Garbage}
      BY <1>1
    <3>2. pos + k \in Nat /\ d \in [1..(pos + k) -> Nat \union {Garbage}]
      BY <1>1, <3>1
    <3>3. d \in Seq(Nat \union {Garbage}) /\ Len(d) = pos + k
      BY <3>2
    <3>4. \A i \in 1..b.length : i \in 1..(pos + k) /\ i <= Len(b.data)
      BY <1>1, <2>1
    <3>5. \A i \in 1..b.length : d[i] = b.data[i]
      BY <3>4
    <3>6. EnsureCapacity(b, pos + k) =
              [data |-> d, length |-> IF pos + k < b.length THEN pos + k ELSE b.length]
      BY <2>1 DEF EnsureCapacity, SetCapacity
    <3> HIDE DEF d
    <3>7. SetLength(b, pos + k) = [data |-> d, length |-> pos + k]
      BY <3>6 DEF SetLength
    <3>8. pos + k > b.length
      BY <1>1, <2>1
    <3>9. grown = [data |-> d, length |-> pos + k]
      BY <3>7, <3>8
    <3>10. QED
      BY <3>2, <3>3, <3>5, <3>8, <3>9 DEF Body, BuffersOf
  <2>2. CASE pos + k <= Len(b.data)
    <3>1. SetLength(b, pos + k) = [b EXCEPT !.length = pos + k]
      BY <1>1, <2>2 DEF SetLength, EnsureCapacity
    <3>2. QED
      BY <1>1, <2>2, <3>1 DEF Body, BuffersOf
  <2>3. QED
    BY <1>1, <2>1, <2>2
<1> HIDE DEF grown, c
<1>5. /\ grown.data \in Seq(Nat \union {Garbage}) /\ Len(grown.data) \in Nat
      /\ grown.length <= Len(grown.data) /\ grown.length \in Nat
      /\ DOMAIN grown.data = 1..Len(grown.data)
  BY <1>4 DEF Body, BuffersOf
<1>6. \A i \in 1..Len(grown.data) : \/ i \in (pos + 1)..(pos + k) /\ new[i] = x
                                    \/ i \notin (pos + 1)..(pos + k) /\ new[i] = grown.data[i]
  <2>1. \A i \in (pos + 1)..(pos + k) : i - pos \in 1..k
    BY <1>1
  <2>2. QED
    BY <1>2, <1>5, <2>1
<1>7. new \in Seq(Nat \union {Garbage}) /\ Len(new) = Len(grown.data)
  <2>0. \A i \in 1..Len(grown.data) : grown.data[i] \in Nat \union {Garbage}
    BY <1>5
  <2>1. \A i \in 1..Len(grown.data) : new[i] \in Nat \union {Garbage}
    <3> HIDE DEF new
    <3>1. QED
      BY <1>6, <2>0
  <2>2. new = [i \in 1..Len(grown.data) |-> new[i]]
    BY <1>5
  <2> HIDE DEF new
  <2>3. new \in [1..Len(grown.data) -> Nat \union {Garbage}]
    BY <2>1, <2>2
  <2>4. QED
    BY <1>5, <2>3
<1>8. c.data = new /\ c.length = grown.length /\ c \in Body
  BY <1>3, <1>4, <1>5, <1>7 DEF Body, BuffersOf
<1> HIDE DEF new
<1>9. \A i \in 1..grown.length : i \in 1..Len(grown.data)
  BY <1>5
<1>10. \A i \in 1..grown.length : i \notin (pos + 1)..(pos + k) => i \in 1..b.length
  BY <1>1, <1>4, <1>5
<1>11. \A i \in 1..c.length : \/ i \in (pos + 1)..(pos + k) /\ c.data[i] = x
                              \/ i \in 1..b.length /\ c.data[i] = b.data[i]
  BY <1>4, <1>6, <1>8, <1>9, <1>10
<1>12. QED
  BY <1>4, <1>8, <1>11 DEF c, src

-----------------------------------------------------------------------------
(* The inductive invariant.                                                *)

SetNames == ResponseNames \union {"Content-Length"}
SetValues == HeaderText

\* Each name has one header, with the values that were asked for, and every name that was
\* asked for has one.
HeadersSay(h, given) ==
    /\ OneEach(h)
    /\ \A i \in 1..h.length :
          h.slots[i].name # "Content-Length" =>
              h.slots[i].values = given[h.slots[i].name] /\ h.slots[i].values # <<>>
    /\ \A name \in ResponseNames :
          name # "Content-Length" /\ ~HasName(h, name) => given[name] = <<>>

\* The handler's Content-Length has the values that it gave it, until the response is sent.
LengthSays(h, given) ==
    /\ \A i \in 1..h.length :
          h.slots[i].name = "Content-Length" =>
              "Content-Length" \in ResponseNames /\ h.slots[i].values = given["Content-Length"]
    /\ ("Content-Length" \in ResponseNames /\ ~HasName(h, "Content-Length")) =>
           given["Content-Length"] = <<>>

LengthInv == step \in {"handle", "write"} => LengthSays(response_headers, asked)

\* The body up to its length is of this exchange, once its handler may write.
BodyInv == step \in {"handle", "write"} => \A i \in 1..body.length : body.data[i] = exchange

\* The status of a response says where it comes from.
StatusInv ==
    /\ step = "handle" => parsing = "accepted" /\ status \in {200} \union Statuses
    /\ step = "write" => /\ parsing = "rejected" => status = 400
                         /\ status \in {400, 500} \ Statuses =>
                               body.length = 0 /\ response_headers.length = 0

ResponseInv ==
    /\ ResponseTypeOK /\ step \in {"idle", "parse", "handle", "write"}
    /\ exchange \in Nat
    /\ HeadersSay(response_headers, asked) /\ LengthInv
    /\ step # "idle" => wire = NoWire
    /\ BodyInv /\ StatusInv
    /\ ContentLengthIsRight /\ HeadersAreAsked /\ ResponseIsFresh

\* Nothing on the wire satisfies what is said of it.
LEMMA QuietWire ==
    /\ wire = NoWire => ContentLengthIsRight /\ HeadersAreAsked /\ ResponseIsFresh
    /\ wire' = NoWire => ContentLengthIsRight' /\ HeadersAreAsked' /\ ResponseIsFresh'
<1>1. /\ NoWire.complete = FALSE /\ Len(NoWire.headers) = 0 /\ Len(NoWire.body) = 0
  BY DEF NoWire
<1>2. 1..0 = {}
  OBVIOUS
<1>3. ASSUME wire = NoWire PROVE ContentLengthIsRight /\ HeadersAreAsked /\ ResponseIsFresh
  BY <1>1, <1>2, <1>3 DEF ContentLengthIsRight, HeadersAreAsked, ResponseIsFresh, BodyIsFresh
<1>4. ASSUME wire' = NoWire PROVE ContentLengthIsRight' /\ HeadersAreAsked' /\ ResponseIsFresh'
  BY <1>1, <1>2, <1>4 DEF ContentLengthIsRight, HeadersAreAsked, ResponseIsFresh, BodyIsFresh
<1>5. QED
  BY <1>3, <1>4

LEMMA ResponseStart == Init => ResponseInv
<1> SUFFICES ASSUME Init PROVE ResponseInv
  OBVIOUS
<1>1. /\ status = 200 /\ response_headers = NoHeaders /\ body = EmptyBuffer /\ position = 0
      /\ wire = NoWire /\ asked = NothingAsked /\ step = "idle" /\ exchange = 0
  BY DEF Init, ResponseInit
<1>2. NoHeaders \in HeadersOf(SetNames, SetValues) /\ EmptyBuffer \in Body
  BY DEF NoHeaders, HeadersOf, EmptyBuffer, Body, BuffersOf
<1>3. NothingAsked \in [ResponseNames -> Seq(ResponseValues)]
  BY DEF NothingAsked
<1>4. ResponseTypeOK
  BY <1>1, <1>2, <1>3, ResponseAssumption
     DEF ResponseTypeOK, SetNames, SetValues, Body, EmptyBuffer, NoWire
<1>5. HeadersSay(response_headers, asked)
  BY <1>1 DEF HeadersSay, OneEach, HasName, NoHeaders, NothingAsked
<1>6. QED
  BY <1>1, <1>4, <1>5, QuietWire DEF ResponseInv, BodyInv, StatusInv, LengthInv

LEMMA ResponseTypes ==
    ASSUME ResponseInv
    PROVE  /\ status \in Nat /\ response_headers \in HeadersOf(SetNames, SetValues)
           /\ body \in Body /\ body.length \in Nat /\ body.length <= MaxBody /\ MaxBody \in Nat
           /\ position \in 0..body.length
           /\ asked \in [ResponseNames -> Seq(ResponseValues)]
<1>1. /\ status \in Nat /\ response_headers \in HeadersOf(SetNames, SetValues)
      /\ body \in Body /\ body.length <= MaxBody /\ position \in 0..body.length
      /\ asked \in [ResponseNames -> Seq(ResponseValues)]
  BY DEF ResponseInv, ResponseTypeOK, Body, SetNames, SetValues
<1>2. body.length \in Nat
  BY <1>1 DEF Body, BuffersOf
<1>3. QED
  BY <1>1, <1>2, ResponseAssumption

-----------------------------------------------------------------------------
(* The actions.                                                            *)

\* http_headers_append_cstr: the header of that name gets the value, and no other changes.
LEMMA AppendSays ==
    ASSUME NEW h \in HeadersOf(SetNames, SetValues),
           NEW given \in [ResponseNames -> Seq(ResponseValues)], HeadersSay(h, given),
           NEW name \in ResponseNames, NEW v \in ResponseValues
    PROVE  /\ HeadersAppend(h, name, v) \in HeadersOf(SetNames, SetValues)
           /\ HeadersSay(HeadersAppend(h, name, v), [given EXCEPT ![name] = Append(@, v)])
           /\ LengthSays(h, given) =>
                  LengthSays(HeadersAppend(h, name, v), [given EXCEPT ![name] = Append(@, v)])
<1>1. PICK g : g = HeadersEnsure(h, name)
  OBVIOUS
<1>2. PICK at : at = HeadersGet(g, name)
  OBVIOUS
<1>3. name \in SetNames /\ v \in SetValues
  BY ResponseAssumption DEF SetNames, SetValues
<1>4. OneEach(h)
  BY DEF HeadersSay
<1>5. /\ g \in HeadersOf(SetNames, SetValues) /\ OneEach(g) /\ h.length <= g.length
      /\ at \in 1..g.length /\ g.slots[at].name = name
      /\ \A i \in 1..g.length : i # at => i \in 1..h.length
      /\ \A i \in 1..h.length : g.slots[i] = h.slots[i]
      /\ \/ HasName(h, name) /\ g = h
         \/ /\ ~HasName(h, name) /\ at = h.length + 1 /\ g.length = h.length + 1
            /\ g.slots[at].values = <<>>
  BY <1>1, <1>2, <1>3, <1>4, EnsureIs
<1>6. PICK vs \in Seq(SetValues) : vs = g.slots[at].values
  <2>1. g.slots[at] \in [name : SetNames, values : Seq(SetValues)]
    BY <1>5, HeadersAre
  <2>2. QED
    BY <2>1
<1>7. ASSUME name # "Content-Length" \/ LengthSays(h, given) PROVE vs = given[name]
  <2>1. CASE g = h
    <3>1. at \in 1..h.length /\ h.slots[at].name = name
      BY <1>5, <2>1
    <3>2. h.slots[at].values = given[h.slots[at].name]
      BY <1>7, <3>1 DEF HeadersSay, LengthSays
    <3>3. QED
      BY <1>6, <2>1, <3>1, <3>2
  <2>2. CASE ~HasName(h, name) /\ g.slots[at].values = <<>>
    BY <1>6, <1>7, <2>2 DEF HeadersSay, LengthSays
  <2>3. QED
    BY <1>5, <2>1, <2>2
<1>8. Append(vs, v) \in Seq(SetValues) /\ Append(vs, v) # <<>>
  <2>1. v \in SetValues
    BY <1>3
  <2>3. Append(vs, v) \in Seq(SetValues)
    BY <2>1, AppendElements
  <2>4. \A S : \A s \in Seq(S), x \in S : Append(s, x) # <<>>
    OBVIOUS
  <2>5. QED
    BY <2>1, <2>3, <2>4
<1>9. PICK f : f = [g EXCEPT !.slots[at].values = Append(vs, v)]
  OBVIOUS
<1>10. HeadersAppend(h, name, v) = f
  <2>1. [g EXCEPT !.slots[at].values = Append(@, v)] = [g EXCEPT !.slots[at].values = Append(vs, v)]
    BY <1>6
  <2>2. QED
    BY <1>1, <1>2, <1>9, <2>1 DEF HeadersAppend, HeaderAppend
<1>11. /\ f \in HeadersOf(SetNames, SetValues) /\ f.length = g.length
       /\ f.slots[at].name = name /\ f.slots[at].values = Append(vs, v)
       /\ \A i \in 1..g.length : /\ i # at => f.slots[i] = g.slots[i]
                                 /\ f.slots[i].name = g.slots[i].name
       /\ OneEach(f)
  <2>1. LET e == [g EXCEPT !.slots[at].values = Append(vs, v)]
        IN  /\ e \in HeadersOf(SetNames, SetValues) /\ e.length = g.length
            /\ e.slots[at].name = g.slots[at].name /\ e.slots[at].values = Append(vs, v)
            /\ \A i \in 1..g.length : /\ i # at => e.slots[i] = g.slots[i]
                                      /\ e.slots[i].name = g.slots[i].name
            /\ OneEach(g) => OneEach(e)
    BY <1>5, <1>8, PutIs
  <2>2. QED
    BY <1>5, <1>9, <2>1
<1>12. PICK now : now = [given EXCEPT ![name] = Append(@, v)]
  OBVIOUS
<1>13. /\ (name # "Content-Length" \/ LengthSays(h, given)) => now[name] = Append(vs, v)
       /\ \A other \in ResponseNames : other # name => now[other] = given[other]
  BY <1>7, <1>12
<1>14. ASSUME NEW i \in 1..f.length, f.slots[i].name # "Content-Length"
       PROVE  f.slots[i].values = now[f.slots[i].name] /\ f.slots[i].values # <<>>
  <2>1. CASE i = at
    BY <1>8, <1>11, <1>13, <1>14, <2>1
  <2>2. CASE i # at
    <3>1. i \in 1..g.length /\ i \in 1..h.length /\ f.slots[i] = g.slots[i] /\ g.slots[i] = h.slots[i]
      BY <1>5, <1>11, <2>2
    <3>2. f.slots[i].name # name
      BY <1>5, <1>11, <2>2, <3>1 DEF OneEach
    <3>3. h.slots[i].values = given[h.slots[i].name] /\ h.slots[i].values # <<>>
      BY <1>14, <3>1 DEF HeadersSay
    <3>4. h.slots[i].name \in ResponseNames
      <4>1. h.slots[i].name \in SetNames
        BY <3>1, HeadersAre
      <4>2. QED
        BY <1>14, <3>1, <4>1 DEF SetNames
    <3>5. QED
      BY <1>13, <3>1, <3>2, <3>3, <3>4
  <2>3. QED
    BY <2>1, <2>2
<1>15. ASSUME NEW other \in ResponseNames, other # "Content-Length", ~HasName(f, other)
       PROVE  now[other] = <<>>
  <2>1. other # name
    BY <1>5, <1>11, <1>15 DEF HasName
  <2>2. \A i \in 1..h.length : i \in 1..f.length
    <3>1. h.length \in Nat
      BY HeadersAre
    <3>2. g.length \in Nat
      BY <1>5, HeadersAre
    <3>3. QED
      BY <1>5, <1>11, <3>1, <3>2
  <2>3. \A i \in 1..h.length : f.slots[i].name = h.slots[i].name
    BY <1>5, <1>11, <2>2
  <2>4. ~HasName(h, other)
    BY <1>15, <2>2, <2>3 DEF HasName
  <2>5. QED
    BY <1>13, <1>15, <2>1, <2>4 DEF HeadersSay
<1>16. HeadersSay(f, now)
  BY <1>11, <1>14, <1>15 DEF HeadersSay
<1>17. \A i \in 1..h.length : i \in 1..f.length /\ f.slots[i].name = h.slots[i].name
  <2>1. h.length \in Nat
    BY HeadersAre
  <2>2. g.length \in Nat
    BY <1>5, HeadersAre
  <2>3. QED
    BY <1>5, <1>11, <2>1, <2>2
<1>18. ASSUME LengthSays(h, given) PROVE LengthSays(f, now)
  <2>1. ASSUME NEW i \in 1..f.length, f.slots[i].name = "Content-Length"
        PROVE  "Content-Length" \in ResponseNames /\ f.slots[i].values = now["Content-Length"]
    <3>1. CASE i = at
      BY <1>11, <1>13, <1>18, <2>1, <3>1
    <3>2. CASE i # at
      <4>1. i \in 1..g.length /\ i \in 1..h.length /\ f.slots[i] = g.slots[i] /\ g.slots[i] = h.slots[i]
        BY <1>5, <1>11, <3>2
      <4>2. f.slots[i].name # name
        BY <1>5, <1>11, <3>2, <4>1 DEF OneEach
      <4>3. "Content-Length" \in ResponseNames /\ h.slots[i].values = given["Content-Length"]
        BY <1>18, <2>1, <4>1 DEF LengthSays
      <4>4. QED
        BY <1>13, <2>1, <4>1, <4>2, <4>3
    <3>3. QED
      BY <3>1, <3>2
  <2>2. ASSUME "Content-Length" \in ResponseNames, ~HasName(f, "Content-Length")
        PROVE  now["Content-Length"] = <<>>
    <3>1. "Content-Length" # name
      BY <1>5, <1>11, <2>2 DEF HasName
    <3>2. ~HasName(h, "Content-Length")
      BY <1>17, <2>2 DEF HasName
    <3>3. QED
      BY <1>13, <1>18, <2>2, <3>1, <3>2 DEF LengthSays
  <2>3. QED
    BY <2>1, <2>2 DEF LengthSays
<1>19. QED
  BY <1>10, <1>11, <1>12, <1>16, <1>18

\* http_response_clear: the structure is as new but for its memory.
LEMMA ClearedIs ==
    ASSUME ResponseInv, NEW code \in Nat, ResponseClear(code)
    PROVE  /\ ResponseTypeOK' /\ HeadersSay(response_headers, asked)'
           /\ LengthSays(response_headers, asked)'
           /\ body'.length = 0 /\ response_headers'.length = 0
           /\ wire' = wire /\ status' = code
<1>1. /\ status' = code /\ response_headers' = HeadersClear(response_headers)
      /\ body' = BufferClear(body) /\ position' = PositionIn(BufferClear(body), 0)
      /\ asked' = NothingAsked /\ wire' = wire
  BY DEF ResponseClear
<1>2. response_headers \in HeadersOf(SetNames, SetValues) /\ body \in Body /\ MaxBody \in Nat
  BY ResponseTypes
<1>3. body' \in Body /\ body'.length = 0
  BY <1>1, <1>2, ClearIs
<1>4. response_headers' \in HeadersOf(SetNames, SetValues) /\ response_headers'.length = 0
  <2>1. Len(response_headers.slots) \in Nat
    BY <1>2, HeadersAre
  <2>2. QED
    BY <1>1, <1>2, <2>1 DEF HeadersClear, HeadersOf
<1>5. position' = 0
  BY <1>1, <1>3 DEF PositionIn
<1>6. asked' \in [ResponseNames -> Seq(ResponseValues)]
  BY <1>1 DEF NothingAsked
<1>7. ResponseTypeOK'
  BY <1>1, <1>2, <1>3, <1>4, <1>5, <1>6
     DEF ResponseInv, ResponseTypeOK, Body, SetNames, SetValues
<1>8. HeadersSay(response_headers, asked)'
  BY <1>1, <1>4 DEF HeadersSay, OneEach, HasName, NothingAsked
<1>9. LengthSays(response_headers, asked)'
  BY <1>1, <1>4 DEF LengthSays, NothingAsked
<1>10. QED
  BY <1>1, <1>3, <1>4, <1>7, <1>8, <1>9

LEMMA HandlerKeeps ==
    ASSUME ResponseInv, HandlerActs
    PROVE  ResponseInv'
<1>1. /\ step = "handle" /\ step' = "handle" /\ exchange' = exchange /\ parsing' = parsing
      /\ \/ \E code \in Statuses : SetStatus(code)
         \/ \E name \in ResponseNames, v \in ResponseValues : AddHeader(name, v)
         \/ \E k \in 1..MaxBody : WriteBody(k, exchange)
         \/ \E pos \in 0..MaxBody : SeekBody(pos)
  BY DEF HandlerActs, requestVars
<1>2. /\ status \in Nat /\ response_headers \in HeadersOf(SetNames, SetValues)
      /\ body \in Body /\ body.length \in Nat /\ body.length <= MaxBody /\ MaxBody \in Nat
      /\ position \in 0..body.length
      /\ asked \in [ResponseNames -> Seq(ResponseValues)]
  BY ResponseTypes
<1>3. /\ exchange \in Nat /\ wire = NoWire /\ HeadersSay(response_headers, asked)
      /\ \A i \in 1..body.length : body.data[i] = exchange
      /\ parsing = "accepted" /\ status \in {200} \union Statuses
      /\ LengthSays(response_headers, asked)
  BY <1>1 DEF ResponseInv, BodyInv, StatusInv, LengthInv
<1> DEFINE StillFine ==
      /\ wire' = NoWire /\ status' \in Nat /\ status' \in {200} \union Statuses
      /\ response_headers' \in HeadersOf(SetNames, SetValues)
      /\ asked' \in [ResponseNames -> Seq(ResponseValues)]
      /\ HeadersSay(response_headers', asked') /\ LengthSays(response_headers', asked')
      /\ body' \in Body /\ body'.length <= MaxBody /\ position' \in 0..body'.length
      /\ \A i \in 1..body'.length : body'.data[i] = exchange
<1>4. StillFine
  <2>1. CASE \E code \in Statuses : SetStatus(code)
    BY <1>2, <1>3, <2>1, ResponseAssumption DEF SetStatus
  <2>2. ASSUME NEW name \in ResponseNames, NEW v \in ResponseValues, AddHeader(name, v)
        PROVE  StillFine
    <3>1. /\ response_headers' = HeadersAppend(response_headers, name, v)
          /\ asked' = [asked EXCEPT ![name] = Append(@, v)]
          /\ UNCHANGED <<status, body, position, wire>>
      BY <2>2 DEF AddHeader
    <3>2. /\ HeadersAppend(response_headers, name, v) \in HeadersOf(SetNames, SetValues)
          /\ HeadersSay(HeadersAppend(response_headers, name, v),
                        [asked EXCEPT ![name] = Append(@, v)])
          /\ LengthSays(HeadersAppend(response_headers, name, v),
                        [asked EXCEPT ![name] = Append(@, v)])
      BY <1>2, <1>3, AppendSays
    <3>3. asked' \in [ResponseNames -> Seq(ResponseValues)]
      <4>1. asked[name] \in Seq(ResponseValues)
        BY <1>2
      <4>2. Append(asked[name], v) \in Seq(ResponseValues)
        BY <4>1
      <4>3. QED
        BY <1>2, <3>1, <4>2
    <3>4. QED
      BY <1>2, <1>3, <3>1, <3>2, <3>3
  <2>3. ASSUME NEW k \in 1..MaxBody, WriteBody(k, exchange)
        PROVE  StillFine
    <3>1. /\ position + k <= MaxBody /\ body' = WriteAt(body, position, [i \in 1..k |-> exchange])
          /\ position' = position + k
          /\ UNCHANGED <<status, response_headers, wire, asked>>
      BY <2>3 DEF WriteBody
    <3>2. k \in Nat /\ position \in Nat
      BY <1>2
    <3>3. LET c == WriteAt(body, position, [i \in 1..k |-> exchange])
          IN  /\ c \in Body
              /\ c.length = IF position + k > body.length THEN position + k ELSE body.length
              /\ \A i \in 1..c.length : \/ i \in (position + 1)..(position + k) /\ c.data[i] = exchange
                                        \/ i \in 1..body.length /\ c.data[i] = body.data[i]
      <4>1. PICK b \in Body : b = body
        BY <1>2
      <4>2. PICK x \in Nat : x = exchange
        BY <1>3
      <4>3. PICK p \in 0..b.length : p = position
        BY <1>2, <4>1
      <4>4. LET c == WriteAt(b, p, [i \in 1..k |-> x])
            IN  /\ c \in Body
                /\ c.length = IF p + k > b.length THEN p + k ELSE b.length
                /\ \A i \in 1..c.length : \/ i \in (p + 1)..(p + k) /\ c.data[i] = x
                                          \/ i \in 1..b.length /\ c.data[i] = b.data[i]
        BY <3>2, WriteIs
      <4>5. QED
        BY <4>1, <4>2, <4>3, <4>4
    <3>4. /\ body' \in Body
          /\ body'.length = IF position + k > body.length THEN position + k ELSE body.length
          /\ \A i \in 1..body'.length : body'.data[i] = exchange
      BY <1>3, <3>1, <3>3
    <3>5. body'.length <= MaxBody /\ position' \in 0..body'.length
      BY <1>2, <3>1, <3>2, <3>4
    <3>6. QED
      BY <1>2, <1>3, <3>1, <3>4, <3>5
  <2>4. ASSUME NEW pos \in 0..MaxBody, SeekBody(pos)
        PROVE  StillFine
    <3>1. /\ position' = PositionIn(body, pos)
          /\ UNCHANGED <<status, response_headers, body, wire, asked>>
      BY <2>4 DEF SeekBody
    <3>2. position' \in 0..body.length
      BY <1>2, <3>1 DEF PositionIn
    <3>3. QED
      BY <1>2, <1>3, <3>1, <3>2
  <2>5. QED
    BY <1>1, <2>1, <2>2, <2>3, <2>4
<1>5. QED
  BY <1>1, <1>3, <1>4, QuietWire
     DEF ResponseInv, ResponseTypeOK, BodyInv, StatusInv, LengthInv, Body, SetNames, SetValues,
         NoWire

\* http_response_write: what is on the wire is the structure, with its Content-Length right.
LEMMA WriteKeeps ==
    ASSUME ResponseInv, Finalize
    PROVE  ResponseInv'
<1>1. /\ step = "write" /\ step' = "idle" /\ exchange' = exchange /\ parsing' = parsing
  BY DEF Finalize, requestVars
<1>2. PICK k \in 1..(response_headers.length + 5) : WriteResponse(k)
  BY DEF Finalize
<1>3. /\ status \in Nat /\ response_headers \in HeadersOf(SetNames, SetValues)
      /\ body \in Body /\ body.length \in Nat /\ body.length <= MaxBody /\ MaxBody \in Nat
      /\ position \in 0..body.length
      /\ asked \in [ResponseNames -> Seq(ResponseValues)]
  BY ResponseTypes
<1>4. PICK h \in HeadersOf(SetNames, SetValues), n \in Nat :
          /\ h = response_headers /\ n = body.length
          /\ HeadersSay(h, asked) /\ LengthSays(h, asked)
  BY <1>1, <1>3 DEF ResponseInv, LengthInv
<1>5. PICK f : f = FixContentLength(h, n)
  OBVIOUS
<1>6. /\ f \in HeadersOf(SetNames, SetValues) /\ OneEach(f) /\ h.length <= f.length
      /\ \E at \in 1..f.length :
            /\ IsLength(f, h, at, n)
            /\ \A i \in 1..f.length : i # at => i \in 1..h.length /\ f.slots[i] = h.slots[i]
      /\ \A i \in 1..h.length : f.slots[i].name = h.slots[i].name
  <2>1. "Content-Length" \in SetNames /\ Printed(n) \in SetValues /\ OneEach(h)
    BY <1>4 DEF SetNames, SetValues, HeadersSay, HeaderText, Printed
  <2>2. QED
    <3>1. FixContentLength(h, n) \in HeadersOf(SetNames, SetValues)
          /\ IsFixed(FixContentLength(h, n), h, n)
      BY <2>1, FixIs
    <3>2. QED
      BY <1>5, <3>1 DEF IsFixed
<1>7. PICK at \in 1..f.length :
          /\ f.slots[at].name = "Content-Length" /\ IsLength(f, h, at, n)
          /\ \A i \in 1..f.length : i # at => i \in 1..h.length /\ f.slots[i] = h.slots[i]
  BY <1>6 DEF IsLength
<1>8. /\ f.slots \in Seq([name : SetNames, values : Seq(SetValues)]) /\ Len(f.slots) \in Nat
      /\ f.length \in Nat /\ f.length <= Len(f.slots) /\ h.length \in Nat
      /\ \A i \in 1..f.length : f.slots[i] \in [name : SetNames, values : Seq(SetValues)]
  BY <1>6, HeadersAre
<1>9. PICK m \in 0..f.length :
          /\ m = IF k < 2 THEN 0 ELSE IF k - 2 > f.length THEN f.length ELSE k - 2
          /\ k > f.length + 3 => m = f.length
  <2>1. PICK l \in Nat : l = f.length
    BY <1>8
  <2>2. PICK j \in Nat : j = k
    BY <1>3, HeadersAre
  <2>3. PICK m \in 0..l : m = IF j < 2 THEN 0 ELSE IF j - 2 > l THEN l ELSE j - 2
    <3>1. CASE j < 2
      BY <3>1
    <3>2. CASE j >= 2 /\ j - 2 > l
      BY <3>2
    <3>3. CASE j >= 2 /\ j - 2 <= l
      <4>1. j - 2 \in 0..l
        BY <3>3
      <4>2. QED
        BY <3>3, <4>1
    <3>4. QED
      BY <3>1, <3>2, <3>3
  <2>4. j > l + 3 => m = l
    BY <2>3
  <2>5. QED
    BY <2>1, <2>2, <2>3, <2>4
<1>10. /\ response_headers' = f /\ UNCHANGED <<status, body, position, asked>>
       /\ wire' = [status |-> IF k > 1 THEN status ELSE 0,
                   headers |-> SubSeq(SubSeq(f.slots, 1, f.length), 1, m),
                   body |-> IF k > f.length + 3 THEN Contents(body) ELSE <<>>,
                   complete |-> k > f.length + 3]
  BY <1>2, <1>4, <1>5, <1>9 DEF WriteResponse
<1>11. /\ Len(wire'.headers) = m /\ \A i \in 1..m : wire'.headers[i] = f.slots[i]
  <2>1. PICK s \in Seq([name : SetNames, values : Seq(SetValues)]) : s = f.slots /\ f.length <= Len(s)
    BY <1>8
  <2>2. LET t == SubSeq(s, 1, f.length)
        IN  /\ t \in Seq([name : SetNames, values : Seq(SetValues)]) /\ Len(t) = f.length
            /\ \A i \in 1..f.length : t[i] = s[i]
    BY <1>8, <2>1
  <2>3. PICK t \in Seq([name : SetNames, values : Seq(SetValues)]) :
            /\ t = SubSeq(s, 1, f.length) /\ Len(t) = f.length
            /\ \A i \in 1..f.length : t[i] = s[i]
    BY <2>2
  <2>4. /\ Len(SubSeq(t, 1, m)) = m /\ \A i \in 1..m : SubSeq(t, 1, m)[i] = t[i]
    BY <1>8, <2>3
  <2>5. \A i \in 1..m : i \in 1..f.length
    BY <1>8
  <2>6. QED
    BY <1>10, <2>1, <2>3, <2>4, <2>5
<1>12. /\ k > f.length + 3 => /\ Len(wire'.body) = n
                              /\ \A i \in 1..n : wire'.body[i] = body.data[i]
       /\ ~(k > f.length + 3) => wire'.body = <<>>
  <2>1. PICK d \in Seq(Nat \union {Garbage}) : d = body.data /\ n <= Len(d)
    BY <1>3, <1>4 DEF Body, BuffersOf
  <2>2. /\ Len(SubSeq(d, 1, n)) = n /\ \A i \in 1..n : SubSeq(d, 1, n)[i] = d[i]
    BY <2>1
  <2>3. QED
    BY <1>4, <1>10, <2>1, <2>2 DEF Contents
<1>13. \A i \in 1..m : i \in 1..f.length
  BY <1>8
<1>14. \A i \in 1..m : f.slots[i].name = "Content-Length" => i = at
  BY <1>6, <1>7, <1>13 DEF OneEach
<1>15. ContentLengthIsRight'
  <2>1. PICK v : /\ f.slots[at].values = <<v>> /\ v.scanned = n
                 /\ v.exact \/ (at \in 1..h.length /\ f.slots[at] = h.slots[at])
    BY <1>7 DEF IsLength
  <2>2. v.exact \/ ("Content-Length" \in ResponseNames /\ asked["Content-Length"] = <<v>>)
    BY <1>4, <1>7, <2>1 DEF LengthSays
  <2>3. v.exact \/ OnlyAsked("Content-Length", v)'
    BY <1>10, <2>2 DEF OnlyAsked
  <2>4. wire'.complete <=> k > f.length + 3
    BY <1>10
  <2>5. SUFFICES ASSUME k > f.length + 3
                 PROVE  \E i \in OnWire("Content-Length")' :
                           /\ OnWire("Content-Length")' = {i}
                           /\ Len(wire'.headers[i].values) = 1
                           /\ wire'.headers[i].values[1].scanned = Len(wire'.body)
                           /\ \/ wire'.headers[i].values[1].exact
                              \/ OnlyAsked("Content-Length", wire.headers[i].values[1])'
    BY <2>4 DEF ContentLengthIsRight
  <2>6. at \in 1..m
    BY <1>9, <2>5
  <2>7. wire'.headers[at].name = "Content-Length" /\ wire'.headers[at].values = <<v>>
    BY <1>7, <1>11, <2>1, <2>6
  <2>8. OnWire("Content-Length")' = {at}
    BY <1>11, <1>14, <2>6, <2>7 DEF OnWire
  <2>9. Len(<<v>>) = 1 /\ <<v>>[1] = v
    OBVIOUS
  <2>10. OnlyAsked("Content-Length", v)' => OnlyAsked("Content-Length", wire.headers[at].values[1])'
    BY <2>7, <2>9 DEF OnlyAsked
  <2>11. Len(wire'.body) = n
    BY <1>12, <2>5
  <2>12. QED
    BY <2>1, <2>3, <2>7, <2>8, <2>9, <2>10, <2>11
<1>16. \A i \in 1..f.length :
           f.slots[i].name # "Content-Length" =>
               f.slots[i].values = asked[f.slots[i].name] /\ f.slots[i].values # <<>>
  BY <1>4, <1>7 DEF HeadersSay
<1>17. HeadersAreAsked'
  <2>1. \A i, j \in 1..m : f.slots[i].name = f.slots[j].name => i = j
    BY <1>6, <1>13 DEF OneEach
  <2>2. asked' = asked
    BY <1>10
  <2>3. ASSUME NEW i \in 1..Len(wire'.headers)
        PROVE  /\ OnWire(wire.headers[i].name)' = {i}
               /\ wire'.headers[i].name # "Content-Length" =>
                     /\ wire'.headers[i].values = asked'[wire'.headers[i].name]
                     /\ wire'.headers[i].values # <<>>
    <3>1. i \in 1..m /\ i \in 1..f.length /\ wire'.headers[i] = f.slots[i]
      BY <1>11, <1>13, <2>3
    <3>2. \A j \in 1..m : wire'.headers[j].name = wire'.headers[i].name => j = i
      BY <1>11, <2>1, <3>1
    <3>3. OnWire(wire.headers[i].name)' = {i}
      BY <1>11, <3>1, <3>2 DEF OnWire
    <3>4. QED
      BY <1>16, <2>2, <3>1, <3>3
  <2>4. QED
    BY <2>3 DEF HeadersAreAsked
<1>18. HeadersSay(response_headers, asked)'
  <2>1. ASSUME NEW name \in ResponseNames, name # "Content-Length", ~HasName(f, name)
        PROVE  asked[name] = <<>>
    <3>1. \A i \in 1..h.length : i \in 1..f.length
      BY <1>6, <1>8
    <3>2. ~HasName(h, name)
      BY <1>6, <2>1, <3>1 DEF HasName
    <3>3. QED
      BY <1>4, <2>1, <3>2 DEF HeadersSay
  <2>2. QED
    BY <1>6, <1>10, <1>16, <2>1 DEF HeadersSay
<1>19. ResponseIsFresh'
  <2>1. BodyIsFresh(exchange)'
    <3>1. \A i \in 1..n : body.data[i] = exchange
      BY <1>1, <1>4 DEF ResponseInv, BodyInv
    <3>2. Len(<<>>) = 0
      OBVIOUS
    <3>3. \A i \in 1..Len(wire'.body) : wire'.body[i] = exchange
      BY <1>4, <1>12, <3>1, <3>2
    <3>4. QED
      BY <1>1, <3>3 DEF BodyIsFresh
  <2>2. ASSUME wire'.complete PROVE wire'.status = status /\ m = f.length
    <3>1. (wire'.complete <=> k > f.length + 3) /\ wire'.status = IF k > 1 THEN status ELSE 0
      BY <1>10
    <3>2. k > f.length + 3 /\ f.length + 3 > 1
      BY <1>8, <2>2, <3>1
    <3>3. k \in Nat
      BY <1>3, HeadersAre
    <3>4. k > 1
      BY <1>8, <3>2, <3>3
    <3>5. QED
      BY <1>9, <3>1, <3>2, <3>4
  <2>3. parsing = "rejected" => status = 400
    BY <1>1 DEF ResponseInv, StatusInv
  <2>4. ASSUME wire'.complete, wire'.status \in {400, 500} \ Statuses
        PROVE  wire'.body = <<>> /\ Len(wire'.headers) = 1
    <3>1. n = 0 /\ h.length = 0
      BY <1>1, <1>4, <2>2, <2>4 DEF ResponseInv, StatusInv
    <3>2. f.length = 1
      <4>1. \A i \in 1..f.length : i = at
        BY <1>7, <3>1
      <4>2. 1 \in 1..f.length /\ f.length \in 1..f.length
        BY <1>7, <1>8
      <4>3. 1 = at /\ f.length = at
        BY <4>1, <4>2
      <4>4. QED
        BY <4>3
    <3>3. wire'.body = Contents(body)
      BY <1>10, <2>4
    <3>4. body.data \in Seq(Nat \union {Garbage})
      BY <1>3 DEF Body, BuffersOf
    <3>5. Contents(body) = <<>>
      BY <1>4, <3>1, <3>4 DEF Contents
    <3>6. QED
      BY <1>11, <2>2, <2>4, <3>2, <3>3, <3>5
  <2>5. QED
    BY <1>1, <2>1, <2>2, <2>3, <2>4 DEF ResponseIsFresh
<1>20. ResponseTypeOK'
  <2>1. wire'.complete \in BOOLEAN
    BY <1>10
  <2>2. QED
    BY <1>3, <1>6, <1>10, <2>1 DEF ResponseTypeOK, Body, SetNames, SetValues
<1>21. QED
  BY <1>1, <1>15, <1>17, <1>18, <1>19, <1>20 DEF ResponseInv, BodyInv, StatusInv, LengthInv

\* The actions that leave the response as it is, and those that clear it.
LEMMA OthersKeep ==
    ASSUME ResponseInv
    PROVE  /\ \A m \in Messages : Begin(m) => ResponseInv'
           /\ ParseStep => ResponseInv'
           /\ Parsed => ResponseInv'
           /\ HandlerReturns => ResponseInv'
           /\ HandlerFails => ResponseInv'
           /\ UNCHANGED vars => ResponseInv'
<1>1. ASSUME NEW m \in Messages, Begin(m) PROVE ResponseInv'
  <2>1. /\ step' = "parse" /\ wire' = NoWire /\ exchange' = exchange + 1
        /\ UNCHANGED <<status, response_headers, body, position, asked>>
    BY <1>1 DEF Begin, ResponseBegin
  <2>2. ContentLengthIsRight' /\ HeadersAreAsked' /\ ResponseIsFresh'
    BY <2>1, QuietWire
  <2>3. ResponseTypeOK' /\ HeadersSay(response_headers, asked)'
    BY <2>1 DEF ResponseInv, ResponseTypeOK, NoWire
  <2>4. exchange' \in Nat
    BY <2>1 DEF ResponseInv
  <2>5. QED
    BY <2>1, <2>2, <2>3, <2>4 DEF ResponseInv, BodyInv, StatusInv, LengthInv
<1>2. ASSUME ParseStep PROVE ResponseInv'
  <2>1. /\ step = "parse" /\ step' = "parse" /\ exchange' = exchange
        /\ UNCHANGED <<status, response_headers, body, position, wire, asked>>
    BY <1>2 DEF ParseStep, responseVars
  <2>2. wire' = NoWire
    BY <2>1 DEF ResponseInv
  <2>3. ContentLengthIsRight' /\ HeadersAreAsked' /\ ResponseIsFresh'
    BY <2>2, QuietWire
  <2>4. ResponseTypeOK' /\ HeadersSay(response_headers, asked)'
    BY <2>1 DEF ResponseInv, ResponseTypeOK
  <2>5. QED
    BY <2>1, <2>2, <2>3, <2>4 DEF ResponseInv, BodyInv, StatusInv, LengthInv
<1>3. ASSUME NEW code \in {200, 400, 500}, ResponseClear(code), exchange' = exchange,
             step # "idle",
             \/ step' = "handle" /\ parsing' = "accepted" /\ code = 200
             \/ step' = "write" /\ (parsing' = "rejected" => code = 400)
      PROVE  ResponseInv'
  <2>1. /\ ResponseTypeOK' /\ HeadersSay(response_headers, asked)'
        /\ LengthSays(response_headers, asked)'
        /\ body'.length = 0 /\ response_headers'.length = 0
        /\ wire' = wire /\ status' = code
    BY <1>3, ClearedIs
  <2>2. wire' = NoWire
    BY <1>3, <2>1 DEF ResponseInv
  <2>3. ContentLengthIsRight' /\ HeadersAreAsked' /\ ResponseIsFresh'
    BY <2>2, QuietWire
  <2>4. exchange' \in Nat
    BY <1>3 DEF ResponseInv
  <2>5. QED
    BY <1>3, <2>1, <2>2, <2>3, <2>4 DEF ResponseInv, BodyInv, StatusInv, LengthInv
<1>4. ASSUME Parsed PROVE ResponseInv'
  <2>1. /\ step = "parse" /\ exchange' = exchange /\ parsing' = parsing
        /\ \/ parsing = "accepted" /\ ResponseClear(200) /\ step' = "handle"
           \/ parsing = "rejected" /\ ResponseClear(400) /\ step' = "write"
    BY <1>4 DEF Parsed, requestVars
  <2>2. CASE parsing = "accepted" /\ ResponseClear(200) /\ step' = "handle"
    BY <1>3, <2>1, <2>2
  <2>3. CASE parsing = "rejected" /\ ResponseClear(400) /\ step' = "write"
    BY <1>3, <2>1, <2>3
  <2>4. QED
    BY <2>1, <2>2, <2>3
<1>5. ASSUME HandlerReturns PROVE ResponseInv'
  <2>1. /\ step = "handle" /\ step' = "write" /\ exchange' = exchange /\ parsing' = parsing
        /\ UNCHANGED <<status, response_headers, body, position, wire, asked>>
    BY <1>5 DEF HandlerReturns, requestVars, responseVars
  <2>2. wire' = NoWire /\ parsing' = "accepted" /\ status' \in {200} \union Statuses
    BY <2>1 DEF ResponseInv, StatusInv
  <2>3. ContentLengthIsRight' /\ HeadersAreAsked' /\ ResponseIsFresh'
    BY <2>2, QuietWire
  <2>4. ResponseTypeOK' /\ HeadersSay(response_headers, asked)'
    BY <2>1 DEF ResponseInv, ResponseTypeOK
  <2>5. BodyInv' /\ LengthInv' /\ exchange' \in Nat
    BY <2>1 DEF ResponseInv, BodyInv, LengthInv
  <2>6. status' \notin {400, 500} \ Statuses
    BY <2>2
  <2>7. QED
    BY <2>1, <2>2, <2>3, <2>4, <2>5, <2>6 DEF ResponseInv, StatusInv
<1>6. ASSUME HandlerFails PROVE ResponseInv'
  <2>1. /\ step = "handle" /\ step' = "write" /\ ResponseClear(500)
        /\ exchange' = exchange /\ parsing' = parsing
    BY <1>6 DEF HandlerFails, requestVars
  <2>2. parsing' = "accepted"
    BY <2>1 DEF ResponseInv, StatusInv
  <2>3. QED
    BY <1>3, <2>1, <2>2
<1>7. ASSUME UNCHANGED vars PROVE ResponseInv'
  <2>1. UNCHANGED <<status, response_headers, body, position, wire, asked, step, exchange, parsing>>
    BY <1>7 DEF vars, requestVars, responseVars
  <2>2. ContentLengthIsRight' /\ HeadersAreAsked' /\ ResponseIsFresh'
    BY <2>1 DEF ResponseInv, ContentLengthIsRight, HeadersAreAsked, ResponseIsFresh, OnWire,
                OnlyAsked, BodyIsFresh
  <2>3. /\ ResponseTypeOK' /\ HeadersSay(response_headers, asked)'
        /\ BodyInv' /\ StatusInv' /\ LengthInv'
    BY <2>1 DEF ResponseInv, ResponseTypeOK, BodyInv, StatusInv, LengthInv
  <2>4. QED
    BY <2>1, <2>2, <2>3 DEF ResponseInv
<1>8. QED
  BY <1>1, <1>2, <1>4, <1>5, <1>6, <1>7

LEMMA ResponseStep == ResponseInv /\ [Next]_vars => ResponseInv'
BY HandlerKeeps, WriteKeeps, OthersKeep DEF Next, Done

-----------------------------------------------------------------------------
(* The theorems.                                                           *)

\* A response that http_response_write has sent whole has one Content-Length with one value,
\* and sscanf reads the length of the body that follows from it, whatever the handler wrote
\* and sought back over; it is that length as printed, unless it is the only value that the
\* handler gave it.
THEOREM LengthCorrect == Spec => []ContentLengthIsRight
<1>1. ResponseInv => ContentLengthIsRight
  BY DEF ResponseInv
<1>2. QED
  BY ResponseStart, ResponseStep, <1>1, PTL DEF Spec

\* The headers that are sent are those the handler set for this response, each name once and
\* all its values in order, though http_headers_clear keeps the slots of earlier responses.
THEOREM HeadersCorrect == Spec => []HeadersAreAsked
<1>1. ResponseInv => HeadersAreAsked
  BY DEF ResponseInv
<1>2. QED
  BY ResponseStart, ResponseStep, <1>1, PTL DEF Spec

\* A response carries nothing of an earlier exchange: http_response_clear, the position of
\* the body's stream and the memory of its buffer, and the 400 and 500 that http_server_task
\* sends instead of a handler's response.
THEOREM FreshCorrect == Spec => []ResponseIsFresh
<1>1. ResponseInv => ResponseIsFresh
  BY DEF ResponseInv
<1>2. QED
  BY ResponseStart, ResponseStep, <1>1, PTL DEF Spec

-----------------------------------------------------------------------------
(* Values of headers.                                                      *)

LEMMA ValuesAre ==
    ASSUME NEW N, NEW V, NEW h \in HeadersOf(N, V), OneEach(h)
    PROVE  /\ \A i \in 1..h.length : ValuesOf(h, h.slots[i].name) = h.slots[i].values
           /\ \A name : ~HasName(h, name) => ValuesOf(h, name) = <<>>
           /\ \A name : HeadersGet(h, name) = 0 <=> ~HasName(h, name)
<1>1. ASSUME NEW name
      PROVE  \/ HeadersGet(h, name) = 0 /\ ~HasName(h, name)
             \/ /\ HeadersGet(h, name) \in 1..h.length /\ HeadersGet(h, name) # 0
                /\ h.slots[HeadersGet(h, name)].name = name
  BY GetIs
<1>2. ASSUME NEW i \in 1..h.length
      PROVE  ValuesOf(h, h.slots[i].name) = h.slots[i].values
  <2>1. PICK name : name = h.slots[i].name
    OBVIOUS
  <2>2. HasName(h, name)
    BY <2>1 DEF HasName
  <2>3. HeadersGet(h, name) = i /\ HeadersGet(h, name) # 0
    BY <1>1, <2>1, <2>2 DEF OneEach
  <2>4. QED
    BY <2>1, <2>3 DEF ValuesOf, HeaderValues
<1>3. ASSUME NEW name PROVE HeadersGet(h, name) = 0 <=> ~HasName(h, name)
  BY <1>1 DEF HasName
<1>4. ASSUME NEW name, ~HasName(h, name) PROVE ValuesOf(h, name) = <<>>
  BY <1>3, <1>4 DEF ValuesOf
<1>5. QED
  BY <1>2, <1>3, <1>4

\* Every header in use has a value.
Filled(h) == \A i \in 1..h.length : h.slots[i].values # <<>>

\* The array once the values vs have been appended to the header of that name.
AppendAll(h, name, vs) ==
    LET ensured == HeadersEnsure(h, name)
        at == HeadersGet(ensured, name)
    IN  [ensured EXCEPT !.slots[at].values = @ \o vs]

\* What is found under each name then.
LEMMA AppendAllIs ==
    ASSUME NEW N, NEW V, NEW h \in HeadersOf(N, V), OneEach(h), NEW name \in N,
           NEW vs \in Seq(V)
    PROVE  /\ AppendAll(h, name, vs) \in HeadersOf(N, V) /\ OneEach(AppendAll(h, name, vs))
           /\ ValuesOf(AppendAll(h, name, vs), name) = ValuesOf(h, name) \o vs
           /\ \A other : other # name =>
                             ValuesOf(AppendAll(h, name, vs), other) = ValuesOf(h, other)
           /\ (vs # <<>> /\ Filled(h)) => Filled(AppendAll(h, name, vs))
<1>1. PICK g : g = HeadersEnsure(h, name)
  OBVIOUS
<1>2. PICK at : at = HeadersGet(g, name)
  OBVIOUS
<1>3. /\ g \in HeadersOf(N, V) /\ OneEach(g) /\ h.length <= g.length
      /\ at \in 1..g.length /\ g.slots[at].name = name
      /\ \A i \in 1..g.length : i # at => i \in 1..h.length
      /\ \A i \in 1..h.length : g.slots[i] = h.slots[i]
      /\ \/ HasName(h, name) /\ g = h
         \/ /\ ~HasName(h, name) /\ at = h.length + 1 /\ g.length = h.length + 1
            /\ g.slots[at].values = <<>>
  BY <1>1, <1>2, EnsureIs
<1>4. PICK old \in Seq(V) : old = g.slots[at].values
  <2>1. g.slots[at] \in [name : N, values : Seq(V)]
    BY <1>3, HeadersAre
  <2>2. QED
    BY <2>1
<1>5. old = ValuesOf(h, name)
  <2>1. CASE HasName(h, name) /\ g = h
    <3>1. ValuesOf(h, h.slots[at].name) = h.slots[at].values
      BY <1>3, <2>1, ValuesAre
    <3>2. QED
      BY <1>3, <1>4, <2>1, <3>1
  <2>2. CASE ~HasName(h, name) /\ g.slots[at].values = <<>>
    <3>1. ValuesOf(h, name) = <<>>
      BY <2>2, ValuesAre
    <3>2. QED
      BY <1>4, <2>2, <3>1
  <2>3. QED
    BY <1>3, <2>1, <2>2
<1>6. PICK now \in Seq(V) : now = old \o vs
  <2>1. \A S : \A s, t \in Seq(S) : s \o t \in Seq(S)
    OBVIOUS
  <2>2. QED
    BY <2>1
<1>7. PICK f : f = [g EXCEPT !.slots[at].values = now]
  OBVIOUS
<1>8. AppendAll(h, name, vs) = f
  <2>1. [g EXCEPT !.slots[at].values = @ \o vs] = [g EXCEPT !.slots[at].values = now]
    BY <1>4, <1>6
  <2>2. QED
    BY <1>1, <1>2, <1>7, <2>1 DEF AppendAll
<1>9. /\ f \in HeadersOf(N, V) /\ f.length = g.length
      /\ f.slots[at].name = name /\ f.slots[at].values = now
      /\ \A i \in 1..g.length : /\ i # at => f.slots[i] = g.slots[i]
                                /\ f.slots[i].name = g.slots[i].name
      /\ OneEach(f)
  <2>1. LET e == [g EXCEPT !.slots[at].values = now]
        IN  /\ e \in HeadersOf(N, V) /\ e.length = g.length
            /\ e.slots[at].name = g.slots[at].name /\ e.slots[at].values = now
            /\ \A i \in 1..g.length : /\ i # at => e.slots[i] = g.slots[i]
                                      /\ e.slots[i].name = g.slots[i].name
            /\ OneEach(g) => OneEach(e)
    BY <1>3, PutIs
  <2>2. QED
    BY <1>3, <1>7, <2>1
<1>10. ValuesOf(f, name) = now
  <2>1. ValuesOf(f, f.slots[at].name) = f.slots[at].values
    BY <1>3, <1>9, ValuesAre
  <2>2. QED
    BY <1>9, <2>1
<1>11. \A i \in 1..f.length : i # at => i \in 1..h.length /\ f.slots[i] = h.slots[i]
  BY <1>3, <1>9
<1>12. \A i \in 1..h.length : i \in 1..f.length
  <2>1. h.length \in Nat
    BY HeadersAre
  <2>2. g.length \in Nat
    BY <1>3, HeadersAre
  <2>3. QED
    BY <1>3, <1>9, <2>1, <2>2
<1>13. ASSUME NEW other, other # name PROVE ValuesOf(f, other) = ValuesOf(h, other)
  <2>1. CASE HasName(h, other)
    <3>1. PICK i \in 1..h.length : h.slots[i].name = other
      BY <2>1 DEF HasName
    <3>2. i \in 1..f.length /\ i # at /\ f.slots[i] = h.slots[i]
      BY <1>3, <1>9, <1>11, <1>12, <1>13, <3>1
    <3>3. ValuesOf(f, f.slots[i].name) = f.slots[i].values
      BY <1>9, <3>2, ValuesAre
    <3>4. ValuesOf(h, h.slots[i].name) = h.slots[i].values
      BY ValuesAre
    <3>5. QED
      BY <3>1, <3>2, <3>3, <3>4
  <2>2. CASE ~HasName(h, other)
    <3>1. ~HasName(f, other)
      BY <1>9, <1>11, <1>13, <2>2 DEF HasName
    <3>2. ValuesOf(f, other) = <<>>
      BY <1>9, <3>1, ValuesAre
    <3>3. ValuesOf(h, other) = <<>>
      BY <2>2, ValuesAre
    <3>4. QED
      BY <3>2, <3>3
  <2>3. QED
    BY <2>1, <2>2
<1>14. vs # <<>> => now # <<>>
  <2>1. Len(now) = Len(old) + Len(vs) /\ Len(old) \in Nat /\ Len(vs) \in Nat
    BY <1>6
  <2>2. vs # <<>> => Len(vs) # 0
    OBVIOUS
  <2>3. QED
    BY <2>1, <2>2
<1>15. ASSUME vs # <<>>, Filled(h) PROVE Filled(f)
  BY <1>9, <1>11, <1>14, <1>15 DEF Filled
<1>16. QED
  BY <1>5, <1>6, <1>8, <1>9, <1>10, <1>13, <1>15

-----------------------------------------------------------------------------
(* The lines of a message.                                                 *)

LEMMA MessagesAre ==
    ASSUME NEW m \in Messages
    PROVE  /\ m.bytes \in Seq(Bytes) /\ Len(m.bytes) \in Nat
           /\ m.lines \in Seq(Lines) /\ Len(m.lines) \in Nat
           /\ \A k \in 1..Len(m.lines) :
                 /\ m.lines[k].from \in Nat /\ m.lines[k].to \in Nat
                 /\ m.lines[k].name \in Names \union {NoName} /\ m.lines[k].words \in BOOLEAN
                 /\ m.lines[k].values \in Seq(Nat \union {NotANumber})
           /\ LinesOfHead(m)
<1>1. m.bytes \in Seq(Bytes) /\ m.lines \in Seq(Lines) /\ LinesOfHead(m)
  BY MessageAssumption
<1>2. \A k \in 1..Len(m.lines) : m.lines[k] \in Lines
  <2>1. \A S : \A s \in Seq(S) : \A k \in 1..Len(s) : s[k] \in S
    OBVIOUS
  <2>2. QED
    BY <1>1, <2>1
<1>3. Len(m.bytes) \in Nat /\ Len(m.lines) \in Nat
  BY <1>1
<1>4. ASSUME NEW k \in 1..Len(m.lines)
      PROVE  /\ m.lines[k].from \in Nat /\ m.lines[k].to \in Nat
             /\ m.lines[k].name \in Names \union {NoName} /\ m.lines[k].words \in BOOLEAN
             /\ m.lines[k].values \in Seq(Nat \union {NotANumber})
  BY <1>2 DEF Lines
<1>5. QED
  BY <1>1, <1>3, <1>4

\* A line starts behind the line end of every line before it.
LEMMA LinesFollow ==
    ASSUME NEW m \in Messages, NEW j \in 1..Len(m.lines), NEW k \in 1..Len(m.lines), j < k
    PROVE  m.lines[j].to + 2 <= m.lines[k].from
<1> DEFINE L == m.lines
           S == {d \in Nat : j + d + 1 <= Len(L) => L[j].to + 2 <= L[j + d + 1].from}
<1>1. /\ Len(L) \in Nat /\ \A i \in 1..Len(L) : L[i].from \in Nat /\ L[i].to \in Nat
      /\ \A i \in 1..Len(L) : IsLine(m, i)
  BY MessagesAre DEF LinesOfHead
<1>2. ASSUME NEW i \in 1..Len(L), i + 1 <= Len(L)
      PROVE  L[i + 1].from = L[i].to + 2 /\ L[i + 1].from <= L[i + 1].to
  <2>1. i + 1 \in 1..Len(L) /\ i + 1 # 1 /\ (i + 1) - 1 = i
    BY <1>1, <1>2
  <2>2. IsLine(m, i + 1)
    BY <1>1, <2>1
  <2>3. QED
    BY <2>1, <2>2 DEF IsLine, LineStart
<1>3. 0 \in S
  <2>1. j + 0 + 1 = j + 1
    OBVIOUS
  <2>2. ASSUME j + 1 <= Len(L) PROVE L[j].to + 2 <= L[j + 1].from
    <3>1. j + 1 \in 1..Len(L)
      BY <1>1, <2>2
    <3>2. QED
      BY <1>1, <1>2, <2>2, <3>1
  <2>3. QED
    BY <2>1, <2>2
<1>4. ASSUME NEW d \in S PROVE d + 1 \in S
  <2>1. d \in Nat /\ j \in Nat
    OBVIOUS
  <2>2. ASSUME j + (d + 1) + 1 <= Len(L) PROVE L[j].to + 2 <= L[j + (d + 1) + 1].from
    <3>1. PICK i \in 1..Len(L) : i = j + d + 1 /\ i + 1 = j + (d + 1) + 1
      BY <1>1, <2>1, <2>2
    <3>2. i + 1 \in 1..Len(L)
      BY <1>1, <2>2, <3>1
    <3>3. L[j].to + 2 <= L[i].from
      BY <1>1, <1>4, <3>1
    <3>4. L[i].from <= L[i].to
      BY <1>1 DEF IsLine
    <3>5. L[i + 1].from = L[i].to + 2
      BY <1>1, <1>2, <3>2
    <3>6. L[j].to \in Nat /\ L[i].from \in Nat /\ L[i].to \in Nat
      BY <1>1
    <3> HIDE DEF L
    <3>a. \A a, b, c \in Nat : a + 2 <= b /\ b <= c => a + 2 <= c + 2
      OBVIOUS
    <3>b. L[j].to + 2 <= L[i].to + 2
      BY <3>3, <3>4, <3>6, <3>a
    <3>7. L[j].to + 2 <= L[i + 1].from
      BY <3>5, <3>b
    <3>8. QED
      BY <3>1, <3>7
  <2>3. QED
    BY <2>1, <2>2
<1>5. S = Nat
  <2>1. S \in SUBSET Nat
    OBVIOUS
  <2> HIDE DEF S
  <2>2. QED
    BY <1>3, <1>4, <2>1, InductionOnNat
<1>6. PICK d \in Nat : j + d + 1 = k
  <2>1. k - j - 1 \in Nat /\ j + (k - j - 1) + 1 = k
    BY <1>1
  <2>2. QED
    BY <2>1
<1>7. d \in S
  BY <1>5
<1>8. QED
  BY <1>1, <1>6, <1>7

\* The head is all lines, and its length is the end of the last.
LEMMA HeadIs ==
    ASSUME NEW m \in Messages, HasHead(m)
    PROVE  /\ Len(m.lines) \in Nat \ {0} /\ HeadLength(m) \in Nat /\ HeadLength(m) >= 2
           /\ m.lines[Len(m.lines)].from = m.lines[Len(m.lines)].to
           /\ m.lines[Len(m.lines)].name = NoName /\ ~m.lines[Len(m.lines)].words
           /\ \A k \in 1..Len(m.lines) : m.lines[k].to + 2 <= HeadLength(m)
           /\ HeadLength(m) <= Len(m.bytes)
<1>1. /\ m.lines \in Seq(Lines) /\ Len(m.lines) \in Nat
      /\ \A k \in 1..Len(m.lines) : m.lines[k].from \in Nat /\ m.lines[k].to \in Nat
      /\ \A k \in 1..Len(m.lines) : IsLine(m, k)
  BY MessagesAre DEF LinesOfHead
<1>2. Len(m.lines) # 0
  BY <1>1 DEF HasHead
<1>3. PICK n \in 1..Len(m.lines) : n = Len(m.lines)
  BY <1>1, <1>2
<1>4. m.lines[n].from = m.lines[n].to
  BY <1>3 DEF HasHead
<1>5. /\ m.lines[n].name = NoName /\ ~m.lines[n].words /\ m.lines[n].to + 2 <= Len(m.bytes)
  BY <1>1, <1>4 DEF IsLine, LineEndsAt
<1>6. ASSUME NEW k \in 1..Len(m.lines) PROVE m.lines[k].to + 2 <= m.lines[n].to + 2
  <2>1. CASE k = n
    BY <1>1, <2>1
  <2>2. CASE k # n
    <3>1. k < n
      BY <1>1, <1>3, <2>2
    <3>2. m.lines[k].to + 2 <= m.lines[n].from
      BY <3>1, LinesFollow
    <3>3. QED
      BY <1>1, <1>4, <3>2
  <2>3. QED
    BY <2>1, <2>2
<1>7. HeadLength(m) = m.lines[n].to + 2
  BY <1>3 DEF HeadLength
<1>8. QED
  BY <1>1, <1>2, <1>3, <1>4, <1>5, <1>6, <1>7

\* The values a header has been given up to a line, from those up to the line before.
LEMMA ValuesToIs ==
    ASSUME NEW m \in Messages, NEW name
    PROVE  LET upTo == ValuesTo(m, name)
           IN  /\ 1 <= Len(m.lines) => upTo[1] = <<>>
               /\ \A k \in 1..Len(m.lines) :
                     k # 1 => upTo[k] = IF m.lines[k].name = name
                                        THEN upTo[k - 1] \o m.lines[k].values ELSE upTo[k - 1]
<1> DEFINE L == m.lines
           After(f, k) == IF k = 1 THEN <<>>
                          ELSE IF L[k].name = name THEN f[k - 1] \o L[k].values ELSE f[k - 1]
           Fits(f, n) == f = [k \in 1..n |-> After(f, k)]
           S == {n \in Nat : \E f : Fits(f, n)}
<1>1. 0 \in S
  <2>1. \A f : [k \in 1..0 |-> After(f, k)] = [k \in {} |-> 0]
    OBVIOUS
  <2>2. Fits([k \in {} |-> 0], 0)
    BY <2>1
  <2>3. QED
    BY <2>2
<1>2. ASSUME NEW n \in S PROVE n + 1 \in S
  <2>1. PICK f : Fits(f, n)
    OBVIOUS
  <2>2. n \in Nat
    OBVIOUS
  <2> DEFINE g == [k \in 1..(n + 1) |-> IF k <= n THEN f[k] ELSE After(f, k)]
  <2>3. ASSUME NEW k \in 1..(n + 1) PROVE g[k] = After(g, k)
    <3>1. CASE k <= n
      <4>1. k \in 1..n /\ g[k] = f[k]
        BY <2>2, <3>1
      <4>2. f[k] = After(f, k)
        BY <2>1, <4>1
      <4>3. k # 1 => k - 1 \in 1..(n + 1) /\ k - 1 <= n
        BY <2>2, <4>1
      <4>4. k # 1 => g[k - 1] = f[k - 1]
        BY <4>3
      <4> HIDE DEF g
      <4>5. QED
        BY <4>1, <4>2, <4>4
    <3>2. CASE ~(k <= n)
      <4>1. g[k] = After(f, k)
        BY <3>2
      <4>2. k # 1 => k - 1 \in 1..(n + 1) /\ k - 1 <= n
        BY <2>2, <3>2
      <4>3. k # 1 => g[k - 1] = f[k - 1]
        BY <4>2
      <4> HIDE DEF g
      <4>4. QED
        BY <4>1, <4>3
    <3>3. QED
      BY <3>1, <3>2
  <2>4. g = [k \in 1..(n + 1) |-> g[k]]
    OBVIOUS
  <2> HIDE DEF g
  <2>5. Fits(g, n + 1)
    BY <2>3, <2>4
  <2>6. \E h : Fits(h, n + 1)
    <3> HIDE DEF Fits
    <3>1. QED
      BY <2>5
  <2>7. n + 1 \in Nat
    BY <2>2
  <2> HIDE DEF Fits
  <2>8. QED
    BY <2>6, <2>7
<1>3. S = Nat
  <2>1. S \in SUBSET Nat
    OBVIOUS
  <2> HIDE DEF S
  <2>2. QED
    BY <1>1, <1>2, <2>1, InductionOnNat
<1>4. PICK n \in Nat : n = Len(L)
  BY MessagesAre
<1>5. \E f : Fits(f, n)
  BY <1>3
<1>6. ValuesTo(m, name) = CHOOSE f : f = [k \in 1..n |-> After(f, k)]
  BY <1>4 DEF ValuesTo
<1>7. Fits(ValuesTo(m, name), n)
  BY <1>5, <1>6
<1>8. \A k \in 1..n : ValuesTo(m, name)[k] = After(ValuesTo(m, name), k)
  BY <1>7
<1>9. QED
  BY <1>4, <1>8

-----------------------------------------------------------------------------
(* The inductive invariant.                                                *)

ValuesUpTo(k, name) == IF k = 0 THEN <<>> ELSE ValuesTo(msg, name)[k]

\* The first k lines have been scanned, and the headers are those they give.
Scanned(k) ==
    /\ end_of_last_line = LineStart(msg, k + 1)
    /\ found_request_line = (k # 0)
    /\ k # 0 => msg.lines[1].words
    /\ \A j \in 2..k : msg.lines[j].name # NoName
    /\ \A name \in Names : ValuesOf(headers, name) = ValuesUpTo(k, name)

\* The head has been found at its place, and how much is read after it is known.
HeadFound ==
    /\ HasHead(msg) /\ Len(msg.lines) > 1
    /\ start_of_body = HeadLength(msg) /\ HeadLength(msg) <= read
    /\ Len(ValuesIn(msg, "Content-Length")) <= 1
    /\ ContentLength(msg) # NotANumber
    /\ expected_content_length = ContentLength(msg)
    /\ \/ ContentLength(msg) = 0 /\ max_read_length <= read
       \/ max_read_length + 2 = HeadLength(msg) + ContentLength(msg)

\* The scan is at the start of a line: of the one that ends the head once that is found.
ScanInv ==
    \E k \in 0..Len(msg.lines) :
        /\ Scanned(k)
        /\ found_end_of_header => HeadFound /\ k = Len(msg.lines) - 1

\* What is left to scan when the next read is made.
ReadInv ==
    /\ ~found_end_of_header => max_read_length = MaxRead
    /\ parsing = "scan" => ~found_end_of_header
    /\ parsing = "read" /\ ~found_end_of_header => LineEnds = {}
    /\ parsing = "accepted" =>
          found_end_of_header /\ read - start_of_body = expected_content_length

RequestInv ==
    /\ RequestTypeOK /\ end_of_last_line <= read
    /\ OneEach(headers) /\ Filled(headers)
    /\ ScanInv /\ ReadInv /\ RejectedOnlyIfCut

LEMMA RequestTypes ==
    ASSUME RequestInv
    PROVE  /\ msg \in Messages /\ read \in Nat /\ Len(msg.bytes) \in Nat /\ read <= Len(msg.bytes)
           /\ end_of_last_line \in Nat /\ end_of_last_line <= read
           /\ headers \in HeadersOf(Names, Nat \union {NotANumber})
           /\ max_read_length \in Nat /\ start_of_body \in Nat /\ expected_content_length \in Nat
           /\ found_request_line \in BOOLEAN /\ found_end_of_header \in BOOLEAN /\ ended \in BOOLEAN
<1>1. /\ msg \in Messages /\ read \in 0..Len(msg.bytes) /\ end_of_last_line \in 0..Len(msg.bytes)
      /\ end_of_last_line <= read
      /\ headers \in HeadersOf(Names, Nat \union {NotANumber})
      /\ max_read_length \in Nat /\ start_of_body \in 0..Len(msg.bytes)
      /\ expected_content_length \in Nat
      /\ found_request_line \in BOOLEAN /\ found_end_of_header \in BOOLEAN /\ ended \in BOOLEAN
  BY DEF RequestInv, RequestTypeOK
<1>2. Len(msg.bytes) \in Nat
  BY <1>1, MessagesAre
<1>3. QED
  BY <1>1, <1>2

\* Once all lines have been scanned there was no empty one among them.
LEMMA NotAllScanned ==
    ASSUME msg \in Messages, NEW k \in 0..Len(msg.lines), Scanned(k), HasHead(msg)
    PROVE  k # Len(msg.lines)
<1>1. /\ Len(msg.lines) \in Nat \ {0}
      /\ msg.lines[Len(msg.lines)].name = NoName /\ ~msg.lines[Len(msg.lines)].words
  BY HeadIs
<1>2. ASSUME k = Len(msg.lines) PROVE FALSE
  <2>1. CASE k = 1
    BY <1>1, <1>2, <2>1 DEF Scanned
  <2>2. CASE k # 1
    <3>1. k \in 2..k
      BY <1>1, <1>2, <2>2
    <3>2. QED
      BY <1>1, <1>2, <3>1 DEF Scanned
  <2>3. QED
    BY <2>1, <2>2
<1>3. QED
  BY <1>2

\* A line end that the scan finds is that of the next line of the message, and what it
\* finds there is what that line says.
LEMMA NextLineIs ==
    ASSUME RequestInv, NEW k \in 0..Len(msg.lines), Scanned(k),
           NEW i \in LineEnds, IsNextLineEnd(i)
    PROVE  /\ k + 1 \in 1..Len(msg.lines)
           /\ i \in Nat /\ i = msg.lines[k + 1].to /\ end_of_last_line = msg.lines[k + 1].from
           /\ LineTo(i) = msg.lines[k + 1]
           /\ i + 2 <= read /\ i + 2 <= Len(msg.bytes)
<1>1. /\ msg \in Messages /\ read \in Nat /\ Len(msg.bytes) \in Nat /\ read <= Len(msg.bytes)
      /\ end_of_last_line \in Nat /\ end_of_last_line <= read
  BY RequestTypes
<1>2. /\ Len(msg.lines) \in Nat /\ LinesOfHead(msg)
      /\ \A j \in 1..Len(msg.lines) : msg.lines[j].from \in Nat /\ msg.lines[j].to \in Nat
  BY <1>1, MessagesAre
<1>3. \A j \in LineEnds : /\ j \in end_of_last_line..(read - 2) /\ j \in Nat
                          /\ j + 2 <= read /\ j + 2 <= Len(msg.bytes)
                          /\ LineEndsAt(msg, j)
  <2>1. ASSUME NEW j \in LineEnds
        PROVE  /\ j \in end_of_last_line..(read - 2) /\ j \in Nat
               /\ j + 2 <= read /\ j + 2 <= Len(msg.bytes)
               /\ LineEndsAt(msg, j)
    <3>1. j \in end_of_last_line..(read - 2) /\ At(j) = "CR" /\ At(j + 1) = "LF"
      BY DEF LineEnds
    <3>2. j \in Nat /\ j + 2 <= read /\ j + 2 <= Len(msg.bytes) /\ (j + 1) + 1 = j + 2
      BY <1>1, <3>1
    <3>3. QED
      BY <3>1, <3>2 DEF At, LineEndsAt
  <2>2. QED
    BY <2>1
<1>4. \A j \in end_of_last_line..(read - 2) : LineEndsAt(msg, j) => j \in LineEnds
  <2>1. ASSUME NEW j \in end_of_last_line..(read - 2), LineEndsAt(msg, j) PROVE j \in LineEnds
    <3>1. (j + 1) + 1 = j + 2
      BY <1>1
    <3>2. QED
      BY <2>1, <3>1 DEF LineEndsAt, LineEnds, At
  <2>2. QED
    BY <2>1
<1>5. i \in Nat /\ i + 2 <= read /\ i + 2 <= Len(msg.bytes) /\ LineEndsAt(msg, i)
      /\ end_of_last_line <= i
  BY <1>1, <1>3
<1>6. end_of_last_line = LineStart(msg, k + 1)
  BY DEF Scanned
<1>7. k # Len(msg.lines)
  <2>1. CASE HasHead(msg)
    BY <1>1, <2>1, NotAllScanned
  <2>2. CASE ~HasHead(msg)
    <3>1. \A j \in LineStart(msg, Len(msg.lines) + 1)..Len(msg.bytes) : ~LineEndsAt(msg, j)
      BY <1>2, <2>2 DEF LinesOfHead
    <3>2. i \in end_of_last_line..Len(msg.bytes)
      BY <1>1, <1>5
    <3>3. QED
      BY <1>5, <1>6, <3>1, <3>2
  <2>3. QED
    BY <2>1, <2>2
<1>8. PICK n \in 1..Len(msg.lines) : n = k + 1
  <2>1. k + 1 \in 1..Len(msg.lines)
    BY <1>2, <1>7
  <2>2. QED
    BY <2>1
<1>9. PICK from \in Nat, to \in Nat : /\ from = msg.lines[n].from /\ to = msg.lines[n].to
                                      /\ from = end_of_last_line /\ from <= to
                                      /\ LineEndsAt(msg, to)
                                      /\ \A j \in from..(to - 1) : ~LineEndsAt(msg, j)
  BY <1>2, <1>6, <1>8 DEF LinesOfHead, IsLine
<1>10. i = to
  <2>1. ~(i < to)
    <3>1. i < to => i \in from..(to - 1)
      BY <1>5, <1>9
    <3>2. QED
      BY <1>5, <1>9, <3>1
  <2>2. ~(to < i)
    <3>1. ASSUME to < i PROVE FALSE
      <4>1. to \in end_of_last_line..(read - 2)
        BY <1>1, <1>5, <1>9, <3>1
      <4>2. to \in LineEnds
        BY <1>4, <1>9, <4>1
      <4>3. i <= to
        BY <4>2 DEF IsNextLineEnd
      <4>4. QED
        BY <1>5, <3>1, <4>3
    <3>2. QED
      BY <3>1
  <2>3. QED
    BY <1>5, <2>1, <2>2
<1>11. LineTo(i) = msg.lines[n]
  <2> DEFINE found == {j \in 1..Len(msg.lines) : /\ msg.lines[j].from = end_of_last_line
                                                 /\ msg.lines[j].to = i}
  <2>1. n \in found
    BY <1>9, <1>10
  <2>2. ASSUME NEW j \in found PROVE j = n
    <3>1. j \in 1..Len(msg.lines) /\ msg.lines[j].from = from /\ msg.lines[j].to = to
      BY <1>9, <1>10
    <3>2. ~(j < n)
      <4>1. j < n => msg.lines[j].to + 2 <= msg.lines[n].from
        BY <1>1, <3>1, LinesFollow
      <4>2. QED
        BY <1>9, <3>1, <4>1
    <3>3. ~(n < j)
      <4>1. n < j => msg.lines[n].to + 2 <= msg.lines[j].from
        BY <1>1, <3>1, LinesFollow
      <4>2. QED
        BY <1>9, <3>1, <4>1
    <3>4. QED
      BY <1>2, <3>1, <3>2, <3>3
  <2>3. found = {n}
    BY <2>1, <2>2
  <2>4. LineTo(i) = msg.lines[CHOOSE j \in found : TRUE]
    BY <2>1 DEF LineTo
  <2> HIDE DEF found
  <2>5. (CHOOSE j \in found : TRUE) = n
    BY <2>3
  <2>6. QED
    BY <2>4, <2>5
<1>12. QED
  BY <1>5, <1>8, <1>9, <1>10, <1>11

-----------------------------------------------------------------------------
(* The actions.                                                            *)

\* A structure that is used again has no headers.
LEMMA ClearedHeaders ==
    ASSUME NEW N, NEW V, NEW h \in HeadersOf(N, V)
    PROVE  /\ HeadersClear(h) \in HeadersOf(N, V) /\ HeadersClear(h).length = 0
           /\ OneEach(HeadersClear(h))
           /\ Filled(HeadersClear(h))
           /\ \A name : ValuesOf(HeadersClear(h), name) = <<>>
<1>1. PICK c : c = HeadersClear(h)
  OBVIOUS
<1>2. c \in HeadersOf(N, V) /\ c.length = 0
  <2>1. Len(h.slots) \in Nat
    BY HeadersAre
  <2>2. QED
    BY <1>1, <2>1 DEF HeadersClear, HeadersOf
<1>3. OneEach(c) /\ \A name : ~HasName(c, name)
  BY <1>2 DEF OneEach, HasName
<1>4. \A name : ValuesOf(c, name) = <<>>
  BY <1>2, <1>3, ValuesAre
<1>5. Filled(c)
  BY <1>2 DEF Filled
<1>6. QED
  BY <1>1, <1>2, <1>3, <1>4, <1>5

LEMMA NoHeadersAre ==
    /\ NoHeaders \in HeadersOf(Names, Nat \union {NotANumber})
    /\ HeadersClear(NoHeaders) = NoHeaders
BY DEF NoHeaders, HeadersOf, HeadersClear

LEMMA RequestStart == Init => RequestInv
<1> SUFFICES ASSUME Init PROVE RequestInv
  OBVIOUS
<1>1. /\ msg \in Messages /\ read = 0 /\ ended = FALSE /\ parsing = "idle" /\ end_of_last_line = 0
      /\ found_request_line = FALSE /\ found_end_of_header = FALSE /\ start_of_body = 0
      /\ max_read_length = MaxRead /\ expected_content_length = 0 /\ headers = NoHeaders
  BY DEF Init, RequestInit
<1>2. Len(msg.bytes) \in Nat /\ Len(msg.lines) \in Nat /\ MaxRead \in Nat
  BY <1>1, MessagesAre, SizeAssumption
<1>3. /\ headers \in HeadersOf(Names, Nat \union {NotANumber}) /\ OneEach(headers)
      /\ Filled(headers)
      /\ \A name : ValuesOf(headers, name) = <<>>
  <2>1. NoHeaders \in HeadersOf(Names, Nat \union {NotANumber})
        /\ HeadersClear(NoHeaders) = NoHeaders
    BY NoHeadersAre
  <2>2. PICK h \in HeadersOf(Names, Nat \union {NotANumber}) : h = headers /\ HeadersClear(h) = h
    BY <1>1, <2>1
  <2>3. /\ OneEach(HeadersClear(h))
        /\ Filled(HeadersClear(h))
        /\ \A name : ValuesOf(HeadersClear(h), name) = <<>>
    BY ClearedHeaders
  <2>4. QED
    BY <2>2, <2>3
<1>4. RequestTypeOK
  <2>1. 0 \in 0..Len(msg.bytes)
    BY <1>2
  <2>2. headers \in HeadersOf(Names, Nat \union {NotANumber})
    BY <1>3
  <2>3. ended \in BOOLEAN /\ found_request_line \in BOOLEAN /\ found_end_of_header \in BOOLEAN
    BY <1>1
  <2>4. QED
    BY <1>1, <1>2, <2>1, <2>2, <2>3 DEF RequestTypeOK
<1>5. Scanned(0)
  <2>1. 0 + 1 = 1 /\ 2..0 = {}
    OBVIOUS
  <2>2. found_request_line = (0 # 0)
    BY <1>1
  <2>3. QED
    BY <1>1, <1>3, <2>1, <2>2 DEF Scanned, LineStart, ValuesUpTo
<1>6. ScanInv
  BY <1>1, <1>2, <1>5 DEF ScanInv
<1>7. QED
  BY <1>1, <1>3, <1>4, <1>6 DEF RequestInv, ReadInv, RejectedOnlyIfCut

LEMMA BeginKeeps ==
    ASSUME RequestInv, NEW m \in Messages, ParseBegin(m)
    PROVE  RequestInv'
<1>1. /\ msg' = m /\ read' = 0 /\ ended' = FALSE /\ parsing' = "read" /\ end_of_last_line' = 0
      /\ found_request_line' = FALSE /\ found_end_of_header' = FALSE /\ start_of_body' = 0
      /\ max_read_length' = MaxRead /\ expected_content_length' = 0
      /\ headers' = HeadersClear(headers)
  BY DEF ParseBegin
<1>2. Len(m.bytes) \in Nat /\ Len(m.lines) \in Nat /\ MaxRead \in Nat
  BY MessagesAre, SizeAssumption
<1>3. /\ headers' \in HeadersOf(Names, Nat \union {NotANumber}) /\ OneEach(headers')
      /\ Filled(headers')
      /\ \A name : ValuesOf(headers', name) = <<>>
  <2>1. PICK h \in HeadersOf(Names, Nat \union {NotANumber}) : h = headers
    BY RequestTypes
  <2>2. /\ HeadersClear(h) \in HeadersOf(Names, Nat \union {NotANumber})
        /\ OneEach(HeadersClear(h))
        /\ Filled(HeadersClear(h))
        /\ \A name : ValuesOf(HeadersClear(h), name) = <<>>
    BY ClearedHeaders
  <2>3. headers' = HeadersClear(h)
    BY <1>1, <2>1
  <2>4. QED
    BY <2>2, <2>3
<1>4. RequestTypeOK'
  <2>1. 0 \in 0..Len(m.bytes)
    BY <1>2
  <2>2. headers' \in HeadersOf(Names, Nat \union {NotANumber})
    BY <1>3
  <2>3. ended' \in BOOLEAN /\ found_request_line' \in BOOLEAN /\ found_end_of_header' \in BOOLEAN
    BY <1>1
  <2>4. QED
    BY <1>1, <1>2, <2>1, <2>2, <2>3 DEF RequestTypeOK
<1>5. Scanned(0)'
  <2>1. 0 + 1 = 1 /\ 2..0 = {}
    OBVIOUS
  <2>2. found_request_line' = (0 # 0)
    BY <1>1
  <2>3. QED
    BY <1>1, <1>3, <2>1, <2>2 DEF Scanned, LineStart, ValuesUpTo
<1>6. ScanInv'
  BY <1>1, <1>2, <1>5 DEF ScanInv
<1>7. LineEnds' = {}
  <2>1. 0..(0 - 2) = {}
    OBVIOUS
  <2>2. QED
    BY <1>1, <2>1 DEF LineEnds
<1>8. QED
  BY <1>1, <1>3, <1>4, <1>6, <1>7 DEF RequestInv, ReadInv, RejectedOnlyIfCut

\* What has been scanned stays so while more is read.
LEMMA ScanKept ==
    ASSUME RequestInv, UNCHANGED <<msg, scanVars>>, read' \in Nat, read <= read'
    PROVE  ScanInv'
<1>1. UNCHANGED <<msg, end_of_last_line, found_request_line, found_end_of_header, start_of_body,
                  max_read_length, expected_content_length, headers>>
  BY DEF scanVars
<1>2. PICK k \in 0..Len(msg.lines) :
          Scanned(k) /\ (found_end_of_header => HeadFound /\ k = Len(msg.lines) - 1)
  BY DEF RequestInv, ScanInv
<1>3. Scanned(k)'
  BY <1>1, <1>2 DEF Scanned, ValuesUpTo
<1>4. HeadFound => HeadFound'
  <2>1. ASSUME HeadFound PROVE HeadFound'
    <3>1. HeadLength(msg) \in Nat /\ read \in Nat /\ max_read_length \in Nat
      BY <2>1, RequestTypes, HeadIs DEF HeadFound
    <3>2. HeadLength(msg) <= read' /\ (max_read_length <= read => max_read_length <= read')
      BY <2>1, <3>1 DEF HeadFound
    <3>3. QED
      BY <1>1, <2>1, <3>2 DEF HeadFound
  <2>2. QED
    BY <2>1
<1>5. QED
  BY <1>1, <1>2, <1>3, <1>4 DEF ScanInv

LEMMA ReadKeeps ==
    ASSUME RequestInv, NEW n \in 1..Chunk, Read(n)
    PROVE  RequestInv'
<1>1. /\ parsing = "read" /\ read' = read + n /\ read + n <= Len(msg.bytes)
      /\ parsing' = IF found_request_line /\ found_end_of_header THEN "read" ELSE "scan"
      /\ UNCHANGED <<msg, ended, scanVars>>
  BY DEF Read
<1>2. UNCHANGED <<end_of_last_line, found_request_line, found_end_of_header, start_of_body,
                  max_read_length, expected_content_length, headers>>
  BY <1>1 DEF scanVars
<1>3. /\ read \in Nat /\ Len(msg.bytes) \in Nat /\ n \in Nat /\ end_of_last_line \in Nat
      /\ end_of_last_line <= read
  BY RequestTypes, SizeAssumption
<1>4. read' \in Nat /\ read <= read' /\ read' \in 0..Len(msg.bytes) /\ end_of_last_line <= read'
  BY <1>1, <1>3
<1>5. ScanInv'
  BY <1>1, <1>4, ScanKept
<1>6. found_end_of_header => found_request_line
  <2>1. ASSUME found_end_of_header PROVE found_request_line
    <3>1. PICK k \in 0..Len(msg.lines) :
              Scanned(k) /\ (found_end_of_header => HeadFound /\ k = Len(msg.lines) - 1)
      BY DEF RequestInv, ScanInv
    <3>2. HeadFound
      BY <2>1, <3>1
    <3>3. PICK c \in Nat : c = Len(msg.lines) /\ c > 1
      <4>1. Len(msg.lines) > 1
        BY <3>2 DEF HeadFound
      <4>2. QED
        BY <4>1, RequestTypes, MessagesAre
    <3>4. k = c - 1
      BY <2>1, <3>1, <3>3
    <3>5. k # 0
      <4>1. \A l \in Nat : l > 1 => l - 1 # 0
        OBVIOUS
      <4>2. QED
        BY <3>3, <3>4, <4>1
    <3>6. QED
      BY <3>1, <3>5 DEF Scanned
  <2>2. QED
    BY <2>1
<1>7. ReadInv'
  BY <1>1, <1>2, <1>6 DEF RequestInv, ReadInv
<1>8. RequestTypeOK'
  BY <1>1, <1>2, <1>4 DEF RequestInv, RequestTypeOK
<1>9. RejectedOnlyIfCut'
  BY <1>1 DEF RejectedOnlyIfCut
<1>10. QED
  BY <1>2, <1>4, <1>5, <1>7, <1>8, <1>9 DEF RequestInv

\* Once a whole head has been read its end has been found.
LEMMA HeadIsScanned ==
    ASSUME RequestInv, parsing = "read", HasHead(msg), HeadLength(msg) <= read
    PROVE  found_end_of_header
<1> SUFFICES ASSUME ~found_end_of_header PROVE FALSE
  BY RequestTypes
<1>1. /\ msg \in Messages /\ read \in Nat /\ end_of_last_line \in Nat
  BY RequestTypes
<1>2. PICK k \in 0..Len(msg.lines) : Scanned(k)
  BY DEF RequestInv, ScanInv
<1>3. /\ Len(msg.lines) \in Nat /\ HeadLength(msg) \in Nat
      /\ \A j \in 1..Len(msg.lines) : msg.lines[j].from \in Nat /\ msg.lines[j].to \in Nat
      /\ \A j \in 1..Len(msg.lines) : IsLine(msg, j)
      /\ \A j \in 1..Len(msg.lines) : msg.lines[j].to + 2 <= HeadLength(msg)
  BY <1>1, HeadIs, MessagesAre DEF LinesOfHead
<1>4. PICK n \in 1..Len(msg.lines) : n = k + 1
  <2>1. k # Len(msg.lines)
    BY <1>1, <1>2, NotAllScanned
  <2>2. k + 1 \in 1..Len(msg.lines)
    BY <1>3, <2>1
  <2>3. QED
    BY <2>2
<1>5. PICK to \in Nat : /\ to = msg.lines[n].to /\ end_of_last_line <= to /\ to + 2 <= read
                        /\ LineEndsAt(msg, to)
  <2>1. end_of_last_line = msg.lines[n].from /\ msg.lines[n].from <= msg.lines[n].to
        /\ LineEndsAt(msg, msg.lines[n].to)
    BY <1>2, <1>3, <1>4 DEF Scanned, IsLine
  <2>2. msg.lines[n].to \in Nat /\ msg.lines[n].to + 2 <= HeadLength(msg)
    BY <1>3
  <2>3. msg.lines[n].to + 2 <= read
    BY <1>1, <1>3, <2>2
  <2>4. QED
    BY <2>1, <2>2, <2>3
<1>6. to \in LineEnds
  <2>1. to \in end_of_last_line..(read - 2) /\ (to + 1) + 1 = to + 2
    BY <1>1, <1>5
  <2>2. QED
    BY <1>5, <2>1 DEF LineEnds, LineEndsAt, At
<1>7. LineEnds = {}
  BY DEF RequestInv, ReadInv
<1>8. QED
  BY <1>6, <1>7

\* A step that reads and scans nothing.
LEMMA NothingScanned ==
    ASSUME RequestInv, UNCHANGED <<msg, read, scanVars>>, ended' \in BOOLEAN,
           parsing' \in {"idle", "read", "scan", "accepted", "rejected"},
           ReadInv', RejectedOnlyIfCut'
    PROVE  RequestInv'
<1>1. UNCHANGED <<msg, read, end_of_last_line, found_request_line, found_end_of_header,
                  start_of_body, max_read_length, expected_content_length, headers>>
  BY DEF scanVars
<1>2. read' \in Nat /\ read <= read'
  BY <1>1, RequestTypes
<1>3. ScanInv'
  BY <1>2, ScanKept
<1>4. RequestTypeOK'
  BY <1>1 DEF RequestInv, RequestTypeOK
<1>5. QED
  BY <1>1, <1>3, <1>4 DEF RequestInv

\* A read that fails, or that says that the client has closed its side.
LEMMA EndKeeps ==
    ASSUME RequestInv, ReadFails \/ ReadEnd
    PROVE  RequestInv'
<1>1. /\ ended' = TRUE /\ UNCHANGED <<msg, read, scanVars>>
      /\ parsing' = "rejected" \/ parsing' = Result
  BY DEF ReadFails, ReadEnd
<1>2. UNCHANGED <<found_end_of_header, start_of_body, max_read_length, expected_content_length>>
  BY <1>1 DEF scanVars
<1>3. /\ parsing' \in {"accepted", "rejected"}
      /\ parsing' = "accepted" =>
            found_end_of_header /\ read - start_of_body = expected_content_length
  BY <1>1 DEF Result
<1>4. ReadInv'
  <2>1. ~found_end_of_header' => max_read_length' = MaxRead
    BY <1>2 DEF RequestInv, ReadInv
  <2>2. QED
    BY <1>1, <1>2, <1>3, <2>1 DEF ReadInv
<1>5. RejectedOnlyIfCut'
  BY <1>1 DEF RejectedOnlyIfCut, SendsWhole
<1>6. QED
  BY <1>1, <1>3, <1>4, <1>5, NothingScanned

\* The loop ends because as much has been read as it asks for.
LEMMA EnoughKeeps ==
    ASSUME RequestInv, ReadEnough
    PROVE  RequestInv'
<1>1. /\ parsing = "read" /\ read >= max_read_length /\ parsing' = Result
      /\ UNCHANGED <<msg, read, ended, scanVars>>
  BY DEF ReadEnough
<1>2. UNCHANGED <<found_end_of_header, start_of_body, max_read_length, expected_content_length>>
  BY <1>1 DEF scanVars
<1>3. /\ parsing' \in {"accepted", "rejected"}
      /\ parsing' = "accepted" <=>
            found_end_of_header /\ read - start_of_body = expected_content_length
  BY <1>1 DEF Result
<1>4. ReadInv'
  <2>1. ~found_end_of_header' => max_read_length' = MaxRead
    BY <1>2 DEF RequestInv, ReadInv
  <2>2. QED
    BY <1>1, <1>2, <1>3, <2>1 DEF ReadInv
<1>5. ASSUME parsing' = "rejected", SendsWhole
      PROVE  read \in {Len(msg.bytes) - 2, Len(msg.bytes) - 1} /\ read >= HeadLength(msg)
  <2>1. /\ HasHead(msg) /\ HeadLength(msg) <= MaxRead
        /\ Len(msg.bytes) = HeadLength(msg) + ContentLength(msg)
    BY <1>5 DEF SendsWhole, WholeRequest
  <2>2. /\ msg \in Messages /\ read \in Nat /\ Len(msg.bytes) \in Nat /\ read <= Len(msg.bytes)
        /\ max_read_length \in Nat /\ expected_content_length \in Nat
        /\ found_end_of_header \in BOOLEAN
    BY RequestTypes
  <2>3. HeadLength(msg) \in Nat
    BY <2>1, <2>2, HeadIs
  <2>4. ASSUME ~found_end_of_header PROVE found_end_of_header
    <3>1. max_read_length = MaxRead
      BY <2>4 DEF RequestInv, ReadInv
    <3>2. HeadLength(msg) <= read
      BY <1>1, <2>1, <2>2, <2>3, <3>1
    <3>3. QED
      BY <1>1, <2>1, <3>2, HeadIsScanned
  <2>5. found_end_of_header
    BY <2>2, <2>4
  <2>6. HeadFound
    BY <2>5 DEF RequestInv, ScanInv
  <2>7. /\ start_of_body = HeadLength(msg) /\ HeadLength(msg) <= read
        /\ expected_content_length = ContentLength(msg)
        /\ \/ ContentLength(msg) = 0
           \/ max_read_length + 2 = HeadLength(msg) + ContentLength(msg)
    BY <2>6 DEF HeadFound
  <2>8. read - HeadLength(msg) # ContentLength(msg)
    BY <1>3, <1>5, <2>5, <2>7
  <2>9. PICK length \in Nat : length = ContentLength(msg)
    BY <2>2, <2>7
  <2>10. read # Len(msg.bytes)
    BY <2>1, <2>2, <2>3, <2>8, <2>9
  <2>11. CASE length = 0
    BY <2>1, <2>2, <2>3, <2>7, <2>9, <2>10, <2>11
  <2>12. CASE max_read_length + 2 = HeadLength(msg) + length
    <3>1. read >= Len(msg.bytes) - 2
      BY <1>1, <2>1, <2>2, <2>3, <2>9, <2>12
    <3>2. QED
      BY <2>2, <2>3, <2>7, <2>10, <3>1
  <2>13. QED
    BY <2>7, <2>9, <2>11, <2>12
<1>6. RejectedOnlyIfCut'
  BY <1>1, <1>5 DEF RejectedOnlyIfCut, SendsWhole
<1>7. ended' \in BOOLEAN
  BY <1>1, RequestTypes
<1>8. QED
  BY <1>1, <1>3, <1>4, <1>6, <1>7, NothingScanned

LEMMA NothingKeeps ==
    ASSUME RequestInv, ScanNothing
    PROVE  RequestInv'
<1>1. /\ parsing' = "read" /\ LineEnds = {} /\ UNCHANGED <<msg, read, ended, scanVars>>
  BY DEF ScanNothing
<1>2. UNCHANGED <<end_of_last_line, found_end_of_header, max_read_length>>
  BY <1>1 DEF scanVars
<1>3. LineEnds' = {}
  BY <1>1, <1>2 DEF LineEnds, At
<1>4. ReadInv'
  BY <1>1, <1>2, <1>3 DEF RequestInv, ReadInv
<1>5. ended' \in BOOLEAN
  BY <1>1, RequestTypes
<1>6. QED
  BY <1>1, <1>4, <1>5, NothingScanned DEF RejectedOnlyIfCut

\* Only a message that is no whole request may be rejected by the scan.
LEMMA RejectKeeps ==
    ASSUME RequestInv, Reject, ~SendsWhole
    PROVE  RequestInv'
<1>1. parsing' = "rejected" /\ UNCHANGED <<msg, read, ended, scanVars>>
  BY DEF Reject
<1>2. UNCHANGED <<found_end_of_header, max_read_length>>
  BY <1>1 DEF scanVars
<1>3. ReadInv'
  BY <1>1, <1>2 DEF RequestInv, ReadInv
<1>4. RejectedOnlyIfCut'
  BY <1>1 DEF RejectedOnlyIfCut, SendsWhole
<1>5. ended' \in BOOLEAN
  BY <1>1, RequestTypes
<1>6. QED
  BY <1>1, <1>3, <1>4, <1>5, NothingScanned

\* Where the scan is while it scans.
LEMMA ScanIs ==
    ASSUME RequestInv, parsing = "scan"
    PROVE  /\ ~found_end_of_header /\ max_read_length = MaxRead
           /\ \E k \in 0..Len(msg.lines) : Scanned(k)
BY DEF RequestInv, ReadInv, ScanInv

LEMMA RequestLineKeeps ==
    ASSUME RequestInv, NEW i \in LineEnds, ScanRequestLine(i)
    PROVE  RequestInv'
<1>1. /\ parsing = "scan" /\ IsNextLineEnd(i) /\ ~found_request_line
      /\ \/ ~LineTo(i).words /\ Reject
         \/ /\ LineTo(i).words
            /\ found_request_line' = TRUE /\ end_of_last_line' = i + 2
            /\ UNCHANGED <<msg, read, ended, parsing, found_end_of_header, start_of_body,
                           max_read_length, expected_content_length, headers>>
  BY DEF ScanRequestLine
<1>2. PICK k \in 0..Len(msg.lines) : Scanned(k)
  BY <1>1, ScanIs
<1>3. k = 0
  BY <1>1, <1>2 DEF Scanned
<1>4. /\ k + 1 \in 1..Len(msg.lines)
      /\ i \in Nat /\ i = msg.lines[k + 1].to /\ LineTo(i) = msg.lines[k + 1]
      /\ i + 2 <= read /\ i + 2 <= Len(msg.bytes)
  BY <1>1, <1>2, NextLineIs
<1>5. /\ 1 \in 1..Len(msg.lines) /\ i \in Nat /\ i = msg.lines[1].to
      /\ LineTo(i) = msg.lines[1] /\ i + 2 <= read /\ i + 2 <= Len(msg.bytes)
  BY <1>3, <1>4
<1>6. CASE ~LineTo(i).words /\ Reject
  <2>1. ~SendsWhole
    BY <1>5, <1>6 DEF SendsWhole, WholeRequest
  <2>2. QED
    BY <1>6, <2>1, RejectKeeps
<1>7. CASE /\ LineTo(i).words
           /\ found_request_line' = TRUE /\ end_of_last_line' = i + 2
           /\ UNCHANGED <<msg, read, ended, parsing, found_end_of_header, start_of_body,
                          max_read_length, expected_content_length, headers>>
  <2>1. Scanned(1)'
    <3>1. 2..1 = {} /\ 1 # 0 /\ 1 + 1 = 2 /\ 2 # 1 /\ 2 - 1 = 1
      OBVIOUS
    <3>2. end_of_last_line' = LineStart(msg, 1 + 1)
      BY <1>5, <1>7, <3>1 DEF LineStart
    <3>3. found_request_line' = (1 # 0)
      <4>1. found_request_line' = TRUE
        BY <1>7
      <4>2. (1 # 0) = TRUE
        OBVIOUS
      <4>3. QED
        BY <4>1, <4>2
    <3>4. \A name \in Names : ValuesOf(headers, name) = <<>>
      BY <1>2, <1>3 DEF Scanned, ValuesUpTo
    <3>5. \A name : ValuesTo(msg, name)[1] = <<>>
      BY <1>5, RequestTypes, ValuesToIs
    <3>6. \A name \in Names : ValuesOf(headers', name) = ValuesUpTo(1, name)'
      BY <1>7, <3>4, <3>5 DEF ValuesUpTo
    <3>7. QED
      BY <1>5, <1>7, <3>1, <3>2, <3>3, <3>6 DEF Scanned
  <2>2. ~found_end_of_header'
    BY <1>1, <1>7, ScanIs
  <2>3. ScanInv'
    BY <1>5, <1>7, <2>1, <2>2 DEF ScanInv
  <2>4. ReadInv'
    BY <1>1, <1>7, <2>2, ScanIs DEF ReadInv
  <2>5. end_of_last_line' \in 0..Len(msg.bytes) /\ end_of_last_line' <= read
    BY <1>5, <1>7, RequestTypes
  <2>6. found_request_line' \in BOOLEAN
    BY <1>7
  <2>7. RequestTypeOK'
    BY <1>7, <2>5, <2>6 DEF RequestInv, RequestTypeOK
  <2>8. RejectedOnlyIfCut'
    BY <1>1, <1>7 DEF RejectedOnlyIfCut
  <2>9. QED
    BY <1>7, <2>3, <2>4, <2>5, <2>7, <2>8 DEF RequestInv
<1>8. QED
  BY <1>1, <1>6, <1>7

LEMMA HeaderKeeps ==
    ASSUME RequestInv, NEW i \in LineEnds, ScanHeader(i)
    PROVE  RequestInv'
<1>1. /\ parsing = "scan" /\ IsNextLineEnd(i) /\ found_request_line /\ i # end_of_last_line
      /\ \/ LineTo(i).name = NoName /\ Reject
         \/ /\ LineTo(i).name # NoName
            /\ headers' = AppendAll(headers, LineTo(i).name, LineTo(i).values)
            /\ end_of_last_line' = i + 2
            /\ UNCHANGED <<msg, read, ended, parsing, found_request_line, found_end_of_header,
                           start_of_body, max_read_length, expected_content_length>>
  BY DEF ScanHeader, AppendAll
<1>2. PICK k \in 0..Len(msg.lines) : Scanned(k)
  BY <1>1, ScanIs
<1>3. k # 0
  BY <1>1, <1>2 DEF Scanned
<1>4. /\ k + 1 \in 1..Len(msg.lines)
      /\ i \in Nat /\ i = msg.lines[k + 1].to /\ end_of_last_line = msg.lines[k + 1].from
      /\ LineTo(i) = msg.lines[k + 1] /\ i + 2 <= read /\ i + 2 <= Len(msg.bytes)
  BY <1>1, <1>2, NextLineIs
<1>5. PICK n \in 1..Len(msg.lines) : n = k + 1
  BY <1>4
<1>6. /\ i = msg.lines[n].to /\ i # msg.lines[n].from /\ LineTo(i) = msg.lines[n]
  BY <1>1, <1>4, <1>5
<1>7. msg \in Messages /\ Len(msg.lines) \in Nat /\ k \in Nat /\ n \in Nat /\ n # 1 /\ n - 1 = k
  BY <1>3, <1>5, RequestTypes, MessagesAre
<1>8. CASE LineTo(i).name = NoName /\ Reject
  <2>1. ASSUME SendsWhole PROVE FALSE
    <3>1. HasHead(msg) /\ \A j \in HeaderLines(msg) : msg.lines[j].name # NoName
      BY <2>1 DEF SendsWhole, WholeRequest
    <3>2. n # Len(msg.lines)
      BY <1>6, <3>1 DEF HasHead
    <3>3. n \in HeaderLines(msg)
      BY <1>7, <3>2 DEF HeaderLines
    <3>4. QED
      BY <1>6, <1>8, <3>1, <3>3
  <2>2. QED
    BY <1>8, <2>1, RejectKeeps
<1>9. CASE /\ LineTo(i).name # NoName
           /\ headers' = AppendAll(headers, LineTo(i).name, LineTo(i).values)
           /\ end_of_last_line' = i + 2
           /\ UNCHANGED <<msg, read, ended, parsing, found_request_line, found_end_of_header,
                          start_of_body, max_read_length, expected_content_length>>
  <2>1. PICK h \in HeadersOf(Names, Nat \union {NotANumber}) :
            h = headers /\ OneEach(h) /\ Filled(h)
    BY RequestTypes DEF RequestInv
  <2>2. PICK name \in Names, vs \in Seq(Nat \union {NotANumber}) :
            name = msg.lines[n].name /\ vs = msg.lines[n].values /\ vs # <<>>
    <3>1. IsLine(msg, n)
      BY <1>7, MessagesAre DEF LinesOfHead
    <3>2. /\ msg.lines[n].name \in Names \union {NoName} /\ msg.lines[n].name # NoName
          /\ msg.lines[n].values \in Seq(Nat \union {NotANumber})
      BY <1>6, <1>7, <1>9, MessagesAre
    <3>3. msg.lines[n].values # <<>>
      BY <3>1, <3>2 DEF IsLine
    <3>4. QED
      BY <3>2, <3>3
  <2>3. PICK g : g = AppendAll(h, name, vs)
    OBVIOUS
  <2>4. headers' = g
    BY <1>6, <1>9, <2>1, <2>2, <2>3
  <2>5. /\ g \in HeadersOf(Names, Nat \union {NotANumber}) /\ OneEach(g)
        /\ ValuesOf(g, name) = ValuesOf(h, name) \o vs
        /\ \A other : other # name => ValuesOf(g, other) = ValuesOf(h, other)
        /\ Filled(g)
    <3>1. PICK V : V = Nat \union {NotANumber}
      OBVIOUS
    <3>2. h \in HeadersOf(Names, V) /\ OneEach(h) /\ vs \in Seq(V) /\ vs # <<>> /\ Filled(h)
      BY <2>1, <2>2, <3>1
    <3>3. AppendAll(h, name, vs) \in HeadersOf(Names, V) /\ OneEach(AppendAll(h, name, vs))
      BY <3>2, AppendAllIs
    <3>4. /\ ValuesOf(AppendAll(h, name, vs), name) = ValuesOf(h, name) \o vs
          /\ \A other : other # name =>
                            ValuesOf(AppendAll(h, name, vs), other) = ValuesOf(h, other)
      BY <3>2, AppendAllIs
    <3>5. Filled(AppendAll(h, name, vs))
      BY <3>2, AppendAllIs
    <3>6. QED
      BY <2>3, <3>1, <3>3, <3>4, <3>5
  <2>6. Scanned(n)'
    <3>1. end_of_last_line' = LineStart(msg, n + 1)
      <4>1. n + 1 # 1 /\ (n + 1) - 1 = n
        BY <1>7
      <4>2. QED
        BY <1>6, <1>9, <4>1 DEF LineStart
    <3>2. found_request_line' = (n # 0) /\ msg.lines[1].words
      <4>1. n # 0
        BY <1>7
      <4>2. msg.lines[1].words
        BY <1>2, <1>3 DEF Scanned
      <4>3. QED
        BY <1>1, <1>9, <4>1, <4>2
    <3>3. \A j \in 2..n : msg.lines[j].name # NoName
      <4>1. \A j \in 2..n : j = n \/ j \in 2..k
        BY <1>7
      <4>2. QED
        BY <1>2, <1>6, <1>9, <4>1 DEF Scanned
    <3>4. ASSUME NEW other \in Names PROVE ValuesOf(g, other) = ValuesTo(msg, other)[n]
      <4>1. ValuesOf(h, other) = ValuesTo(msg, other)[k]
        BY <1>2, <1>3, <2>1 DEF Scanned, ValuesUpTo
      <4>2. ValuesTo(msg, other)[n] = IF msg.lines[n].name = other
                                      THEN ValuesTo(msg, other)[n - 1] \o msg.lines[n].values
                                      ELSE ValuesTo(msg, other)[n - 1]
        BY <1>7, ValuesToIs
      <4>3. QED
        BY <1>7, <2>2, <2>5, <4>1, <4>2
    <3>5. \A other \in Names : ValuesOf(headers', other) = ValuesUpTo(n, other)'
      BY <1>7, <1>9, <2>4, <3>4 DEF ValuesUpTo
    <3>6. QED
      BY <1>9, <3>1, <3>2, <3>3, <3>5 DEF Scanned
  <2>7. ~found_end_of_header'
    BY <1>1, <1>9, ScanIs
  <2>8. ScanInv'
    <3>1. n \in 0..Len(msg.lines)
      BY <1>7
    <3>2. QED
      BY <1>9, <2>6, <2>7, <3>1 DEF ScanInv
  <2>9. ReadInv'
    BY <1>1, <1>9, <2>7, ScanIs DEF ReadInv
  <2>10. end_of_last_line' \in 0..Len(msg.bytes) /\ end_of_last_line' <= read
    <3>1. end_of_last_line' = i + 2
      BY <1>9
    <3>2. i \in Nat /\ i + 2 <= read /\ i + 2 <= Len(msg.bytes)
      BY <1>4
    <3>3. Len(msg.bytes) \in Nat /\ \A l \in Nat : i + 2 <= l => i + 2 \in 0..l
      BY <1>7, <3>2, MessagesAre
    <3>4. QED
      BY <3>1, <3>2, <3>3
  <2>11. RequestTypeOK'
    BY <1>9, <2>4, <2>5, <2>10 DEF RequestInv, RequestTypeOK
  <2>12. RejectedOnlyIfCut'
    BY <1>1, <1>9 DEF RejectedOnlyIfCut
  <2>13. QED
    BY <1>9, <2>4, <2>5, <2>8, <2>9, <2>10, <2>11, <2>12 DEF RequestInv
<1>10. QED
  BY <1>1, <1>8, <1>9

\* What the headers in use hold under a name, once all lines but the empty one are scanned.
LEMMA HeadValuesAre ==
    ASSUME RequestInv, HasHead(msg), NEW k \in 0..Len(msg.lines), Scanned(k), k # 0,
           k = Len(msg.lines) - 1
    PROVE  \A name \in Names : ValuesOf(headers, name) = ValuesIn(msg, name)
<1>1. /\ Len(msg.lines) \in Nat \ {0} /\ msg.lines[Len(msg.lines)].name = NoName
      /\ msg \in Messages
  BY RequestTypes, HeadIs
<1>2. PICK n \in 1..Len(msg.lines) : n = Len(msg.lines) /\ n # 1 /\ n - 1 = k
  <2>1. \A l \in Nat \ {0} : l - 1 # 0 => l # 1 /\ l \in 1..l
    OBVIOUS
  <2>2. QED
    BY <1>1, <2>1
<1>3. ASSUME NEW name \in Names PROVE ValuesOf(headers, name) = ValuesIn(msg, name)
  <2>1. name # NoName
    BY MessageAssumption
  <2>2. ValuesTo(msg, name)[n] = IF msg.lines[n].name = name
                                 THEN ValuesTo(msg, name)[n - 1] \o msg.lines[n].values
                                 ELSE ValuesTo(msg, name)[n - 1]
    BY <1>1, <1>2, ValuesToIs
  <2>3. ValuesTo(msg, name)[n] = ValuesTo(msg, name)[k]
    BY <1>1, <1>2, <2>1, <2>2
  <2>4. ValuesOf(headers, name) = ValuesTo(msg, name)[k]
    BY DEF Scanned, ValuesUpTo
  <2>5. QED
    BY <1>2, <2>3, <2>4 DEF ValuesIn
<1>4. QED
  BY <1>3

LEMMA EndOfHeaderKeeps ==
    ASSUME RequestInv, NEW i \in LineEnds, ScanEndOfHeader(i)
    PROVE  RequestInv'
<1>1. PICK lengths : lengths = ValuesOf(headers, "Content-Length")
  OBVIOUS
<1>2. /\ parsing = "scan" /\ IsNextLineEnd(i) /\ found_request_line /\ i = end_of_last_line
      /\ \/ /\ HeadersGet(headers, "Content-Length") # 0
            /\ Len(lengths) # 1 \/ lengths[1] = NotANumber
            /\ Reject
         \/ /\ \/ /\ HeadersGet(headers, "Content-Length") = 0
                  /\ expected_content_length' = 0 /\ max_read_length' = read
               \/ /\ Len(lengths) = 1 /\ lengths[1] # NotANumber
                  /\ expected_content_length' = lengths[1]
                  /\ max_read_length' = i + lengths[1]
            /\ found_end_of_header' = TRUE /\ start_of_body' = i + 2 /\ parsing' = "read"
            /\ UNCHANGED <<msg, read, ended, end_of_last_line, found_request_line, headers>>
  BY <1>1 DEF ScanEndOfHeader, ReadUpTo
<1>3. PICK k \in 0..Len(msg.lines) : Scanned(k)
  BY <1>2, ScanIs
<1>4. k # 0
  BY <1>2, <1>3 DEF Scanned
<1>5. /\ k + 1 \in 1..Len(msg.lines)
      /\ i \in Nat /\ i = msg.lines[k + 1].to /\ end_of_last_line = msg.lines[k + 1].from
      /\ i + 2 <= read /\ i + 2 <= Len(msg.bytes)
  BY <1>2, <1>3, NextLineIs
<1>6. msg \in Messages /\ Len(msg.lines) \in Nat /\ k \in Nat /\ read \in Nat
  BY RequestTypes, MessagesAre
<1>7. k + 1 = Len(msg.lines)
  <2>1. msg.lines[k + 1].from = msg.lines[k + 1].to
    BY <1>2, <1>5
  <2>2. k + 1 \notin 1..(Len(msg.lines) - 1)
    BY <1>6, <2>1, MessagesAre DEF LinesOfHead
  <2>3. QED
    BY <1>5, <1>6, <2>2
<1>8. /\ HasHead(msg) /\ HeadLength(msg) = i + 2 /\ Len(msg.lines) > 1
      /\ k = Len(msg.lines) - 1
  <2>1. msg.lines # <<>>
    BY <1>4, <1>6, <1>7
  <2>2. HasHead(msg) /\ HeadLength(msg) = i + 2
    BY <1>2, <1>5, <1>7, <2>1 DEF HasHead, HeadLength
  <2>3. QED
    BY <1>4, <1>6, <1>7, <2>2
<1>9. lengths = ValuesIn(msg, "Content-Length")
  <2>1. "Content-Length" \in Names
    BY MessageAssumption
  <2>2. \A name \in Names : ValuesOf(headers, name) = ValuesIn(msg, name)
    BY <1>3, <1>4, <1>8, HeadValuesAre
  <2>3. QED
    BY <1>1, <2>1, <2>2
<1>10. /\ lengths \in Seq(Nat \union {NotANumber})
       /\ HeadersGet(headers, "Content-Length") = 0 <=> lengths = <<>>
  <2>1. PICK h \in HeadersOf(Names, Nat \union {NotANumber}) :
            h = headers /\ OneEach(h) /\ Filled(h)
    BY RequestTypes DEF RequestInv
  <2>2. /\ \A j \in 1..h.length : ValuesOf(h, h.slots[j].name) = h.slots[j].values
        /\ \A name : ~HasName(h, name) => ValuesOf(h, name) = <<>>
        /\ \A name : HeadersGet(h, name) = 0 <=> ~HasName(h, name)
    BY <2>1, ValuesAre
  <2>3. CASE HasName(h, "Content-Length")
    <3>1. PICK j \in 1..h.length : h.slots[j].name = "Content-Length"
      BY <2>3 DEF HasName
    <3>2. h.slots[j] \in [name : Names, values : Seq(Nat \union {NotANumber})]
      BY HeadersAre
    <3>3. h.slots[j].values # <<>>
      BY <2>1 DEF Filled
    <3>4. lengths = h.slots[j].values /\ HeadersGet(headers, "Content-Length") # 0
      BY <1>1, <2>1, <2>2, <2>3, <3>1
    <3>5. QED
      BY <3>2, <3>3, <3>4
  <2>4. CASE ~HasName(h, "Content-Length")
    <3>1. lengths = <<>> /\ HeadersGet(headers, "Content-Length") = 0
      BY <1>1, <2>1, <2>2, <2>4
    <3>2. <<>> \in Seq(Nat \union {NotANumber})
      OBVIOUS
    <3>3. QED
      BY <3>1, <3>2
  <2>5. QED
    BY <2>3, <2>4
<1>11. ContentLength(msg) = IF lengths = <<>> THEN 0 ELSE lengths[1]
  BY <1>9 DEF ContentLength
<1>12. CASE /\ HeadersGet(headers, "Content-Length") # 0
            /\ Len(lengths) # 1 \/ lengths[1] = NotANumber
            /\ Reject
  <2>1. ASSUME SendsWhole PROVE FALSE
    <3>1. Len(lengths) <= 1 /\ ContentLength(msg) # NotANumber
      BY <1>9, <2>1 DEF SendsWhole, WholeRequest
    <3>2. lengths # <<>> /\ Len(lengths) = 1
      <4>1. lengths # <<>>
        BY <1>10, <1>12
      <4>2. \A S : \A t \in Seq(S) : Len(t) \in Nat /\ (Len(t) = 0 => t = <<>>)
        OBVIOUS
      <4>3. Len(lengths) \in Nat /\ Len(lengths) # 0
        BY <1>10, <4>1, <4>2
      <4>4. \A l \in Nat : l # 0 /\ l <= 1 => l = 1
        OBVIOUS
      <4>5. QED
        BY <3>1, <4>1, <4>3, <4>4
    <3>3. QED
      BY <1>11, <1>12, <3>1, <3>2
  <2>2. QED
    BY <1>12, <2>1, RejectKeeps
<1>13. CASE /\ \/ /\ HeadersGet(headers, "Content-Length") = 0
                  /\ expected_content_length' = 0 /\ max_read_length' = read
               \/ /\ Len(lengths) = 1 /\ lengths[1] # NotANumber
                  /\ expected_content_length' = lengths[1]
                  /\ max_read_length' = i + lengths[1]
            /\ found_end_of_header' = TRUE /\ start_of_body' = i + 2 /\ parsing' = "read"
            /\ UNCHANGED <<msg, read, ended, end_of_last_line, found_request_line, headers>>
  <2>1. /\ Len(lengths) <= 1 /\ ContentLength(msg) # NotANumber /\ ContentLength(msg) \in Nat
        /\ expected_content_length' = ContentLength(msg)
        /\ max_read_length' \in Nat
        /\ \/ ContentLength(msg) = 0 /\ max_read_length' <= read
           \/ max_read_length' + 2 = HeadLength(msg) + ContentLength(msg)
    <3>1. CASE /\ HeadersGet(headers, "Content-Length") = 0
               /\ expected_content_length' = 0 /\ max_read_length' = read
      <4>1. lengths = <<>> /\ ContentLength(msg) = 0 /\ 0 # NotANumber
        BY <1>10, <1>11, <3>1 DEF NotANumber
      <4>2. Len(lengths) <= 1
        BY <4>1
      <4>3. QED
        BY <1>6, <3>1, <4>1, <4>2
    <3>2. CASE /\ Len(lengths) = 1 /\ lengths[1] # NotANumber
               /\ expected_content_length' = lengths[1]
               /\ max_read_length' = i + lengths[1]
      <4>1. PICK length \in Nat : length = lengths[1] /\ length # NotANumber
        <5>1. 1 \in 1..Len(lengths)
          BY <3>2
        <5>2. lengths[1] \in Nat \union {NotANumber}
          BY <1>10, <5>1
        <5>3. QED
          BY <3>2, <5>2
      <4>2. ContentLength(msg) = length
        <5>1. lengths # <<>>
          BY <3>2
        <5>2. QED
          BY <1>11, <4>1, <5>1
      <4>3. max_read_length' = i + length /\ expected_content_length' = length
        BY <3>2, <4>1
      <4>4. max_read_length' \in Nat /\ max_read_length' + 2 = HeadLength(msg) + length
        <5>1. \A a, b \in Nat : a + b \in Nat /\ (a + b) + 2 = (a + 2) + b
          OBVIOUS
        <5>2. QED
          BY <1>5, <1>8, <4>3, <5>1
      <4>5. QED
        BY <3>2, <4>1, <4>2, <4>3, <4>4
    <3>3. QED
      BY <1>13, <3>1, <3>2
  <2>2. HeadFound'
    BY <1>5, <1>8, <1>9, <1>13, <2>1 DEF HeadFound
  <2>3. Scanned(k)'
    BY <1>3, <1>13 DEF Scanned, ValuesUpTo
  <2>4. ScanInv'
    BY <1>8, <1>13, <2>2, <2>3 DEF ScanInv
  <2>5. ReadInv'
    BY <1>13 DEF ReadInv
  <2>6. RequestTypeOK'
    <3>1. start_of_body' \in 0..Len(msg.bytes)
      BY <1>5, <1>13, RequestTypes
    <3>2. found_end_of_header' \in BOOLEAN
      BY <1>13
    <3>3. expected_content_length' \in Nat /\ max_read_length' \in Nat
      BY <2>1
    <3>4. QED
      BY <1>13, <3>1, <3>2, <3>3 DEF RequestInv, RequestTypeOK
  <2>7. RejectedOnlyIfCut'
    BY <1>13 DEF RejectedOnlyIfCut
  <2>8. QED
    BY <1>13, <2>4, <2>5, <2>6, <2>7 DEF RequestInv
<1>14. QED
  BY <1>2, <1>12, <1>13

LEMMA RequestStep == RequestInv /\ [Next]_vars => RequestInv'
<1> SUFFICES ASSUME RequestInv, [Next]_vars PROVE RequestInv'
  OBVIOUS
<1>1. CASE UNCHANGED requestVars
  <2>1. UNCHANGED <<msg, read, ended, parsing, scanVars>>
    BY <1>1 DEF requestVars
  <2>2. UNCHANGED <<end_of_last_line, found_end_of_header, start_of_body, max_read_length,
                    expected_content_length>>
    BY <2>1 DEF scanVars
  <2>3. LineEnds' = LineEnds
    BY <2>1, <2>2 DEF LineEnds, At
  <2>4. ReadInv'
    BY <2>1, <2>2, <2>3 DEF RequestInv, ReadInv
  <2>5. RejectedOnlyIfCut'
    BY <2>1 DEF RequestInv, RejectedOnlyIfCut, SendsWhole
  <2>6. ended' \in BOOLEAN /\ parsing' \in {"idle", "read", "scan", "accepted", "rejected"}
    BY <2>1 DEF RequestInv, RequestTypeOK
  <2>7. QED
    BY <2>1, <2>4, <2>5, <2>6, NothingScanned
<1>2. ASSUME NEW m \in Messages, Begin(m) PROVE RequestInv'
  BY <1>2, BeginKeeps DEF Begin
<1>3. CASE Parse
  <2>1. ASSUME NEW n \in 1..Chunk, Read(n) PROVE RequestInv'
    BY <2>1, ReadKeeps
  <2>2. CASE ReadFails \/ ReadEnd
    BY <2>2, EndKeeps
  <2>3. CASE ReadEnough
    BY <2>3, EnoughKeeps
  <2>4. CASE ScanNothing
    BY <2>4, NothingKeeps
  <2>5. ASSUME NEW i \in LineEnds, ScanRequestLine(i) PROVE RequestInv'
    BY <2>5, RequestLineKeeps
  <2>6. ASSUME NEW i \in LineEnds, ScanHeader(i) PROVE RequestInv'
    BY <2>6, HeaderKeeps
  <2>7. ASSUME NEW i \in LineEnds, ScanEndOfHeader(i) PROVE RequestInv'
    BY <2>7, EndOfHeaderKeeps
  <2>8. QED
    BY <1>3, <2>1, <2>2, <2>3, <2>4, <2>5, <2>6, <2>7 DEF Parse
<1>4. CASE ParseStep
  BY <1>3, <1>4 DEF ParseStep
<1>5. CASE Parsed \/ HandlerActs \/ HandlerReturns \/ HandlerFails \/ Finalize \/ Done
  BY <1>1, <1>5 DEF Parsed, HandlerActs, HandlerReturns, HandlerFails, Finalize, Done, vars
<1>6. CASE UNCHANGED vars
  BY <1>1, <1>6 DEF vars
<1>7. QED
  BY <1>2, <1>4, <1>5, <1>6 DEF Next

LEMMA RequestAlways == Spec => []RequestInv
BY RequestStart, RequestStep, PTL DEF Spec

-----------------------------------------------------------------------------
(* Theorems.                                                               *)

\* http_request_parse succeeds only for a whole request, with the headers of its lines,
\* wherever the reads split it and whatever the structure held before.
THEOREM AcceptedCorrect == Spec => []AcceptedIsWhole
<1>1. RequestInv => AcceptedIsWhole
  <2> SUFFICES ASSUME RequestInv, parsing = "accepted"
               PROVE  /\ WholeRequest(msg, read) /\ start_of_body = HeadLength(msg)
                      /\ \A name \in Names : ValuesOf(headers, name) = ValuesIn(msg, name)
    BY DEF AcceptedIsWhole
  <2>1. found_end_of_header /\ read - start_of_body = expected_content_length
    BY DEF RequestInv, ReadInv
  <2>2. PICK k \in 0..Len(msg.lines) :
            Scanned(k) /\ (found_end_of_header => HeadFound /\ k = Len(msg.lines) - 1)
    BY DEF RequestInv, ScanInv
  <2>3. HeadFound
    BY <2>1, <2>2
  <2>4. PICK c \in Nat : c = Len(msg.lines) /\ c > 1 /\ k = c - 1
    <3>1. Len(msg.lines) > 1 /\ k = Len(msg.lines) - 1
      BY <2>1, <2>2, <2>3 DEF HeadFound
    <3>2. Len(msg.lines) \in Nat
      BY RequestTypes, MessagesAre
    <3>3. QED
      BY <3>1, <3>2
  <2>5. k # 0
    <3>1. \A l \in Nat : l > 1 => l - 1 # 0
      OBVIOUS
    <3>2. QED
      BY <2>4, <3>1
  <2>6. /\ HasHead(msg) /\ Len(msg.lines) > 1 /\ start_of_body = HeadLength(msg)
        /\ Len(ValuesIn(msg, "Content-Length")) <= 1 /\ ContentLength(msg) # NotANumber
        /\ expected_content_length = ContentLength(msg)
    BY <2>3 DEF HeadFound
  <2>7. msg.lines[1].words /\ \A j \in HeaderLines(msg) : msg.lines[j].name # NoName
    BY <2>2, <2>4, <2>5 DEF Scanned, HeaderLines
  <2>8. read = HeadLength(msg) + ContentLength(msg)
    BY <2>1, <2>6, RequestTypes
  <2>9. WholeRequest(msg, read)
    BY <2>6, <2>7, <2>8 DEF WholeRequest
  <2>10. \A name \in Names : ValuesOf(headers, name) = ValuesIn(msg, name)
    BY <2>2, <2>4, <2>5, <2>6, HeadValuesAre
  <2>11. QED
    BY <2>6, <2>9, <2>10
<1>2. QED
  BY <1>1, RequestAlways, PTL

\* A client that has sent a whole request is not read from again: its end of the head has
\* been found, and no more is asked for than what the head says there is.
THEOREM WaitingCorrect == Spec => []NeverWaitsForMore
<1>1. RequestInv => NeverWaitsForMore
  <2> SUFFICES ASSUME RequestInv, parsing = "read", SendsWhole, read = Len(msg.bytes)
               PROVE  read >= max_read_length
    BY DEF NeverWaitsForMore
  <2>1. HasHead(msg) /\ Len(msg.bytes) = HeadLength(msg) + ContentLength(msg)
    BY DEF SendsWhole, WholeRequest
  <2>2. msg \in Messages /\ read \in Nat /\ max_read_length \in Nat
    BY RequestTypes
  <2>3. HeadLength(msg) <= read
    BY <2>1, <2>2, HeadIs
  <2>4. found_end_of_header
    BY <2>1, <2>3, HeadIsScanned
  <2>5. HeadFound
    BY <2>4 DEF RequestInv, ScanInv
  <2>6. max_read_length <= read \/ max_read_length + 2 = read
    BY <2>1, <2>5 DEF HeadFound
  <2>7. QED
    BY <2>2, <2>6
<1>2. QED
  BY <1>1, RequestAlways, PTL

\* A whole request is rejected only if a read ends one or two bytes before its end.
THEOREM RejectionCorrect == Spec => []RejectedOnlyIfCut
BY RequestAlways, PTL DEF RequestInv

\* Every variable of an exchange has its type: the places in the bytes that the parser keeps
\* lie inside what was sent, and what it asks for is a length.
THEOREM TypeCorrect == Spec => []TypeOK
<1> DEFINE Bounded == exchange \in 0..MaxExchanges /\ ops \in 0..MaxOps
<1>1. Init => Bounded
  BY ExchangeAssumption DEF Init
<1>2. Bounded /\ [Next]_vars => Bounded'
  <2> SUFFICES ASSUME Bounded, [Next]_vars PROVE Bounded'
    OBVIOUS
  <2>1. ASSUME NEW m \in Messages, Begin(m) PROVE Bounded'
    BY <2>1, ExchangeAssumption DEF Begin
  <2>2. CASE HandlerActs
    BY <2>2, ExchangeAssumption DEF HandlerActs
  <2>3. CASE UNCHANGED <<exchange, ops>>
    BY <2>3
  <2>4. CASE ParseStep \/ Parsed \/ HandlerReturns \/ HandlerFails \/ Finalize
    BY <2>3, <2>4 DEF ParseStep, Parsed, HandlerReturns, HandlerFails, Finalize
  <2>5. CASE Done \/ UNCHANGED vars
    BY <2>3, <2>5 DEF Done, vars
  <2>6. QED
    BY <2>1, <2>2, <2>4, <2>5 DEF Next
<1>3. RequestInv /\ ResponseInv /\ Bounded => TypeOK
  BY DEF RequestInv, ResponseInv, TypeOK
<1>4. QED
  BY <1>1, <1>2, <1>3, RequestAlways, ResponseStart, ResponseStep, PTL DEF Spec
=============================================================================
