--------------------------- MODULE HttpParseProofs --------------------------
(***************************************************************************)
(* Proofs about the URL's copy, for URLs and requests of any length.       *)
(***************************************************************************)
EXTENDS HttpParse, TLAPS

\* The parser agrees with the methods' names, in both directions.
LEMMA MethodFacts ==
    ASSUME NEW m \in Method
    PROVE  /\ WordLen[m] \in Nat /\ WordLen[m] > 0
           /\ method_len(__is_http_request(m)) = WordLen[m]
           /\ MethodToString(__is_http_request(m)) = m
<1>1. CASE m = "GET"
  BY <1>1 DEF WordLen, method_len, __is_http_request, MethodToString
<1>2. CASE m = "POST"
  BY <1>2 DEF WordLen, method_len, __is_http_request, MethodToString
<1>3. CASE m = "PUT"
  BY <1>3 DEF WordLen, method_len, __is_http_request, MethodToString
<1>4. CASE m = "DELETE"
  BY <1>4 DEF WordLen, method_len, __is_http_request, MethodToString
<1>5. CASE m = "HEAD"
  BY <1>5 DEF WordLen, method_len, __is_http_request, MethodToString
<1>6. CASE m = "PATCH"
  BY <1>6 DEF WordLen, method_len, __is_http_request, MethodToString
<1> QED
  BY <1>1, <1>2, <1>3, <1>4, <1>5, <1>6 DEF Method

-----------------------------------------------------------------------------
(* The invariant of the loop. *)

Request == [method : Method, len : UrlLen, rest : Rest]

\* While the loop goes on it has not met the URL's end, so that it reads from
\* inside the URL and has copied nothing but the URL's bytes.
Reading ==
    ~ finished => /\ poffset \in UrlStart .. UrlEnd
                  /\ \A k \in 1 .. Len(url) : url[k] \in UrlStart .. UrlEnd - 1

\* The first turn copies a URL that ends in the first chunk, and is the last.
FirstChunk ==
    /\ i = 0 => poffset = UrlStart /\ ~ finished
    /\ i > 0 /\ req.len < CHUNK /\ UrlStart + CHUNK <= PayloadLen =>
         /\ finished /\ i = 1
         /\ \A k \in 1 .. CHUNK : url[k] = IF k <= req.len THEN UrlStart + k - 1 ELSE 0

Inv ==
    /\ req \in Request
    /\ i \in 0 .. 16 /\ finished \in BOOLEAN
    /\ url \in Seq(0 .. PayloadLen - 1) /\ Len(url) = CHUNK * i
    /\ Reading /\ OnlyUrlBytes /\ NoHole /\ FirstChunk

\* The offsets of a request line.
LEMMA Offsets ==
    ASSUME req \in Request
    PROVE  /\ UrlStart \in Nat /\ UrlEnd \in Nat /\ PayloadLen \in Nat /\ req.len \in Nat
           /\ UrlStart > 0 /\ UrlEnd = UrlStart + req.len /\ UrlEnd < PayloadLen
<1>1. req.method \in Method /\ req.len \in Nat /\ req.rest \in Nat
  BY ConstantsAssumption DEF Request
<1>2. PICK w \in Nat : w = WordLen[req.method]
  BY <1>1, MethodFacts
<1> QED
  BY <1>1, <1>2 DEF UrlStart, UrlEnd, PayloadLen

LEMMA InitInv ==
    ASSUME Init
    PROVE  Inv
<1>1. req \in Request /\ req.method \in Method
  BY DEF Init, Request
<1>2. poffset = UrlStart
  BY <1>1, MethodFacts DEF Init, UrlStart
<1>3. i = 0 /\ url = << >> /\ finished = FALSE /\ Len(url) = 0
  BY DEF Init
<1>4. url \in Seq(0 .. PayloadLen - 1)
  BY <1>3
<1>5. Reading
  BY <1>1, <1>2, <1>3, Offsets DEF Reading
<1>6. OnlyUrlBytes /\ NoHole
  BY <1>3 DEF OnlyUrlBytes, NoHole
<1>7. FirstChunk
  BY <1>2, <1>3 DEF FirstChunk
<1> QED
  <2>1. Len(url) = CHUNK * i /\ i \in 0 .. 16
    BY <1>3 DEF CHUNK
  <2> QED
    BY <1>1, <1>3, <1>4, <1>5, <1>6, <1>7, <2>1 DEF Inv

\* A chunk that begins inside the URL keeps the URL's bytes and nothing else.
LEMMA CleanedChunk ==
    ASSUME req \in Request, poffset \in UrlStart .. UrlEnd
    PROVE  /\ \A j \in 1 .. CHUNK :
                Cleaned(Chunk)[j] = IF poffset + j - 1 < UrlEnd THEN poffset + j - 1 ELSE 0
           /\ (\E j \in 1 .. CHUNK : IsEnd(Chunk[j])) <=> UrlEnd < poffset + CHUNK
<1>1. UrlStart \in Nat /\ UrlEnd \in Nat /\ poffset \in Nat /\ UrlStart <= poffset /\ poffset <= UrlEnd
  BY Offsets
<1>2. ASSUME NEW j \in 1 .. CHUNK
      PROVE  Chunk[j] = poffset + j - 1 /\ (IsEnd(Chunk[j]) <=> poffset + j - 1 = UrlEnd)
  BY <1>1 DEF Chunk, IsEnd, CHUNK
<1>3. ASSUME NEW j \in 1 .. CHUNK
      PROVE  (\E e \in 1 .. j : IsEnd(Chunk[e])) <=> UrlEnd <= poffset + j - 1
  <2>1. ASSUME NEW e \in 1 .. j, IsEnd(Chunk[e]) PROVE UrlEnd <= poffset + j - 1
    <3>1. e \in 1 .. CHUNK
      BY DEF CHUNK
    <3>2. poffset + e - 1 = UrlEnd
      BY <1>2, <2>1, <3>1
    <3> QED
      BY <1>1, <3>2 DEF CHUNK
  <2>2. ASSUME UrlEnd <= poffset + j - 1 PROVE \E e \in 1 .. j : IsEnd(Chunk[e])
    <3>1. PICK e \in 1 .. j : poffset + e - 1 = UrlEnd
      <4>1. UrlEnd - poffset + 1 \in 1 .. j /\ poffset + (UrlEnd - poffset + 1) - 1 = UrlEnd
        BY <1>1, <2>2 DEF CHUNK
      <4> QED
        BY <4>1
    <3>2. e \in 1 .. CHUNK
      BY DEF CHUNK
    <3> QED
      BY <1>2, <3>1, <3>2
  <2> QED
    BY <2>1, <2>2
<1>4. ASSUME NEW j \in 1 .. CHUNK
      PROVE  Cleaned(Chunk)[j] = IF poffset + j - 1 < UrlEnd THEN poffset + j - 1 ELSE 0
  <2>1. Cleaned(Chunk)[j] = IF \E e \in 1 .. j : IsEnd(Chunk[e]) THEN 0 ELSE Chunk[j]
    BY DEF Cleaned
  <2> QED
    BY <1>1, <1>2, <1>3, <2>1 DEF CHUNK
<1>5. CHUNK \in 1 .. CHUNK
  BY DEF CHUNK
<1>6. (\E j \in 1 .. CHUNK : IsEnd(Chunk[j])) <=> UrlEnd < poffset + CHUNK
  <2>1. (\E j \in 1 .. CHUNK : IsEnd(Chunk[j])) <=> UrlEnd <= poffset + CHUNK - 1
    BY <1>3, <1>5
  <2> QED
    BY <1>1, <2>1 DEF CHUNK
<1> QED
  BY <1>4, <1>6

LEMMA FunctionSeq ==
    ASSUME NEW S, NEW k \in Nat, NEW c \in [1 .. k -> S]
    PROVE  c \in Seq(S) /\ Len(c) = k
OBVIOUS

LEMMA ConcatFacts ==
    ASSUME NEW S, NEW s \in Seq(S), NEW t \in Seq(S)
    PROVE  /\ s \o t \in Seq(S)
           /\ Len(s \o t) = Len(s) + Len(t)
           /\ \A k \in 1 .. Len(s) : (s \o t)[k] = s[k]
           /\ \A k \in 1 .. Len(t) : (s \o t)[Len(s) + k] = t[k]
OBVIOUS

\* A turn that appends the URL's next n bytes, and '\0' for the others.
Turn(n, c) ==
    /\ ~ finished /\ i < 16 /\ i' = i + 1 /\ req' = req
    /\ n \in 0 .. CHUNK /\ poffset + n <= UrlEnd
    /\ c \in [1 .. CHUNK -> Int]
    /\ \A j \in 1 .. CHUNK : c[j] = IF j <= n THEN poffset + j - 1 ELSE 0
    /\ url' = url \o c

\* What it leaves of the URL.
LEMMA AppendUrl ==
    ASSUME Inv, NEW n, NEW c, Turn(n, c)
    PROVE  /\ url' \in Seq(0 .. PayloadLen' - 1) /\ Len(url') = CHUNK * i'
           /\ OnlyUrlBytes' /\ NoHole'
           /\ n = CHUNK => \A k \in 1 .. Len(url') : url'[k] \in UrlStart .. UrlEnd - 1
           /\ i = 0 => \A k \in 1 .. CHUNK : url'[k] = c[k]
<1>1. /\ UrlStart \in Nat /\ UrlEnd \in Nat /\ PayloadLen \in Nat
      /\ UrlStart > 0 /\ UrlEnd < PayloadLen
  BY Offsets DEF Inv
<1>2. poffset \in Nat /\ UrlStart <= poffset /\ n \in Nat /\ n <= 16 /\ poffset + n <= UrlEnd
  <2>1. poffset \in UrlStart .. UrlEnd
    BY DEF Inv, Reading, Turn
  <2>2. n \in 0 .. 16 /\ poffset + n <= UrlEnd
    BY DEF CHUNK, Turn
  <2> QED
    BY <1>1, <2>1, <2>2
<1>3. UrlStart' = UrlStart /\ UrlEnd' = UrlEnd /\ PayloadLen' = PayloadLen
  BY DEF UrlStart, UrlEnd, PayloadLen, Turn
<1>4. PICK L \in Nat : L = Len(url) /\ L = 16 * i
  <2>1. Len(url) \in Nat
    BY DEF Inv
  <2> QED
    BY <2>1 DEF Inv, CHUNK
<1>5. c \in [1 .. 16 -> Int] /\ \A j \in 1 .. 16 : c[j] = IF j <= n THEN poffset + j - 1 ELSE 0
  BY DEF CHUNK, Turn
<1>6. c \in Seq(0 .. PayloadLen - 1) /\ Len(c) = 16
  <2>1. \A j \in 1 .. 16 : c[j] \in 0 .. PayloadLen - 1
    BY <1>1, <1>2, <1>5
  <2>2. c \in [1 .. 16 -> 0 .. PayloadLen - 1]
    BY <1>5, <2>1
  <2>3. PICK S : S = 0 .. PayloadLen - 1
    OBVIOUS
  <2>4. c \in Seq(S) /\ Len(c) = 16
    <3>1. c \in [1 .. 16 -> S]
      BY <2>2, <2>3
    <3> QED
      BY <3>1, FunctionSeq
  <2> QED
    BY <2>3, <2>4
<1>7. PICK S : S = 0 .. PayloadLen - 1
  OBVIOUS
<1>8. /\ url' \in Seq(S) /\ Len(url') = L + 16
      /\ \A k \in 1 .. L : url'[k] = url[k]
      /\ \A k \in 1 .. 16 : url'[L + k] = c[k]
  <2>1. url \in Seq(S) /\ c \in Seq(S)
    BY <1>6, <1>7 DEF Inv
  <2>2. url' = url \o c
    BY DEF Turn
  <2> QED
    <3>1. /\ url \o c \in Seq(S) /\ Len(url \o c) = Len(url) + Len(c)
          /\ \A k \in 1 .. Len(url) : (url \o c)[k] = url[k]
          /\ \A k \in 1 .. Len(c) : (url \o c)[Len(url) + k] = c[k]
      BY <2>1, ConcatFacts
    <3>2. Len(url) = L /\ Len(c) = 16
      BY <1>4, <1>6
    <3> QED
      BY <2>2, <3>1, <3>2
<1>9. Len(url') = CHUNK * i'
  <2>1. i \in Nat /\ i' = i + 1
    BY DEF Inv, Turn
  <2> QED
    BY <1>4, <1>8, <2>1 DEF CHUNK
<1>10. ASSUME NEW k \in 1 .. L + 16
       PROVE  \/ k \in 1 .. L /\ url'[k] = url[k] /\ url[k] \in UrlStart .. UrlEnd - 1
              \/ k > L /\ k <= L + n /\ url'[k] = poffset + (k - L) - 1
                 /\ url'[k] \in UrlStart .. UrlEnd - 1
              \/ k > L + n /\ url'[k] = 0
  <2>1. CASE k <= L
    <3>1. k \in 1 .. L
      BY <1>4, <2>1
    <3>2. \A h \in 1 .. Len(url) : url[h] \in UrlStart .. UrlEnd - 1
      BY DEF Inv, Reading, Turn
    <3>3. url[k] \in UrlStart .. UrlEnd - 1
      BY <1>4, <3>1, <3>2
    <3> QED
      BY <1>8, <3>1, <3>3
  <2>2. CASE k > L
    <3>1. PICK j \in 1 .. 16 : k = L + j
      <4>1. k - L \in 1 .. 16 /\ k = L + (k - L)
        BY <1>4, <2>2
      <4> QED
        BY <4>1
    <3>2. url'[k] = c[j]
      BY <1>8, <3>1
    <3>3. CASE j <= n
      <4>1. url'[k] = poffset + j - 1 /\ k - L = j
        BY <1>4, <1>5, <3>1, <3>2, <3>3
      <4> QED
        BY <1>1, <1>2, <1>4, <2>2, <3>1, <3>3, <4>1
    <3>4. CASE j > n
      BY <1>2, <1>4, <1>5, <3>1, <3>2, <3>4
    <3> QED
      BY <1>2, <3>3, <3>4
  <2> QED
    BY <1>4, <2>1, <2>2
<1>11. DOMAIN url' = 1 .. L + 16
  BY <1>8
<1>12. OnlyUrlBytes'
  BY <1>3, <1>10, <1>11 DEF OnlyUrlBytes
<1>13. NoHole'
  <2> SUFFICES ASSUME NEW k \in 1 .. L + 16, k > 1, url'[k] # 0
               PROVE  url'[k - 1] # 0
    BY <1>11 DEF NoHole
  <2>1. k - 1 \in 1 .. L + 16
    BY <1>4
  <2>2. k <= L + n
    BY <1>2, <1>4, <1>10
  <2>3. ~ (k - 1 > L + n)
    BY <1>2, <1>4, <2>2
  <2>4. url'[k - 1] \in UrlStart .. UrlEnd - 1
    BY <1>10, <2>1, <2>3
  <2> QED
    BY <1>1, <2>4
<1>14. n = CHUNK => \A k \in 1 .. Len(url') : url'[k] \in UrlStart .. UrlEnd - 1
  <2> SUFFICES ASSUME n = 16, NEW k \in 1 .. L + 16 PROVE url'[k] \in UrlStart .. UrlEnd - 1
    BY <1>8 DEF CHUNK
  <2>1. ~ (k > L + n)
    BY <1>4
  <2> QED
    BY <1>10, <2>1
<1>15. i = 0 => \A k \in 1 .. CHUNK : url'[k] = c[k]
  <2> SUFFICES ASSUME i = 0, NEW k \in 1 .. 16 PROVE url'[k] = c[k]
    BY DEF CHUNK
  <2>1. L + k = k
    BY <1>4
  <2> QED
    BY <1>8, <2>1
<1> QED
  BY <1>3, <1>7, <1>8, <1>9, <1>12, <1>13, <1>14, <1>15

LEMMA StepInv ==
    ASSUME Inv, LoadChunk
    PROVE  Inv'
<1>1. /\ UrlStart \in Nat /\ UrlEnd \in Nat /\ PayloadLen \in Nat /\ req.len \in Nat
      /\ UrlStart > 0 /\ UrlEnd = UrlStart + req.len /\ UrlEnd < PayloadLen
  BY Offsets DEF Inv
<1>2. /\ req \in Request /\ i \in 0 .. 16 /\ i < 16 /\ i' = i + 1 /\ req' = req /\ ~ finished
      /\ poffset \in UrlStart .. UrlEnd
  BY DEF Inv, LoadChunk, Reading
<1>3. UrlStart' = UrlStart /\ UrlEnd' = UrlEnd /\ PayloadLen' = PayloadLen
  BY <1>2 DEF UrlStart, UrlEnd, PayloadLen
<1>4. i' \in 1 .. 16 /\ i' # 0
  BY <1>2
<1>5. ASSUME req.len < CHUNK, UrlStart + CHUNK <= PayloadLen PROVE i = 0 /\ poffset = UrlStart
  BY <1>2, <1>5 DEF Inv, FirstChunk
<1>6. CASE poffset + CHUNK <= PayloadLen
  <2>1. PICK c : c = Cleaned(Chunk)
    OBVIOUS
  <2>2. PICK n \in 0 .. 16 : n = IF UrlEnd - poffset < 16 THEN UrlEnd - poffset ELSE 16
    BY <1>1, <1>2
  <2>3. \A j \in 1 .. CHUNK : c[j] = IF poffset + j - 1 < UrlEnd THEN poffset + j - 1 ELSE 0
    BY <1>2, <2>1, CleanedChunk
  <2>4. finished' <=> UrlEnd < poffset + CHUNK
    BY <1>2, <1>6, CleanedChunk DEF LoadChunk
  <2>5. /\ url' = url \o c /\ poffset' = poffset + STEP
        /\ finished' = (\E j \in 1 .. CHUNK : IsEnd(Chunk[j]))
    BY <1>6, <2>1 DEF LoadChunk
  <2>6. poffset \in Nat /\ poffset + n <= UrlEnd /\ UrlStart <= poffset
    BY <1>1, <1>2, <2>2
  <2>7. \A j \in 1 .. CHUNK : c[j] = IF j <= n THEN poffset + j - 1 ELSE 0
    BY <1>1, <2>2, <2>3, <2>6 DEF CHUNK
  <2>8. c \in [1 .. CHUNK -> Int]
    <3>1. c = [j \in 1 .. CHUNK |-> c[j]]
      BY <2>1 DEF Cleaned
    <3>2. \A j \in 1 .. CHUNK : c[j] \in Int
      BY <2>6, <2>7 DEF CHUNK
    <3> QED
      BY <3>1, <3>2
  <2>9. Turn(n, c)
    BY <1>2, <2>2, <2>5, <2>6, <2>7, <2>8 DEF Turn, CHUNK
  <2>10. /\ url' \in Seq(0 .. PayloadLen' - 1) /\ Len(url') = CHUNK * i'
         /\ OnlyUrlBytes' /\ NoHole'
         /\ n = CHUNK => \A k \in 1 .. Len(url') : url'[k] \in UrlStart .. UrlEnd - 1
         /\ i = 0 => \A k \in 1 .. CHUNK : url'[k] = c[k]
    BY <2>9, AppendUrl
  <2>11. Reading'
    <3> SUFFICES ASSUME ~ finished'
                 PROVE  /\ poffset' \in UrlStart .. UrlEnd
                        /\ \A k \in 1 .. Len(url') : url'[k] \in UrlStart .. UrlEnd - 1
      BY <1>3 DEF Reading
    <3>1. UrlEnd >= poffset + 16
      BY <1>1, <2>4, <2>6 DEF CHUNK
    <3>2. n = CHUNK
      BY <1>1, <2>2, <2>6, <3>1 DEF CHUNK
    <3>3. poffset' \in UrlStart .. UrlEnd
      BY <1>1, <2>5, <2>6, <3>1 DEF STEP
    <3> QED
      BY <2>10, <3>2, <3>3
  <2>12. FirstChunk'
    <3> SUFFICES ASSUME req.len < CHUNK, UrlStart + CHUNK <= PayloadLen
                 PROVE  /\ finished' /\ i' = 1
                        /\ \A k \in 1 .. CHUNK : url'[k] = IF k <= req.len THEN UrlStart + k - 1 ELSE 0
      BY <1>2, <1>3, <1>4 DEF FirstChunk
    <3>1. i = 0 /\ poffset = UrlStart
      BY <1>5
    <3>2. n = req.len
      BY <1>1, <2>2, <3>1 DEF CHUNK
    <3>3. finished'
      BY <1>1, <2>4, <3>1 DEF CHUNK
    <3> QED
      BY <1>2, <2>7, <2>10, <3>1, <3>2, <3>3
  <2>13. finished' \in BOOLEAN
    BY <2>5
  <2> QED
    BY <1>2, <1>4, <2>10, <2>11, <2>12, <2>13 DEF Inv
<1>7. CASE ~ (poffset + CHUNK <= PayloadLen)
  <2>1. PICK c : c = [j \in 1 .. CHUNK |-> 0]
    OBVIOUS
  <2>2. url' = url \o c /\ finished' = TRUE /\ poffset' = poffset
    BY <1>7, <2>1 DEF LoadChunk
  <2>3. c \in [1 .. CHUNK -> Int] /\ \A j \in 1 .. CHUNK : c[j] = 0
    BY <2>1
  <2>4. poffset \in Nat /\ poffset + 0 <= UrlEnd
    BY <1>1, <1>2
  <2>5. Turn(0, c)
    BY <1>2, <2>2, <2>3, <2>4 DEF Turn, CHUNK
  <2>6. /\ url' \in Seq(0 .. PayloadLen' - 1) /\ Len(url') = CHUNK * i'
        /\ OnlyUrlBytes' /\ NoHole'
    BY <2>5, AppendUrl
  <2>7. Reading'
    BY <2>2 DEF Reading
  <2>8. FirstChunk'
    BY <1>1, <1>2, <1>3, <1>4, <1>5, <1>7 DEF FirstChunk
  <2> QED
    BY <1>2, <1>4, <2>2, <2>6, <2>7, <2>8 DEF Inv
<1> QED
  BY <1>6, <1>7

LEMMA InvHolds == Spec => []Inv
<1>1. Init => Inv
  BY InitInv
<1>2. Inv /\ UNCHANGED vars => Inv'
  BY DEF Inv, vars, Reading, OnlyUrlBytes, NoHole, FirstChunk, UrlStart, UrlEnd, PayloadLen
<1>3. Inv /\ [Next]_vars => Inv'
  BY <1>2, StepInv DEF Next
<1> QED
  BY <1>1, <1>3, PTL DEF Spec

-----------------------------------------------------------------------------
(* The theorems. *)

\* The loop of __load_url_to_map never writes past p.url and copies only bytes
\* of the packet, for a request of any length.
THEOREM TypeOKHolds == Spec => []TypeOK
<1>1. Inv => TypeOK
  <2> SUFFICES ASSUME Inv PROVE TypeOK
    OBVIOUS
  <2>1. Len(url) <= MAX_URL_LEN
    BY DEF Inv, CHUNK, MAX_URL_LEN
  <2> QED
    BY <2>1 DEF Inv, TypeOK
<1> QED
  BY <1>1, InvHolds, PTL

\* No byte of the query string, the version or a header is ever copied: the
\* loop stops in the chunk where it meets the URL's end, and clears the rest.
THEOREM OnlyUrlBytesHolds == Spec => []OnlyUrlBytes
<1>1. Inv => OnlyUrlBytes
  BY DEF Inv
<1> QED
  BY <1>1, InvHolds, PTL

\* The '\0' bytes of p.url are all at its end, so strings.TrimRight cuts off
\* nothing of what was copied.
THEOREM NoHoleHolds == Spec => []NoHole
<1>1. Inv => NoHole
  BY DEF Inv
<1> QED
  BY <1>1, InvHolds, PTL

\* A URL that ends in the first chunk is reported exactly, with its method, for
\* every method the filter knows.
THEOREM ShortUrlExactHolds == Spec => []ShortUrlExact
<1>1. Inv => ShortUrlExact
  <2> SUFFICES ASSUME Inv, Done, req.len < CHUNK, UrlStart + CHUNK <= PayloadLen
               PROVE  /\ Trimmed = [k \in 1 .. req.len |-> UrlStart + k - 1]
                      /\ MethodToString(__is_http_request(req.method)) = req.method
    BY DEF ShortUrlExact
  <2>1. MethodToString(__is_http_request(req.method)) = req.method
    <3>1. req.method \in Method
      BY DEF Inv, Request
    <3> QED
      BY <3>1, MethodFacts
  <2>2. UrlStart \in Nat /\ UrlStart > 0 /\ req.len \in Nat
    BY Offsets DEF Inv
  <2>3. i > 0
    BY DEF Inv, Done, FirstChunk
  <2>4. i = 1 /\ \A k \in 1 .. 16 : url[k] = IF k <= req.len THEN UrlStart + k - 1 ELSE 0
    BY <2>3 DEF Inv, FirstChunk, CHUNK
  <2>5. Len(url) = 16
    BY <2>4 DEF Inv, CHUNK
  <2>6. PICK n \in 0 .. 15 : n = req.len
    BY <2>2 DEF CHUNK
  <2>7. \A l \in 0 .. 16 :
          (/\ l = 0 \/ url[l] # 0
           /\ \A h \in l + 1 .. 16 : url[h] = 0) <=> l = n
    <3>1. \A h \in n + 1 .. 16 : url[h] = 0
      BY <2>4, <2>6
    <3>2. n = 0 \/ url[n] # 0
      BY <2>2, <2>4, <2>6
    <3>3. ASSUME NEW l \in 0 .. 16, l = 0 \/ url[l] # 0, \A h \in l + 1 .. 16 : url[h] = 0
          PROVE  l = n
      <4>1. ~ (l > n)
        BY <2>6, <3>1, <3>3
      <4>2. ~ (l < n)
        BY <2>6, <3>2, <3>3
      <4> QED
        BY <2>6, <4>1, <4>2
    <3> QED
      BY <3>1, <3>2, <3>3
  <2>8. Trimmed = SubSeq(url, 1, n)
    <3>1. n = CHOOSE k \in 0 .. Len(url) :
                /\ k = 0 \/ url[k] # 0
                /\ \A l \in k + 1 .. Len(url) : url[l] = 0
      BY <2>5, <2>6, <2>7
    <3> QED
      BY <3>1 DEF Trimmed
  <2>9. PICK S : url \in Seq(S)
    BY DEF Inv
  <2>10. SubSeq(url, 1, n) = [k \in 1 .. n |-> UrlStart + k - 1]
    <3>1. SubSeq(url, 1, n) = [k \in 1 .. n |-> url[k]]
      BY <2>5, <2>6, <2>9
    <3>2. \A k \in 1 .. n : url[k] = UrlStart + k - 1
      BY <2>4, <2>6
    <3> QED
      BY <3>1, <3>2
  <2> QED
    BY <2>1, <2>6, <2>8, <2>10
<1> QED
  BY <1>1, InvHolds, PTL
=============================================================================
