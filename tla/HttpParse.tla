------------------------------ MODULE HttpParse ------------------------------
(***************************************************************************)
(* How the socket filter copies the URL of a request into struct packet:   *)
(* __get_http_request_method_len and the loop of __load_url_to_map         *)
(* (ebpf/http/http.c), and what DecodeMapItem makes of method and url      *)
(* (plugins/http/ebpf.go).                                                 *)
(*                                                                         *)
(* A byte of the payload is named by its offset, so a copied byte says     *)
(* where it was read; 0 is the byte '\0' (offset 0 is the method's first   *)
(* letter and is never copied).  The request line is the method, a space,  *)
(* len bytes of URL, a space or '?', and rest further bytes.               *)
(***************************************************************************)
EXTENDS Integers, Sequences

CONSTANTS
    UrlLen,    \* lengths of URLs
    Rest       \* numbers of bytes after the URL's end

ASSUME ConstantsAssumption ==
    /\ UrlLen \subseteq Nat
    /\ Rest \subseteq Nat

\* The methods the filter takes for requests, and the letters of their names.
Method == {"GET", "POST", "PUT", "DELETE", "HEAD", "PATCH"}
WordLen == [GET |-> 3, POST |-> 4, PUT |-> 3, DELETE |-> 6, HEAD |-> 4, PATCH |-> 5]

MAX_URL_LEN == 256
CHUNK == 16      \* bytes per bpf_skb_load_bytes, and bytes of url per turn
STEP == 12       \* what poffset advances by per turn

VARIABLES
    req,         \* the request: method, length of the URL, bytes after it
    i,           \* turns of the loop
    poffset,     \* where the next chunk is read
    url,         \* p.url up to the turn reached; the rest is '\0'
    finished

vars == <<req, i, poffset, url, finished>>

\* enum http_request_method, as __is_http_request tells the methods apart.
__is_http_request(m) ==
    CASE m = "GET" -> 1 [] m = "POST" -> 2 [] m = "PUT" -> 3
      [] m = "DELETE" -> 4 [] m = "HEAD" -> 5 [] m = "PATCH" -> 6
      [] OTHER -> 0

\* Mutant: HEAD is forgotten.
method_len_no_HEAD(method) ==
    CASE method = 1 -> 3 [] method = 2 -> 4 [] method = 3 -> 3
      [] method = 4 -> 6 [] method = 6 -> 5 [] OTHER -> 0

\* __get_http_request_method_len.
method_len(method) ==
    CASE method = 1 -> 3 [] method = 2 -> 4 [] method = 3 -> 3
      [] method = 4 -> 6 [] method = 5 -> 4 [] method = 6 -> 5
      [] OTHER -> 0

MethodToString(method) ==
    CASE method = 1 -> "GET" [] method = 2 -> "POST" [] method = 3 -> "PUT"
      [] method = 4 -> "DELETE" [] method = 5 -> "HEAD" [] method = 6 -> "PATCH"
      [] OTHER -> ""

\* Offsets in the payload: the URL's first byte, the space or '?' after its
\* last one, and the payload's length.
UrlStart == WordLen[req.method] + 1
UrlEnd == UrlStart + req.len
PayloadLen == UrlEnd + 1 + req.rest

\* The bytes that are ' ' or '?' up to the end of the URL.
IsEnd(k) == k = UrlEnd \/ k = UrlStart - 1

Init ==
    /\ req \in [method : Method, len : UrlLen, rest : Rest]
    /\ i = 0
    /\ poffset = method_len(__is_http_request(req.method)) + 1
    /\ url = << >>
    /\ finished = FALSE

\* Mutant: what follows the end in the chunk is not cleared.
Cleaned_end_only(chunk) == [j \in 1 .. CHUNK |-> IF IsEnd(chunk[j]) THEN 0 ELSE chunk[j]]

\* The inner loop: the first ' ' or '?' and all that follows it in the chunk
\* become '\0'.
Cleaned(chunk) ==
    [j \in 1 .. CHUNK |-> IF \E e \in 1 .. j : IsEnd(chunk[e]) THEN 0 ELSE chunk[j]]

\* The 16 bytes from poffset.
Chunk == [j \in 1 .. CHUNK |-> poffset + j - 1]

\* Mutant: 17 turns.
LoadChunk_17_turns ==
    /\ i <= 16 /\ ~ finished
    /\ i' = i + 1
    /\ url' = url \o Cleaned(Chunk)
    /\ finished' = (\E j \in 1 .. CHUNK : IsEnd(Chunk[j]))
    /\ poffset' = poffset + STEP
    /\ UNCHANGED req

\* Mutant: the end of the URL does not end the loop.
LoadChunk_goes_on ==
    /\ i < 16 /\ ~ finished
    /\ i' = i + 1
    /\ url' = url \o Cleaned(Chunk)
    /\ finished' = (poffset + CHUNK > PayloadLen)
    /\ poffset' = poffset + STEP
    /\ UNCHANGED req

\* A turn of the outer loop.  bpf_skb_load_bytes reads all 16 bytes or, when
\* the packet ends before, fails and leaves '\0' (external).
LoadChunk ==
    /\ i < 16 /\ ~ finished
    /\ i' = i + 1
    /\ IF poffset + CHUNK <= PayloadLen
       THEN /\ url' = url \o Cleaned(Chunk)
            /\ finished' = (\E j \in 1 .. CHUNK : IsEnd(Chunk[j]))
            /\ poffset' = poffset + STEP
       ELSE /\ url' = url \o [j \in 1 .. CHUNK |-> 0]
            /\ finished' = TRUE
            /\ UNCHANGED poffset
    /\ UNCHANGED req

Next == LoadChunk

Spec == Init /\ [][Next]_vars
-----------------------------------------------------------------------------
(* Properties. *)

Done == i = 16 \/ finished

\* strings.TrimRight(url, "\x00")
Trimmed ==
    LET last == CHOOSE k \in 0 .. Len(url) :
                  /\ k = 0 \/ url[k] # 0
                  /\ \A l \in k + 1 .. Len(url) : url[l] = 0
    IN  SubSeq(url, 1, last)

\* The buffer never overflows and every copied byte lies inside the packet.
TypeOK ==
    /\ i \in 0 .. 16
    /\ url \in Seq(0 .. PayloadLen - 1)
    /\ Len(url) <= MAX_URL_LEN
    /\ finished \in BOOLEAN

\* Query string and headers never get into the URL: every copied byte is one
\* of the URL's.
OnlyUrlBytes ==
    \A k \in DOMAIN url : url[k] # 0 => url[k] \in UrlStart .. UrlEnd - 1

\* The URL has no '\0' inside, so that trimming its end loses nothing.
NoHole == \A k \in DOMAIN url : k > 1 /\ url[k] # 0 => url[k - 1] # 0

\* A request whose URL ends in the first chunk is reported with the method it
\* was sent with and with its URL byte for byte, whatever the method, when 16
\* bytes can be read.
ShortUrlExact ==
    Done /\ req.len < CHUNK /\ UrlStart + CHUNK <= PayloadLen =>
        /\ Trimmed = [k \in 1 .. req.len |-> UrlStart + k - 1]
        /\ MethodToString(__is_http_request(req.method)) = req.method

\* Every URL that fits is copied byte for byte.
UrlExact ==
    Done /\ req.len < MAX_URL_LEN =>
        Trimmed = [k \in 1 .. req.len |-> UrlStart + k - 1]
=============================================================================
