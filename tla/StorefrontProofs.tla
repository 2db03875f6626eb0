-------------------------- MODULE StorefrontProofs --------------------------
(***************************************************************************)
(* The server's parts, and the server: the pages its listings are cut      *)
(* into, the pictures it caches, what it shows of the products, and that   *)
(* it keeps what its parts keep.                                           *)
(***************************************************************************)
EXTENDS Storefront, SequenceTheorems, FiniteSetTheorems, WellFoundedInduction, TLAPS

-----------------------------------------------------------------------------
(* What the pagers do, for every number of items, page size and page.      *)

\* A product with a factor of at least one or with a sum.
LEMMA Products ==
    ASSUME NEW d \in Nat \ {0}, NEW p \in Nat, NEW q \in Nat, p < q
    PROVE  p * d + d <= q * d
<1>1. PICK k \in Nat : q = p + 1 + k
  <2> WITNESS q - p - 1 \in Nat
  <2> QED OBVIOUS
<1>2. q * d = p * d + d + k * d
  BY <1>1
<1>3. k * d \in Nat
  OBVIOUS
<1> QED BY <1>2, <1>3

\* CeilDiv(n, d) is the number of pages of d that n items need.
LEMMA CeilDivBounds ==
    ASSUME NEW n \in Nat, NEW d \in Nat \ {0}
    PROVE  /\ CeilDiv(n, d) \in Nat
           /\ n <= CeilDiv(n, d) * d
           /\ CeilDiv(n, d) * d < n + d
<1> DEFINE m == n + d - 1
           q == m \div d
<1>1. m \in Nat /\ d \in Nat /\ d > 0
  OBVIOUS
<1> HIDE DEF m
<1>2. q \in Nat /\ (m % d) \in 0 .. d - 1 /\ m = q * d + (m % d)
  BY <1>1, Z3
<1> HIDE DEF q
<1>3. CeilDiv(n, d) = q
  BY DEF CeilDiv, q, m
<1>4. m = n + d - 1
  BY DEF m
<1>5. q * d \in Nat
  BY <1>2
<1> DEFINE rest == m % d
           most == q * d
<1>6. rest \in 0 .. d - 1 /\ m = most + rest /\ most \in Nat
  BY <1>2, <1>5
<1> HIDE DEF rest, most
<1>7. n <= most /\ most < n + d
  BY <1>4, <1>6
<1> QED BY <1>2, <1>3, <1>7 DEF most

\* The n-th item is on page p, of d items each, for p = CeilDiv(n, d) alone.
LEMMA PageOfItem ==
    ASSUME NEW n \in Nat \ {0}, NEW d \in Nat \ {0}, NEW p \in Nat \ {0}
    PROVE  (p - 1) * d < n /\ n <= p * d <=> p = CeilDiv(n, d)
<1> DEFINE c == CeilDiv(n, d)
<1>1. c \in Nat /\ n <= c * d /\ c * d < n + d
  BY CeilDivBounds
<1> HIDE DEF c
<1>2. (p - 1) * d = p * d - d
  OBVIOUS
<1>3. p * d \in Nat /\ c * d \in Nat
  BY <1>1
<1>4. CASE p < c
  <2>1. p * d + d <= c * d
    BY <1>1, <1>4, Products
  <2> QED BY <1>1, <1>3, <1>4, <2>1 DEF c
<1>5. CASE c < p
  <2>1. c * d + d <= p * d
    BY <1>1, <1>5, Products
  <2> QED BY <1>1, <1>2, <1>3, <1>5, <2>1 DEF c
<1>6. CASE p = c
  BY <1>1, <1>2, <1>3, <1>6 DEF c
<1> QED BY <1>1, <1>4, <1>5, <1>6

\* More items need no fewer pages, and one item needs a page.
LEMMA CeilDivMonotone ==
    ASSUME NEW d \in Nat \ {0}, NEW total \in Nat, NEW n \in 1 .. total
    PROVE  CeilDiv(n, d) \in 1 .. CeilDiv(total, d)
<1> DEFINE c == CeilDiv(n, d)
           t == CeilDiv(total, d)
<1>0. n \in Nat
  OBVIOUS
<1> HIDE DEF c, t
<1>1. /\ c \in Nat /\ n <= c * d /\ c * d < n + d
      /\ t \in Nat /\ total <= t * d
  <2>1. c \in Nat /\ n <= c * d /\ c * d < n + d
    BY <1>0, CeilDivBounds, Zenon DEF c
  <2>2. t \in Nat /\ total <= t * d
    BY CeilDivBounds, Zenon DEF t
  <2> QED BY <2>1, <2>2
<1>2. c # 0
  BY <1>1
<1>3. ~(t < c)
  <2> SUFFICES ASSUME t < c PROVE FALSE
    OBVIOUS
  <2>1. t * d + d <= c * d
    BY <1>1, Products
  <2>2. t * d \in Nat /\ c * d \in Nat
    BY <1>1
  <2> QED BY <1>1, <2>1, <2>2
<1> QED BY <1>1, <1>2, <1>3 DEF c, t
-----------------------------------------------------------------------------
(* The pager of the storefront. *)

LEMMA PageFields ==
    ASSUME NEW total \in Nat, NEW limit \in Nat
    PROVE  /\ AtLeast(1, limit) \in Nat \ {0}
           /\ TotalPages(total, limit) \in Nat \ {0}
           /\ TotalPages(total, limit) = AtLeast(1, CeilDiv(total, AtLeast(1, limit)))
           /\ \A p \in 1 .. TotalPages(total, limit) :
                /\ Paginate(total, p, limit).page = p
                /\ Paginate(total, p, limit).limit = AtLeast(1, limit)
<1>1. AtLeast(1, limit) \in Nat \ {0}
  BY DEF AtLeast
<1>2. CeilDiv(total, AtLeast(1, limit)) \in Nat
  BY <1>1, CeilDivBounds
<1>3. TotalPages(total, limit) \in Nat \ {0}
  BY <1>2 DEF TotalPages, AtLeast
<1>4. TotalPages(total, limit) = AtLeast(1, CeilDiv(total, AtLeast(1, limit)))
  BY DEF TotalPages
<1>5. ASSUME NEW p \in 1 .. TotalPages(total, limit)
      PROVE  /\ Paginate(total, p, limit).page = p
             /\ Paginate(total, p, limit).limit = AtLeast(1, limit)
  <2>1. AtLeast(1, AtMost(TotalPages(total, limit), p)) = p
    BY <1>3 DEF AtLeast, AtMost
  <2>2. Paginate(total, p, limit).limit = AtLeast(1, limit)
    BY DEF Paginate
  <2> QED BY <2>1, <2>2 DEF Paginate
<1> QED BY <1>1, <1>3, <1>4, <1>5

\* Every item of a listing is shown on one page of it and on no other: to
\* follow the pager from the first page to the last misses no product and
\* repeats none, as long as the listing stays the same.
THEOREM GridPagesPartition ==
    ASSUME NEW total \in Nat, NEW limit \in Nat, NEW n \in 1 .. total
    PROVE  \E p \in 1 .. TotalPages(total, limit) :
             \A q \in 1 .. TotalPages(total, limit) :
               /\ GridStart(Paginate(total, q, limit)) < n
               /\ n <= GridEnd(Paginate(total, q, limit), total)
               <=> q = p
<1> DEFINE d == AtLeast(1, limit)
           T == TotalPages(total, limit)
           c == CeilDiv(n, d)
<1>1. d \in Nat \ {0} /\ T \in Nat \ {0} /\ T = AtLeast(1, CeilDiv(total, d))
  BY PageFields
<1>2. c \in 1 .. CeilDiv(total, d) /\ CeilDiv(total, d) \in Nat
  BY <1>1, CeilDivMonotone, CeilDivBounds
<1>3. c \in 1 .. T
  BY <1>1, <1>2 DEF AtLeast
<1>4. ASSUME NEW q \in 1 .. T
      PROVE  /\ GridStart(Paginate(total, q, limit)) < n
             /\ n <= GridEnd(Paginate(total, q, limit), total)
             <=> q = c
  <2>1. Paginate(total, q, limit).page = q /\ Paginate(total, q, limit).limit = d
    BY PageFields
  <2>2. q \in Nat \ {0} /\ n \in Nat \ {0}
    BY <1>1
  <2>3. (q - 1) * d < n /\ n <= q * d <=> q = c
    BY <1>1, <2>2, PageOfItem
  <2>4. GridStart(Paginate(total, q, limit)) = (q - 1) * d
    BY <2>1 DEF GridStart
  <2>5. (q - 1) * d + d = q * d /\ q * d \in Nat
    BY <1>1, <2>2
  <2>6. GridEnd(Paginate(total, q, limit), total) = AtMost(total, q * d)
    BY <2>1, <2>4, <2>5 DEF GridEnd
  <2>7. n <= AtMost(total, q * d) <=> n <= q * d
    BY <2>5 DEF AtMost
  <2> QED BY <2>3, <2>4, <2>6, <2>7
<1> QED BY <1>3, <1>4

\* The links are consecutive pages of the listing, the page shown and its
\* neighbours among them, five of them or, in a short listing, all there are.
THEOREM PagerLinks ==
    ASSUME NEW total \in Nat, NEW limit \in Nat, NEW requested \in Nat
    PROVE  LET p == Paginate(total, requested, limit) IN
           /\ {p.page, p.prev_page, p.next_page} \subseteq p.page_numbers
           /\ \E from, to \in 1 .. p.total_pages :
                /\ p.page_numbers = from .. to
                /\ to - from + 1 = AtMost(MaxPagesShown, p.total_pages)
<1> DEFINE p     == Paginate(total, requested, limit)
           T     == TotalPages(total, limit)
           page  == AtLeast(1, AtMost(T, requested))
           from  == AtLeast(1, page - 2)
           to    == AtMost(T, from + 4)
           from2 == IF to - from + 1 < 5 THEN AtLeast(1, to - 4) ELSE from
<1>1. T \in Nat \ {0}
  BY PageFields
<1> HIDE DEF T
<1>2. page \in 1 .. T
  BY <1>1 DEF AtLeast, AtMost
<1>3. /\ p.page = page /\ p.total_pages = T
      /\ p.prev_page = AtLeast(1, page - 1) /\ p.next_page = AtMost(T, page + 1)
  BY DEF Paginate, T
<1> HIDE DEF page
<1>4. /\ from2 \in 1 .. T /\ to \in 1 .. T /\ from2 <= to
      /\ from2 <= page /\ page <= to
      /\ AtLeast(1, page - 1) \in from2 .. to
      /\ AtMost(T, page + 1) \in from2 .. to
      /\ to - from2 + 1 = AtMost(5, T)
  BY <1>1, <1>2 DEF AtLeast, AtMost
<1>5. p.page_numbers = from2 .. AtLeast(from2, to)
  <2>1. MaxPagesShown \div 2 = 2 /\ MaxPagesShown - 1 = 4 /\ MaxPagesShown = 5
    BY DEF MaxPagesShown
  <2>2. from + MaxPagesShown - 1 = from + 4 /\ to - MaxPagesShown + 1 = to - 4
    BY <1>1, <1>2 DEF MaxPagesShown, AtLeast, AtMost
  <2> QED BY <2>1, <2>2 DEF Paginate, page, T
<1>6. AtLeast(from2, to) = to
  BY <1>1, <1>4 DEF AtLeast
<1> HIDE DEF from2, to
<1>7. page \in from2 .. to
  BY <1>1, <1>2, <1>4
<1> QED BY <1>3, <1>4, <1>5, <1>6, <1>7 DEF MaxPagesShown
-----------------------------------------------------------------------------
(* The pages of the product queries. *)

\* The pages of a query show every match once, and a page past the last one
\* shows nothing.
THEOREM QueryPagesPartition ==
    ASSUME NEW total \in Nat, NEW size \in Int, NEW n \in 1 .. total
    PROVE  \E p \in 1 .. TotalPages(total, size) :
             \A q \in Nat \ {0} :
               QueryPage(total, size, q).start < n /\ n <= QueryPage(total, size, q).end
               <=> q = p
<1> DEFINE d == AtLeast(1, size)
           T == TotalPages(total, size)
           c == CeilDiv(n, d)
<1>1. d \in Nat \ {0}
  BY DEF AtLeast
<1>2. T = AtLeast(1, CeilDiv(total, d))
  BY DEF TotalPages
<1>3. c \in 1 .. CeilDiv(total, d) /\ CeilDiv(total, d) \in Nat
  BY <1>1, CeilDivMonotone, CeilDivBounds
<1>4. c \in 1 .. T
  BY <1>2, <1>3 DEF AtLeast
<1>5. ASSUME NEW q \in Nat \ {0}
      PROVE  QueryPage(total, size, q).start < n /\ n <= QueryPage(total, size, q).end
             <=> q = c
  <2> DEFINE start == (q - 1) * d
  <2>1. start + d = q * d /\ q * d \in Nat /\ start \in Nat
    BY <1>1
  <2>2. start < n /\ n <= start + d <=> q = c
    BY <1>1, <2>1, PageOfItem
  <2>3. AtLeast(1, q) = q
    BY DEF AtLeast
  <2>4. /\ QueryPage(total, size, q).start = AtMost(total, start)
        /\ QueryPage(total, size, q).end = AtMost(total, AtMost(total, start) + d)
    BY <2>3 DEF QueryPage
  <2> HIDE DEF start, d
  <2>5. /\ AtMost(total, start) < n <=> start < n
        /\ start < n => (n <= AtMost(total, AtMost(total, start) + d) <=> n <= start + d)
    BY <1>1, <2>1 DEF AtMost
  <2> QED BY <2>2, <2>4, <2>5
<1> QED BY <1>4, <1>5

-----------------------------------------------------------------------------
(* ImageCache keeps its promises for any sources, queries and number of    *)
(* requests.  The inductive invariant says what a request knows at each    *)
(* step, and of a cached file that nobody spoilt that it is whole, or that *)
(* one of its writers, the last that truncated it, has filled it up to     *)
(* where it is.                                                            *)

\* x is the n-th block of one of the encodings, or a hole.
Piece(x, n, k) == x = Hole \/ \E s \in Encodings(k) : n \in DOMAIN s /\ x = s[n]

Pieces(content, k) == \A n \in DOMAIN content : Piece(content[n], n, k)

\* The content agrees with the encoding B up to position m.
FilledTo(content, B, m) ==
    m <= Len(content) /\ \A n \in 1 .. m : content[n] = B[n]

\* B is what the file k holds, or will when one of its writers is done.
Agreed(k, B) ==
    /\ \A t \in Writers(k) : img[t].body = B
    /\ Len(file[k]) <= Len(B)
    /\ \A n \in DOMAIN file[k] : file[k][n] \in {Hole, B[n]}
    /\ \/ file[k] = B
       \/ \E t \in Writers(k) : FilledTo(file[k], B, img[t].at)

FileInv ==
    \A k \in DOMAIN file :
        /\ Pieces(file[k], k)
        /\ k \notin spoilt => \E B \in Encodings(k) : Agreed(k, B)

\* The image of a request that has encoded one.
Made(r) == \E v \in img[r].seen \ (Undecodable \cup {Missing}) :
               img[r].body = Rendering(v, img[r].query)

\* What a request has found out.
Knows(r) ==
    /\ img[r].pc \notin ImageEnded =>
         /\ img[r].query \in ImageQuery /\ img[r].query.src \in Src
         /\ source[img[r].query.src] \in img[r].seen
    /\ img[r].pc \in {"idle", "look", "fetch", "render", "store", "fill"} => ~img[r].hit
    /\ img[r].pc = "read" => img[r].hit
    /\ img[r].pc \in {"idle", "look"} => img[r].body = <<>> /\ img[r].at = 0
    /\ img[r].pc = "render" => img[r].version \in img[r].seen \ {Missing}
    /\ img[r].pc \in {"store", "fill"} => Made(r)
    /\ img[r].pc = "fill" => KeyOfRequest(r) \in DOMAIN file /\ img[r].at <= Len(img[r].body)
    /\ img[r].pc = "ok" /\ ~img[r].hit => Made(r)

\* What a request that reads the cache has read.
Reads(r) ==
    LET k == KeyOfRequest(r) IN
    /\ img[r].pc = "read" =>
         /\ k \in DOMAIN file /\ img[r].at = Len(img[r].body)
         /\ ~img[r].raced => /\ k \notin spoilt /\ Writers(k) = {}
                             /\ FilledTo(file[k], img[r].body, img[r].at)
    /\ img[r].hit /\ img[r].pc \in {"read", "ok"} =>
         img[r].query \in ImageQuery /\ Pieces(img[r].body, k)
    /\ img[r].hit /\ img[r].pc = "ok" =>
         img[r].raced \/ img[r].body \in Encodings(k)

ImageInv == ImageTypeOK /\ FileInv /\ \A r \in Request : Knows(r) /\ Reads(r)

-----------------------------------------------------------------------------
(* The operators. *)

\* What a query asks for is an encoding of its file.
LEMMA RenderingsAreEncodings ==
    ASSUME NEW q \in ImageQuery
    PROVE  Renderings(q) \subseteq Encodings(Key(q))
BY DEF Encodings

\* Queries that share a file ask for one format: it is the file's extension.
LEMMA EncodingFormat ==
    ASSUME NEW q \in ImageQuery, NEW s \in Encodings(Key(q)), NEW n \in DOMAIN s
    PROVE  s[n].format = Format(q.kind)
<1>1. PICK p \in ImageQuery : Key(p) = Key(q) /\ s \in Renderings(p)
  BY DEF Encodings
<1>2. Format(p.kind) = Format(q.kind)
  BY <1>1 DEF Key
<1>3. PICK v : s = Rendering(v, p)
  BY <1>1 DEF Renderings
<1> QED BY <1>2, <1>3 DEF Rendering

\* An encoding is a sequence of blocks.
LEMMA RenderingType ==
    ASSUME NEW q \in ImageQuery, NEW s \in Renderings(q)
    PROVE  s \in Seq(Bytes) /\ DOMAIN s = 1 .. Len(s)
<1>1. PICK v \in SrcVersion \ (Undecodable \cup {Missing}) : s = Rendering(v, q)
  BY DEF Renderings
<1>2. Blocks[v] \in Nat
  BY ImageAssumption
<1>3. DOMAIN s = 1 .. Blocks[v]
  BY <1>1 DEF Rendering
<1>4. s \in UNION {Renderings(p) : p \in ImageQuery}
  OBVIOUS
<1>5. \A n \in DOMAIN s : s[n] \in Bytes
  BY <1>4 DEF Bytes
<1>6. s = [n \in 1 .. Blocks[v] |-> s[n]]
  BY <1>1 DEF Rendering
<1>7. s \in [1 .. Blocks[v] -> Bytes]
  BY <1>3, <1>5, <1>6
<1> QED BY <1>2, <1>7

LEMMA EncodingType ==
    ASSUME NEW k, NEW B \in Encodings(k)
    PROVE  B \in Seq(Bytes) /\ DOMAIN B = 1 .. Len(B)
BY RenderingType DEF Encodings

\* c is the content with x at n, and zeros up to it.
WrittenAt(c, content, n, x) ==
    /\ c \in Seq(Bytes)
    /\ Len(c) = IF n > Len(content) THEN n ELSE Len(content)
    /\ n \in DOMAIN c /\ c[n] = x
    /\ \A m \in DOMAIN content \ {n} : m \in DOMAIN c /\ c[m] = content[m]
    /\ \A m \in DOMAIN c \ {n} : m \notin DOMAIN content => c[m] = Hole

LEMMA OverwrittenIs ==
    ASSUME NEW content \in Seq(Bytes), NEW n \in Nat \ {0}, NEW x \in Bytes,
           NEW c, c = Overwritten(content, n, x)
    PROVE  WrittenAt(c, content, n, x)
<1> DEFINE len == IF n > Len(content) THEN n ELSE Len(content)
<1>1. len \in Nat /\ DOMAIN content = 1 .. Len(content) /\ Len(content) \in Nat
  OBVIOUS
<1>2. Hole \in Bytes
  BY DEF Bytes
<1>3. c = [m \in 1 .. len |-> IF m = n THEN x
                              ELSE IF m \in DOMAIN content THEN content[m] ELSE Hole]
  BY DEF Overwritten
<1>4. \A m \in 1 .. len : c[m] \in Bytes
  BY <1>1, <1>2, <1>3
<1>5. c \in [1 .. len -> Bytes]
  BY <1>3, <1>4
<1>6. c \in Seq(Bytes) /\ Len(c) = len
  BY <1>1, <1>5
<1>7. n \in 1 .. len /\ DOMAIN content \subseteq 1 .. len
  BY <1>1
<1>8. DOMAIN c = 1 .. len
  BY <1>3
<1> QED BY <1>1, <1>3, <1>6, <1>7, <1>8 DEF WrittenAt

-----------------------------------------------------------------------------
(* The types. *)

\* What a request makes is a sequence of blocks of an encoding of its file.
LEMMA MadeIsEncoding ==
    ASSUME ImageTypeOK, NEW r \in Request, img[r].query \in ImageQuery, Made(r)
    PROVE  /\ img[r].body \in Encodings(KeyOfRequest(r))
           /\ img[r].body \in Seq(Bytes)
           /\ DOMAIN img[r].body = 1 .. Len(img[r].body)
<1>1. img[r].body \in Renderings(img[r].query)
  BY DEF Made, Renderings, ImageTypeOK, ImageRequest
<1> QED BY <1>1, RenderingsAreEncodings, RenderingType DEF KeyOfRequest

\* A request becomes another one.
LEMMA ImageChange ==
    ASSUME img \in [Request -> ImageRequest], NEW r \in Request,
           NEW new \in ImageRequest, Image(r, new)
    PROVE  img' \in [Request -> ImageRequest]
BY DEF Image

LEMMA TypeKept ==
    ASSUME ImageTypeOK, \A r \in Request : Knows(r) /\ Reads(r), ImageNext
    PROVE  ImageTypeOK'
<1>0. /\ img \in [Request -> ImageRequest]
      /\ \A r \in Request : img[r] \in ImageRequest
  BY DEF ImageTypeOK
<1>1. ASSUME NEW r \in Request, NEW q \in ImageQuery, AskImage(r, q)
      PROVE  ImageTypeOK'
  <2> DEFINE v == source[q.src]
             fails == [img[r] EXCEPT !.pc = "error", !.query = q]
             asks == [img[r] EXCEPT !.pc = "look", !.query = q, !.seen = {v}]
  <2>1. fails \in ImageRequest
    BY <1>0 DEF ImageRequest, ImageEnded
  <2>2. CASE q.src = NoSrc
    <3>1. Image(r, fails)
      BY <1>1, <2>2 DEF AskImage
    <3> QED BY <1>0, <1>1, <2>1, <3>1, ImageChange DEF ImageTypeOK, AskImage
  <2>3. CASE q.src # NoSrc
    <3>1. v \in SrcVersion
      BY <2>3, ImageAssumption DEF ImageTypeOK
    <3>2. asks \in ImageRequest
      <4> HIDE DEF v
      <4> QED BY <1>0, <3>1 DEF ImageRequest
    <3>3. Image(r, asks)
      BY <1>1, <2>3 DEF AskImage
    <3> HIDE DEF asks
    <3>4. img' \in [Request -> ImageRequest]
      BY <1>0, <3>2, <3>3, ImageChange
    <3> QED BY <1>1, <3>4 DEF ImageTypeOK, AskImage
  <2> QED BY <2>2, <2>3
<1>2. ASSUME NEW r \in Request, Look(r)
      PROVE  ImageTypeOK'
  <2> DEFINE k == KeyOfRequest(r)
             race == Writers(k) # {} \/ k \in spoilt
             hits == [img[r] EXCEPT !.pc = "read", !.hit = TRUE, !.raced = race]
             miss == [img[r] EXCEPT !.pc = "fetch"]
  <2>1. race \in BOOLEAN
    OBVIOUS
  <2>2. hits \in ImageRequest
    <3> HIDE DEF race
    <3> QED BY <1>0, <2>1 DEF ImageRequest
  <2>3. miss \in ImageRequest
    BY <1>0 DEF ImageRequest
  <2>4. Image(r, hits) \/ Image(r, miss)
    BY <1>2 DEF Look
  <2> HIDE DEF hits, miss
  <2>5. img' \in [Request -> ImageRequest]
    BY <1>0, <2>2, <2>3, <2>4, ImageChange
  <2> QED BY <1>2, <2>5 DEF ImageTypeOK, Look
<1>3. ASSUME NEW r \in Request, ReadBlock(r)
      PROVE  ImageTypeOK'
  <2> DEFINE content == file[KeyOfRequest(r)]
             next == img[r].at + 1
             more == [img[r] EXCEPT !.at = next, !.body = Append(@, content[next])]
             ends == [img[r] EXCEPT !.pc = "ok"]
  <2>1. content \in Seq(Bytes)
    BY <1>3 DEF ReadBlock, Reads, ImageTypeOK
  <2>2. ends \in ImageRequest
    BY <1>0 DEF ImageRequest, ImageEnded
  <2>3. next \in DOMAIN content => more \in ImageRequest
    <3>1. next \in DOMAIN content => content[next] \in Bytes
      BY <2>1
    <3>2. next \in Nat
      BY <1>0 DEF ImageRequest
    <3>3. next \in DOMAIN content => Append(img[r].body, content[next]) \in Seq(Bytes)
      BY <1>0, <3>1 DEF ImageRequest
    <3> HIDE DEF content, next
    <3> QED BY <1>0, <3>2, <3>3 DEF ImageRequest
  <2>4. (next \in DOMAIN content /\ Image(r, more)) \/ Image(r, ends)
    BY <1>3 DEF ReadBlock
  <2> HIDE DEF content, next, more, ends
  <2>5. img' \in [Request -> ImageRequest]
    BY <1>0, <2>2, <2>3, <2>4, ImageChange
  <2> QED BY <1>3, <2>5 DEF ImageTypeOK, ReadBlock
<1>4. ASSUME NEW r \in Request, Fetch(r)
      PROVE  ImageTypeOK'
  <2> DEFINE v == source[img[r].query.src]
             fails == [img[r] EXCEPT !.pc = "error"]
             done == [img[r] EXCEPT !.pc = "render", !.version = v]
  <2>1. v \in SrcVersion
    BY <1>4 DEF Fetch, Knows, ImageTypeOK, ImageEnded
  <2>2. done \in ImageRequest /\ fails \in ImageRequest
    <3> HIDE DEF v
    <3> QED BY <1>0, <2>1 DEF ImageRequest, ImageEnded
  <2>3. Image(r, fails) \/ Image(r, done)
    BY <1>4 DEF Fetch
  <2> HIDE DEF done, fails
  <2>4. img' \in [Request -> ImageRequest]
    BY <1>0, <2>2, <2>3, ImageChange
  <2> QED BY <1>4, <2>4 DEF ImageTypeOK, Fetch
<1>5. ASSUME NEW r \in Request, Render(r)
      PROVE  ImageTypeOK'
  <2> DEFINE s == Rendering(img[r].version, img[r].query)
             fails == [img[r] EXCEPT !.pc = "error"]
             done == [img[r] EXCEPT !.pc = "store", !.body = s]
  <2>1. fails \in ImageRequest
    BY <1>0 DEF ImageRequest, ImageEnded
  <2>2. img[r].version \notin Undecodable => done \in ImageRequest
    <3>1. /\ img[r].query \in ImageQuery /\ img[r].version \in SrcVersion
          /\ img[r].version # Missing
      BY <1>0, <1>5 DEF Render, Knows, ImageEnded, ImageRequest
    <3>2. img[r].version \notin Undecodable => s \in Renderings(img[r].query)
      BY <3>1 DEF Renderings
    <3>3. img[r].version \notin Undecodable => s \in Seq(Bytes)
      BY <3>1, <3>2, RenderingType
    <3> HIDE DEF s
    <3> QED BY <1>0, <3>3 DEF ImageRequest
  <2>3. (img[r].version \notin Undecodable /\ Image(r, done)) \/ Image(r, fails)
    BY <1>5 DEF Render
  <2> HIDE DEF done, fails
  <2>4. img' \in [Request -> ImageRequest]
    BY <1>0, <2>1, <2>2, <2>3, ImageChange
  <2> QED BY <1>5, <2>4 DEF ImageTypeOK, Render
<1>6. ASSUME NEW r \in Request, OpenFile(r)
      PROVE  ImageTypeOK'
  <2> DEFINE k == KeyOfRequest(r)
  <2>1. k \in FileKey
    BY <1>6 DEF OpenFile, Knows, KeyOfRequest, FileKey, ImageEnded
  <2>2. file' = With(file, k, <<>>)
    BY <1>6 DEF OpenFile
  <2>3. spoilt' \subseteq spoilt \cup {k} /\ source' = source
    BY <1>6 DEF OpenFile
  <2>4. img' \in [Request -> ImageRequest]
    <3> SUFFICES ASSUME NEW s \in Request
                 PROVE  img'[s] \in ImageRequest
      BY <1>6 DEF OpenFile
    <3>1. /\ [img[s] EXCEPT !.pc = "fill", !.at = 0] \in ImageRequest
          /\ [img[s] EXCEPT !.raced = TRUE] \in ImageRequest
      BY <1>0 DEF ImageRequest
    <3>2. img'[s] \in {[img[s] EXCEPT !.pc = "fill", !.at = 0],
                       [img[s] EXCEPT !.raced = TRUE], img[s]}
      BY <1>6 DEF OpenFile
    <3> QED BY <1>0, <3>1, <3>2
  <2> HIDE DEF k
  <2>5. DOMAIN file' \subseteq FileKey /\ \A j \in DOMAIN file' : file'[j] \in Seq(Bytes)
    BY <2>1, <2>2 DEF With, ImageTypeOK
  <2> QED BY <2>1, <2>3, <2>4, <2>5 DEF ImageTypeOK
<1>7. ASSUME NEW r \in Request, Fill(r)
      PROVE  ImageTypeOK'
  <2> DEFINE k == KeyOfRequest(r)
             n == img[r].at + 1
             content == Overwritten(file[k], n, img[r].body[n])
             new == [img[r] EXCEPT !.at = n]
  <2>1. /\ k \in DOMAIN file /\ n \in Nat \ {0} /\ img[r].body[n] \in Bytes
        /\ file[k] \in Seq(Bytes)
    <3>1. /\ img[r].body \in Seq(Bytes) /\ img[r].at \in Nat
          /\ img[r].at < Len(img[r].body)
      BY <1>0, <1>7 DEF ImageRequest, Fill
    <3> QED BY <1>7, <3>1 DEF Fill, Knows, ImageTypeOK
  <2>2. content \in Seq(Bytes)
    BY <2>1, OverwrittenIs DEF WrittenAt
  <2>3. new \in ImageRequest
    <3> HIDE DEF n
    <3> QED BY <1>0, <2>1 DEF ImageRequest
  <2>4. /\ Image(r, new) /\ file' = [file EXCEPT ![k] = content]
        /\ UNCHANGED <<source, spoilt>>
    BY <1>7 DEF Fill
  <2> HIDE DEF k, content, new
  <2>5. img' \in [Request -> ImageRequest]
    BY <1>0, <2>3, <2>4, ImageChange
  <2> QED BY <2>2, <2>4, <2>5 DEF ImageTypeOK
<1>8. ASSUME NEW r \in Request, Filled(r) \/ StoreRefused(r) \/ ImageFails(r)
      PROVE  ImageTypeOK'
  <2>1. /\ [img[r] EXCEPT !.pc = "ok"] \in ImageRequest
        /\ [img[r] EXCEPT !.pc = "error"] \in ImageRequest
    BY <1>0 DEF ImageRequest, ImageEnded
  <2>2. /\ Image(r, [img[r] EXCEPT !.pc = "ok"]) \/ Image(r, [img[r] EXCEPT !.pc = "error"])
        /\ UNCHANGED <<source, file, spoilt>>
    BY <1>8 DEF Filled, StoreRefused, ImageFails
  <2>3. img' \in [Request -> ImageRequest]
    BY <1>0, <2>1, <2>2, ImageChange
  <2> QED BY <2>2, <2>3 DEF ImageTypeOK
<1>9. ASSUME NEW r \in Request, FillFails(r)
      PROVE  ImageTypeOK'
  <2>1. KeyOfRequest(r) \in FileKey
    BY <1>9 DEF FillFails, Knows, KeyOfRequest, FileKey, ImageEnded
  <2>2. [img[r] EXCEPT !.pc = "ok"] \in ImageRequest
    BY <1>0 DEF ImageRequest, ImageEnded
  <2>3. img' \in [Request -> ImageRequest]
    BY <1>0, <1>9, <2>2, ImageChange DEF FillFails
  <2> QED BY <1>9, <2>1, <2>3 DEF ImageTypeOK, FillFails
<1>10. ASSUME ImageCrash
       PROVE  ImageTypeOK'
  <2>1. \A r \in Request : [img[r] EXCEPT !.pc = "gone"] \in ImageRequest
    BY <1>0 DEF ImageRequest, ImageEnded
  <2>2. img' \in [Request -> ImageRequest]
    BY <1>0, <1>10, <2>1 DEF ImageCrash
  <2> QED BY <1>10, <2>2 DEF ImageTypeOK, ImageCrash
<1>11. ASSUME NEW src \in Src, Replace(src)
       PROVE  ImageTypeOK'
  <2>1. source[src] + 1 \in SrcVersion
    BY <1>11, ImageAssumption DEF Replace, SrcVersion, ImageTypeOK
  <2>2. \A r \in Request :
            [img[r] EXCEPT !.seen = @ \cup {source[src] + 1}] \in ImageRequest
    BY <1>0, <2>1 DEF ImageRequest
  <2>3. img' \in [Request -> ImageRequest]
    BY <1>0, <1>11, <2>2 DEF Replace
  <2>4. source' \in [Src -> SrcVersion]
    BY <1>11, <2>1 DEF Replace, ImageTypeOK
  <2> QED BY <1>11, <2>3, <2>4 DEF ImageTypeOK, Replace
<1> QED BY <1>1, <1>2, <1>3, <1>4, <1>5, <1>6, <1>7, <1>8, <1>9, <1>10, <1>11
        DEF ImageNext, ImageStep, ImageFault

-----------------------------------------------------------------------------
(* What a request knows. *)

\* A request that is left as it is.
LEMMA KnowsFrame ==
    ASSUME NEW s \in Request, Knows(s), img'[s] = img[s], source' = source,
           DOMAIN file \subseteq DOMAIN file'
    PROVE  Knows(s)'
BY DEF Knows, Made, KeyOfRequest

LEMMA KnowsKept ==
    ASSUME ImageTypeOK, ImageNext, NEW s \in Request, Knows(s)
    PROVE  Knows(s)'
<1>0. img[s] \in ImageRequest /\ img \in [Request -> ImageRequest]
  BY DEF ImageTypeOK
<1>1. ASSUME NEW r \in Request, NEW q \in ImageQuery, AskImage(r, q)
      PROVE  Knows(s)'
  <2>1. CASE s # r
    BY <1>0, <1>1, <2>1, KnowsFrame DEF AskImage, Image
  <2>2. CASE s = r /\ q.src = NoSrc
    <3>1. img'[s] = [img[s] EXCEPT !.pc = "error", !.query = q]
      BY <1>0, <1>1, <2>2 DEF AskImage, Image
    <3> QED BY <1>0, <1>1, <3>1 DEF Knows, ImageRequest, ImageEnded
  <2>3. CASE s = r /\ q.src # NoSrc
    <3>1. img'[s] = [img[s] EXCEPT !.pc = "look", !.query = q, !.seen = {source[q.src]}]
      BY <1>0, <1>1, <2>3 DEF AskImage, Image
    <3>2. source' = source /\ img[s].pc = "idle"
      BY <1>1, <2>3 DEF AskImage
    <3> QED BY <1>0, <2>3, <3>1, <3>2, ImageAssumption DEF Knows, ImageRequest, ImageEnded
  <2> QED BY <2>1, <2>2, <2>3
<1>2. ASSUME NEW r \in Request, Look(r)
      PROVE  Knows(s)'
  <2>1. CASE s # r
    BY <1>0, <1>2, <2>1, KnowsFrame DEF Look, Image
  <2>2. CASE s = r
    <3>1. /\ img'[s].pc \in {"read", "fetch"} /\ img'[s].query = img[s].query
          /\ img'[s].seen = img[s].seen /\ (img'[s].pc = "fetch" => img'[s].hit = img[s].hit)
          /\ (img'[s].pc = "read" => img'[s].hit)
          /\ img[s].pc = "look" /\ source' = source
      BY <1>0, <1>2, <2>2 DEF Look, Image, ImageRequest
    <3> QED BY <3>1 DEF Knows, ImageEnded
  <2> QED BY <2>1, <2>2
<1>3. ASSUME NEW r \in Request, ReadBlock(r)
      PROVE  Knows(s)'
  <2>1. CASE s # r
    BY <1>0, <1>3, <2>1, KnowsFrame DEF ReadBlock, Image
  <2>2. CASE s = r
    <3>1. /\ img'[s].pc \in {"read", "ok"} /\ img'[s].query = img[s].query
          /\ img'[s].seen = img[s].seen /\ img'[s].hit = img[s].hit
          /\ img[s].pc = "read" /\ source' = source
      BY <1>0, <1>3, <2>2 DEF ReadBlock, Image, ImageRequest
    <3> QED BY <3>1 DEF Knows, ImageEnded
  <2> QED BY <2>1, <2>2
<1>4. ASSUME NEW r \in Request, Fetch(r)
      PROVE  Knows(s)'
  <2>1. CASE s # r
    BY <1>0, <1>4, <2>1, KnowsFrame DEF Fetch, Image
  <2>2. CASE s = r
    <3>1. /\ img'[s].query = img[s].query /\ img'[s].seen = img[s].seen
          /\ img'[s].hit = img[s].hit /\ img[s].pc = "fetch" /\ source' = source
          /\ \/ img'[s].pc = "error"
             \/ /\ img'[s].pc = "render" /\ source[img[s].query.src] # Missing
                /\ img'[s].version = source[img[s].query.src]
      BY <1>0, <1>4, <2>2 DEF Fetch, Image, ImageRequest
    <3> QED BY <3>1 DEF Knows, ImageEnded
  <2> QED BY <2>1, <2>2
<1>5. ASSUME NEW r \in Request, Render(r)
      PROVE  Knows(s)'
  <2>1. CASE s # r
    BY <1>0, <1>5, <2>1, KnowsFrame DEF Render, Image
  <2>2. CASE s = r
    <3>1. /\ img'[s].query = img[s].query /\ img'[s].seen = img[s].seen
          /\ img'[s].hit = img[s].hit /\ img[s].pc = "render" /\ source' = source
          /\ \/ img'[s].pc = "error"
             \/ /\ img'[s].pc = "store" /\ img[s].version \notin Undecodable
                /\ img'[s].body = Rendering(img[s].version, img[s].query)
      BY <1>0, <1>5, <2>2 DEF Render, Image, ImageRequest
    <3> QED BY <3>1 DEF Knows, Made, ImageEnded
  <2> QED BY <2>1, <2>2
<1>6. ASSUME NEW r \in Request, OpenFile(r)
      PROVE  Knows(s)'
  <2>1. /\ img'[s].query = img[s].query /\ img'[s].seen = img[s].seen
        /\ img'[s].hit = img[s].hit /\ img'[s].version = img[s].version
        /\ img'[s].body = img[s].body
    BY <1>0, <1>6 DEF OpenFile, ImageRequest
  <2>2. /\ DOMAIN file' = DOMAIN file \cup {KeyOfRequest(r)} /\ source' = source
        /\ img[r].pc = "store"
    BY <1>6 DEF OpenFile, With
  <2>3. CASE s # r
    <3>1. img'[s].pc = img[s].pc /\ img'[s].at = img[s].at
      BY <1>0, <1>6, <2>3 DEF OpenFile, ImageRequest
    <3> QED BY <2>1, <2>2, <3>1 DEF Knows, Made, KeyOfRequest
  <2>4. CASE s = r
    <3>1. img'[s].pc = "fill" /\ img'[s].at = 0
      BY <1>0, <1>6, <2>4 DEF OpenFile, ImageRequest
    <3>2. Len(img[s].body) \in Nat
      BY <1>0 DEF ImageRequest
    <3> QED BY <2>1, <2>2, <2>4, <3>1, <3>2 DEF Knows, Made, KeyOfRequest, ImageEnded
  <2> QED BY <2>3, <2>4
<1>7. ASSUME NEW r \in Request, Fill(r)
      PROVE  Knows(s)'
  <2>1. DOMAIN file' = DOMAIN file /\ source' = source
    BY <1>7 DEF Fill
  <2>2. CASE s # r
    <3>1. img'[s] = img[s]
      BY <1>0, <1>7, <2>2 DEF Fill, Image
    <3> QED BY <2>1, <3>1, KnowsFrame
  <2>3. CASE s = r
    <3>1. /\ img'[s].query = img[s].query /\ img'[s].seen = img[s].seen
          /\ img'[s].hit = img[s].hit /\ img'[s].version = img[s].version
          /\ img'[s].body = img[s].body /\ img'[s].pc = img[s].pc
          /\ img[s].pc = "fill" /\ img'[s].at = img[s].at + 1
          /\ img[s].at < Len(img[s].body)
      BY <1>0, <1>7, <2>3 DEF Fill, Image, ImageRequest
    <3>2. Len(img[s].body) \in Nat /\ img[s].at \in Nat
      BY <1>0 DEF ImageRequest
    <3> QED BY <2>1, <3>1, <3>2 DEF Knows, Made, KeyOfRequest
  <2> QED BY <2>2, <2>3
<1>8. ASSUME NEW r \in Request,
             Filled(r) \/ StoreRefused(r) \/ ImageFails(r) \/ FillFails(r)
      PROVE  Knows(s)'
  <2>1. CASE s # r
    BY <1>0, <1>8, <2>1, KnowsFrame DEF Filled, StoreRefused, ImageFails, FillFails, Image
  <2>2. CASE s = r
    <3>1. /\ img'[s].query = img[s].query /\ img'[s].seen = img[s].seen
          /\ img'[s].hit = img[s].hit /\ img'[s].body = img[s].body
          /\ \/ img[s].pc \in {"store", "fill"} /\ img'[s].pc = "ok"
             \/ img[s].pc \in {"fetch", "render"} /\ img'[s].pc = "error"
      BY <1>0, <1>8, <2>2
         DEF Filled, StoreRefused, ImageFails, FillFails, Image, ImageRequest
    <3> QED BY <3>1 DEF Knows, Made, ImageEnded
  <2> QED BY <2>1, <2>2
<1>9. ASSUME ImageCrash
      PROVE  Knows(s)'
  <2>1. img'[s] = img[s] \/ img'[s].pc = "gone"
    BY <1>0, <1>9 DEF ImageCrash, ImageRequest
  <2>2. source' = source /\ file' = file
    BY <1>9 DEF ImageCrash
  <2>3. CASE img'[s].pc = "gone"
    BY <2>3 DEF Knows, ImageEnded
  <2> QED BY <2>1, <2>2, <2>3, KnowsFrame
<1>10. ASSUME NEW src \in Src, Replace(src)
       PROVE  Knows(s)'
  <2>1. /\ img'[s].query = img[s].query /\ img[s].seen \subseteq img'[s].seen
        /\ img'[s].hit = img[s].hit /\ img'[s].version = img[s].version
        /\ img'[s].body = img[s].body /\ img'[s].pc = img[s].pc
        /\ img'[s].at = img[s].at
    BY <1>0, <1>10 DEF Replace, ImageRequest
  <2>2. img[s].pc \notin ImageEnded => source'[img[s].query.src] \in img'[s].seen
    BY <1>0, <1>10 DEF Replace, ImageRequest, Knows, ImageTypeOK
  <2>3. file' = file
    BY <1>10 DEF Replace
  <2> QED BY <2>1, <2>2, <2>3 DEF Knows, Made, KeyOfRequest
<1> QED BY <1>1, <1>2, <1>3, <1>4, <1>5, <1>6, <1>7, <1>8, <1>9, <1>10
        DEF ImageNext, ImageStep, ImageFault

-----------------------------------------------------------------------------
(* The files. *)

\* As far as the file k is concerned, t writes on as before.
SameWriter(t, k) ==
    /\ t \in Writers(k)' <=> t \in Writers(k)
    /\ t \in Writers(k) => img'[t].body = img[t].body /\ img'[t].at = img[t].at

\* A file that no writer of it has touched.
LEMMA FileFrame ==
    ASSUME NEW k, \A t \in Request : SameWriter(t, k), file'[k] = file[k],
           NEW B, Agreed(k, B)
    PROVE  Agreed(k, B)'
<1>1. Writers(k)' = Writers(k) /\ Writers(k) \subseteq Request
  BY DEF SameWriter, Writers
<1>2. \A t \in Writers(k) : img'[t].body = img[t].body /\ img'[t].at = img[t].at
  BY <1>1 DEF SameWriter
<1> QED BY <1>1, <1>2 DEF Agreed, FilledTo

\* Steps that leave the files and their writers alone.
LEMMA FilesFrame ==
    ASSUME FileInv, file' = file, spoilt' = spoilt,
           \A t \in Request : /\ img'[t].pc = "fill" <=> img[t].pc = "fill"
                              /\ img[t].pc = "fill" => img'[t] = img[t]
    PROVE  FileInv'
<1>1. \A k : \A t \in Request : SameWriter(t, k)
  BY DEF SameWriter, Writers, KeyOfRequest
<1>2. \A k, B : Agreed(k, B) => Agreed(k, B)'
  BY <1>1, FileFrame
<1> QED BY <1>2 DEF FileInv, Pieces, Piece, Encodings

\* What a step at one file has to leave of the others, and to make of it.
LEMMA OneFile ==
    ASSUME FileInv, NEW k,
           DOMAIN file' \subseteq DOMAIN file \cup {k}, spoilt \subseteq spoilt',
           \A j \in DOMAIN file : j # k => file'[j] = file[j],
           \A j : j # k => \A t \in Request : SameWriter(t, j),
           Pieces(file'[k], k),
           k \notin spoilt' => \E B \in Encodings(k) : Agreed(k, B)'
    PROVE  FileInv'
<1>1. \A j \in DOMAIN file : j # k => \A B : Agreed(j, B) => Agreed(j, B)'
  BY FileFrame
<1>2. \A j \in DOMAIN file' : j # k => j \in DOMAIN file
  OBVIOUS
<1>3. ASSUME NEW j \in DOMAIN file', j # k
      PROVE  /\ Pieces(file'[j], j)
             /\ j \notin spoilt' => \E B \in Encodings(j) : Agreed(j, B)'
  BY <1>1, <1>2, <1>3 DEF FileInv
<1> QED BY <1>3 DEF FileInv, Pieces, Piece, Encodings

\* Two contents of the same length and blocks are one.
LEMMA SameBlocks ==
    ASSUME NEW c \in Seq(Bytes), NEW d \in Seq(Bytes), Len(c) = Len(d),
           \A n \in 1 .. Len(d) : c[n] = d[n]
    PROVE  c = d
BY SeqEqual

\* The steps of a request that has nothing to do with the files, or only reads.
Quiet(r) ==
    \/ \E q \in ImageQuery : AskImage(r, q)
    \/ Look(r) \/ ReadBlock(r) \/ Fetch(r) \/ Render(r)
    \/ StoreRefused(r) \/ ImageFails(r)

LEMMA QuietSteps ==
    ASSUME ImageTypeOK, NEW r \in Request, Quiet(r)
    PROVE  /\ file' = file /\ spoilt' = spoilt
           /\ \A t \in Request : t # r => img'[t] = img[t]
           /\ img[r].pc # "fill" /\ img'[r].pc # "fill"
<1>0. img \in [Request -> ImageRequest] /\ \A t \in Request : img[t] \in ImageRequest
  BY DEF ImageTypeOK
<1>1. file' = file /\ spoilt' = spoilt
  BY DEF Quiet, AskImage, Look, ReadBlock, Fetch, Render, StoreRefused, ImageFails
<1>2. (\A t \in Request : t # r => img'[t] = img[t]) /\ img[r].pc # "fill"
  BY <1>0 DEF Quiet, AskImage, Look, ReadBlock, Fetch, Render, StoreRefused, ImageFails, Image
<1>3. img'[r].pc # "fill"
  <2>1. ASSUME NEW q \in ImageQuery, AskImage(r, q) PROVE img'[r].pc # "fill"
    BY <1>0, <2>1 DEF AskImage, Image, ImageRequest
  <2>2. CASE Look(r)
    BY <1>0, <2>2 DEF Look, Image, ImageRequest
  <2>3. CASE ReadBlock(r)
    BY <1>0, <2>3 DEF ReadBlock, Image, ImageRequest
  <2>4. CASE Fetch(r)
    BY <1>0, <2>4 DEF Fetch, Image, ImageRequest
  <2>5. CASE Render(r)
    BY <1>0, <2>5 DEF Render, Image, ImageRequest
  <2>6. CASE StoreRefused(r) \/ ImageFails(r)
    BY <1>0, <2>6 DEF StoreRefused, ImageFails, Image, ImageRequest
  <2> QED BY <2>1, <2>2, <2>3, <2>4, <2>5, <2>6 DEF Quiet
<1> QED BY <1>1, <1>2, <1>3

LEMMA FilesKept ==
    ASSUME ImageTypeOK, FileInv, \A r \in Request : Knows(r), ImageNext
    PROVE  FileInv'
<1>0. img \in [Request -> ImageRequest] /\ \A r \in Request : img[r] \in ImageRequest
  BY DEF ImageTypeOK
<1>1. ASSUME NEW r \in Request, Quiet(r)
      PROVE  FileInv'
  BY <1>1, QuietSteps, FilesFrame DEF Quiet
<1>2. ASSUME NEW r \in Request, OpenFile(r)
      PROVE  FileInv'
  <2>0. PICK k, B : k = KeyOfRequest(r) /\ B = img[r].body
    OBVIOUS
  <2>1. /\ file' = With(file, k, <<>>) /\ img[r].pc = "store"
        /\ \A t \in Request :
             /\ img'[t].pc = "fill" <=> img[t].pc = "fill" \/ t = r
             /\ img'[t].body = img[t].body /\ img'[t].query = img[t].query
             /\ img'[t].at = IF t = r THEN 0 ELSE img[t].at
    BY <1>0, <1>2, <2>0 DEF OpenFile, ImageRequest
  <2>2. \A j : j # k => \A t \in Request : SameWriter(t, j)
    BY <2>0, <2>1 DEF SameWriter, Writers, KeyOfRequest
  <2>3. file'[k] = <<>> /\ Pieces(file'[k], k)
    BY <2>1 DEF With, Pieces
  <2>4. B \in Encodings(k) /\ Len(B) \in Nat
    <3>1. img[r].query \in ImageQuery /\ Made(r)
      BY <2>1 DEF Knows, ImageEnded
    <3> QED BY <2>0, <3>1, MadeIsEncoding
  <2>5. ASSUME k \notin spoilt'
        PROVE  Agreed(k, B)'
    <3>1. \A t \in Writers(k) : img[t].body = B
      BY <1>2, <2>0, <2>5 DEF OpenFile
    <3>2. Writers(k)' = Writers(k) \cup {r}
      BY <2>0, <2>1 DEF Writers, KeyOfRequest
    <3>3. \A t \in Writers(k)' : img'[t].body = B
      BY <2>0, <2>1, <3>1, <3>2 DEF Writers
    <3>4. r \in Writers(k)' /\ img'[r].at = 0
      BY <2>1, <3>2
    <3>5. FilledTo(file'[k], B, img'[r].at)
      BY <2>3, <3>4 DEF FilledTo
    <3> QED BY <2>3, <2>4, <3>3, <3>4, <3>5 DEF Agreed, FilledTo
  <2>6. spoilt \subseteq spoilt'
    BY <1>2 DEF OpenFile
  <2>7. /\ DOMAIN file' \subseteq DOMAIN file \cup {k}
        /\ \A j \in DOMAIN file : j # k => file'[j] = file[j]
    BY <2>1 DEF With
  <2> QED BY <2>2, <2>3, <2>4, <2>5, <2>6, <2>7, OneFile
<1>3. ASSUME NEW r \in Request, Fill(r)
      PROVE  FileInv'
  <2>0. PICK k : k = KeyOfRequest(r)
    OBVIOUS
  <2> DEFINE n == img[r].at + 1
             x == img[r].body[n]
             c == Overwritten(file[k], n, x)
  <2>1. /\ k \in DOMAIN file /\ n \in 1 .. Len(img[r].body) /\ file[k] \in Seq(Bytes)
        /\ img[r].query \in ImageQuery /\ Made(r) /\ r \in Writers(k)
        /\ img[r].at \in Nat
    <3>1. /\ img[r].body \in Seq(Bytes) /\ img[r].at \in Nat
          /\ img[r].at < Len(img[r].body) /\ img[r].pc = "fill"
      BY <1>0, <1>3 DEF ImageRequest, Fill
    <3> QED BY <2>0, <3>1 DEF Knows, ImageTypeOK, ImageEnded, Writers
  <2>2. img[r].body \in Encodings(k) /\ img[r].body \in Seq(Bytes) /\ x \in Bytes
    <3>1. img[r].body \in Encodings(k) /\ img[r].body \in Seq(Bytes)
      BY <2>0, <2>1, MadeIsEncoding
    <3> QED BY <2>1, <3>1
  <2>3. /\ file' = [file EXCEPT ![k] = c] /\ spoilt' = spoilt
        /\ \A t \in Request :
             /\ img'[t].pc = img[t].pc
             /\ img'[t].body = img[t].body /\ img'[t].query = img[t].query
             /\ img'[t].at = IF t = r THEN n ELSE img[t].at
    BY <1>0, <1>3, <2>0 DEF Fill, Image, ImageRequest
  <2>4. /\ c \in Seq(Bytes) /\ DOMAIN c = 1 .. Len(c)
        /\ Len(c) = IF n > Len(file[k]) THEN n ELSE Len(file[k])
        /\ n \in DOMAIN c /\ c[n] = x
        /\ \A m \in DOMAIN file[k] \ {n} : m \in DOMAIN c /\ c[m] = file[k][m]
        /\ \A m \in DOMAIN c \ {n} : m \notin DOMAIN file[k] => c[m] = Hole
    <3>1. n \in Nat \ {0}
      BY <2>1
    <3>2. WrittenAt(c, file[k], n, x)
      BY <2>1, <2>2, <3>1, OverwrittenIs
    <3>3. DOMAIN c = 1 .. Len(c)
      BY <3>2 DEF WrittenAt
    <3> HIDE DEF x, n, c
    <3> QED BY <3>2, <3>3 DEF WrittenAt
  <2>5. DOMAIN file[k] = 1 .. Len(file[k]) /\ Len(file[k]) \in Nat
    BY <2>1
  <2> HIDE DEF c
  <2>6. file'[k] = c
    BY <2>1, <2>3
  <2>7. Pieces(file'[k], k)
    <3>1. Piece(c[n], n, k)
      BY <2>1, <2>2, <2>4 DEF Piece
    <3>2. Pieces(file[k], k)
      BY <2>1 DEF FileInv
    <3> HIDE DEF x
    <3>3. \A m \in DOMAIN c : m # n => Piece(c[m], m, k)
      BY <2>4, <3>2 DEF Pieces, Piece
    <3> QED BY <2>6, <3>1, <3>3 DEF Pieces
  <2>8. \A j : j # k => \A t \in Request : SameWriter(t, j)
    BY <2>0, <2>3 DEF SameWriter, Writers, KeyOfRequest
  <2>9. ASSUME k \notin spoilt
        PROVE  \E B \in Encodings(k) : Agreed(k, B)'
    <3>1. PICK B \in Encodings(k) : Agreed(k, B)
      BY <2>1, <2>9 DEF FileInv
    <3>2. B = img[r].body
      BY <2>1, <3>1 DEF Agreed
    <3>3. Writers(k)' = Writers(k) /\ Writers(k) \subseteq Request
      BY <2>3 DEF Writers, KeyOfRequest
    <3>4. \A t \in Writers(k)' : img'[t].body = B
      BY <2>3, <3>1, <3>3 DEF Agreed
    <3>5. Len(c) <= Len(B)
      BY <2>1, <2>4, <2>5, <3>1, <3>2 DEF Agreed
    <3>6. \A m \in DOMAIN c : c[m] \in {Hole, B[m]}
      BY <2>4, <3>1, <3>2 DEF Agreed
    <3>7. CASE file[k] = B
      <4>1. \A m \in 1 .. Len(B) : c[m] = B[m]
        BY <2>4, <2>5, <3>2, <3>7
      <4>2. Len(c) = Len(B)
        BY <2>1, <2>4, <2>5, <3>2, <3>7
      <4>3. c = B
        BY <2>2, <2>4, <3>2, <4>1, <4>2, SameBlocks
      <4> QED BY <2>6, <3>4, <3>5, <3>6, <4>3 DEF Agreed
    <3>8. CASE \E t \in Writers(k) : FilledTo(file[k], B, img[t].at)
      <4>1. PICK t \in Writers(k) : FilledTo(file[k], B, img[t].at)
        BY <3>8
      <4>2. img[t].at \in Nat /\ t \in Request
        BY <1>0, <3>3 DEF ImageRequest
      <4>3. img[t].at <= Len(c) /\ \A m \in 1 .. img[t].at : c[m] = B[m]
        BY <2>1, <2>4, <2>5, <3>2, <4>1, <4>2 DEF FilledTo
      <4>4. FilledTo(c, B, img'[t].at)
        <5>1. CASE t # r
          BY <2>3, <4>2, <4>3, <5>1 DEF FilledTo
        <5>2. CASE t = r
          <6>1. n <= Len(c) /\ img'[t].at = n
            BY <2>3, <2>4, <4>2, <5>2
          <6>2. \A m \in 1 .. n : m \in 1 .. img[t].at \/ m = n
            BY <4>2, <5>2
          <6> QED BY <2>4, <3>2, <4>3, <6>1, <6>2 DEF FilledTo
        <5> QED BY <5>1, <5>2
      <4> QED BY <2>6, <3>3, <3>4, <3>5, <3>6, <4>4 DEF Agreed
    <3> QED BY <3>1, <3>7, <3>8 DEF Agreed
  <2>10. /\ DOMAIN file' \subseteq DOMAIN file \cup {k} /\ spoilt \subseteq spoilt'
         /\ \A j \in DOMAIN file : j # k => file'[j] = file[j]
    BY <2>3
  <2> QED BY <2>3, <2>7, <2>8, <2>9, <2>10, OneFile
<1>4. ASSUME NEW r \in Request, Filled(r)
      PROVE  FileInv'
  <2>0. PICK k : k = KeyOfRequest(r)
    OBVIOUS
  <2>1. /\ file' = file /\ spoilt' = spoilt /\ img[r].pc = "fill"
        /\ img[r].at = Len(img[r].body) /\ img'[r].pc = "ok"
        /\ \A t \in Request \ {r} : img'[t] = img[t]
    BY <1>0, <1>4 DEF Filled, Image, ImageRequest
  <2>2. \A j : j # k => \A t \in Request : SameWriter(t, j)
    BY <2>0, <2>1 DEF SameWriter, Writers, KeyOfRequest
  <2>3. k \in DOMAIN file /\ Pieces(file'[k], k) /\ r \in Writers(k)
    BY <2>0, <2>1 DEF Knows, FileInv, Writers
  <2>4. ASSUME k \notin spoilt
        PROVE  \E B \in Encodings(k) : Agreed(k, B)'
    <3>1. PICK B \in Encodings(k) : Agreed(k, B)
      BY <2>3, <2>4 DEF FileInv
    <3>2. B = img[r].body
      BY <2>3, <3>1 DEF Agreed
    <3>3. Writers(k)' = Writers(k) \ {r} /\ Writers(k) \subseteq Request
      BY <2>0, <2>1 DEF Writers, KeyOfRequest
    <3>4. \A t \in Writers(k)' : img'[t] = img[t]
      BY <2>1, <3>3
    <3>5. ASSUME FilledTo(file[k], B, img[r].at)
          PROVE  file[k] = B
      <4>1. B \in Seq(Bytes) /\ file[k] \in Seq(Bytes)
        BY <2>3, EncodingType DEF ImageTypeOK
      <4>2. Len(B) \in Nat /\ Len(file[k]) \in Nat
        BY <4>1
      <4>3. Len(file[k]) = Len(B) /\ \A n \in 1 .. Len(B) : file[k][n] = B[n]
        BY <2>1, <3>1, <3>2, <3>5, <4>2 DEF FilledTo, Agreed
      <4> QED BY <4>1, <4>3, SameBlocks
    <3>6. \/ file[k] = B
          \/ \E t \in Writers(k)' : FilledTo(file[k], B, img'[t].at)
      BY <3>1, <3>3, <3>4, <3>5 DEF Agreed
    <3> QED BY <2>1, <3>1, <3>3, <3>4, <3>6 DEF Agreed, FilledTo
  <2> QED BY <2>1, <2>2, <2>3, <2>4, OneFile
<1>5. ASSUME NEW r \in Request, FillFails(r)
      PROVE  FileInv'
  <2>0. PICK k : k = KeyOfRequest(r)
    OBVIOUS
  <2>1. /\ file' = file /\ spoilt' = spoilt \cup {k} /\ img[r].pc = "fill"
        /\ img'[r].pc = "ok" /\ \A t \in Request \ {r} : img'[t] = img[t]
    BY <1>0, <1>5, <2>0 DEF FillFails, Image, ImageRequest
  <2>2. \A j : j # k => \A t \in Request : SameWriter(t, j)
    BY <2>0, <2>1 DEF SameWriter, Writers, KeyOfRequest
  <2>3. Pieces(file'[k], k)
    BY <2>0, <2>1 DEF Knows, FileInv
  <2> QED BY <2>1, <2>2, <2>3, OneFile
<1>6. ASSUME ImageCrash
      PROVE  FileInv'
  <2>1. /\ file' = file /\ spoilt \subseteq spoilt'
        /\ \A k \in DOMAIN file : Writers(k) # {} => k \in spoilt'
    BY <1>6 DEF ImageCrash
  <2>2. \A t \in Request : img'[t].pc # "fill"
    BY <1>0, <1>6 DEF ImageCrash, ImageRequest, ImageEnded
  <2>3. ASSUME NEW k \in DOMAIN file, k \notin spoilt', NEW B, Agreed(k, B)
        PROVE  Agreed(k, B)'
    <3>1. file[k] = B
      BY <2>1, <2>3 DEF Agreed
    <3>2. Writers(k)' = {}
      BY <2>2 DEF Writers
    <3> QED BY <2>1, <2>3, <3>1, <3>2 DEF Agreed
  <2> QED BY <2>1, <2>3 DEF FileInv, Pieces, Piece, Encodings
<1>7. ASSUME NEW src \in Src, Replace(src)
      PROVE  FileInv'
  <2>1. /\ file' = file /\ spoilt' = spoilt
        /\ \A t \in Request :
             /\ img'[t].pc = img[t].pc /\ img'[t].query = img[t].query
             /\ img'[t].body = img[t].body /\ img'[t].at = img[t].at
    BY <1>0, <1>7 DEF Replace, ImageRequest
  <2>2. \A k : \A t \in Request : SameWriter(t, k)
    BY <2>1 DEF SameWriter, Writers, KeyOfRequest
  <2>3. \A k, B : Agreed(k, B) => Agreed(k, B)'
    BY <2>1, <2>2, FileFrame
  <2> QED BY <2>1, <2>3 DEF FileInv, Pieces, Piece, Encodings
<1> QED BY <1>1, <1>2, <1>3, <1>4, <1>5, <1>6, <1>7
        DEF ImageNext, ImageStep, ImageFault, Quiet

-----------------------------------------------------------------------------
(* The readers. *)

\* A request that is left as it is, as is the file it reads if it was alone
\* with it.
LEMMA ReadsFrame ==
    ASSUME NEW s \in Request, Reads(s), img'[s].raced = img[s].raced,
           img'[s].pc = img[s].pc, img'[s].query = img[s].query, img'[s].body = img[s].body,
           img'[s].at = img[s].at, img'[s].hit = img[s].hit,
           NEW k, k = KeyOfRequest(s),
           img[s].pc = "read" =>
             /\ DOMAIN file \subseteq DOMAIN file'
             /\ ~img[s].raced => /\ file'[k] = file[k] /\ (k \notin spoilt => k \notin spoilt')
                                 /\ (Writers(k) = {} => Writers(k)' = {})
    PROVE  Reads(s)'
<1>1. KeyOfRequest(s)' = k
  BY DEF KeyOfRequest
<1>2. \A content : Pieces(content, k)' <=> Pieces(content, k)
  BY DEF Pieces, Piece, Encodings
<1>3. img[s].pc = "read" => k \in DOMAIN file'
  BY DEF Reads
<1>4. img[s].pc = "read" /\ ~img[s].raced =>
        k \notin spoilt' /\ Writers(k)' = {} /\ FilledTo(file'[k], img'[s].body, img'[s].at)
  BY DEF Reads
<1> QED BY <1>1, <1>3, <1>4 DEF Reads, Pieces, Piece, Encodings

LEMMA ReadsKept ==
    ASSUME ImageTypeOK, FileInv, \A r \in Request : Knows(r), ImageNext,
           NEW s \in Request, Reads(s)
    PROVE  Reads(s)'
<1>0. img \in [Request -> ImageRequest] /\ \A r \in Request : img[r] \in ImageRequest
  BY DEF ImageTypeOK
<1> PICK k : k = KeyOfRequest(s)
  OBVIOUS
<1>1. ASSUME NEW r \in Request, Quiet(r), s # r
      PROVE  Reads(s)'
  <2>1. /\ file' = file /\ spoilt' = spoilt /\ img'[s] = img[s]
        /\ \A t \in Request : t # r => img'[t] = img[t]
        /\ img[r].pc # "fill" /\ img'[r].pc # "fill"
    BY <1>1, QuietSteps
  <2>2. Writers(k)' = Writers(k)
    BY <2>1 DEF Writers, KeyOfRequest
  <2> QED BY <2>1, <2>2, ReadsFrame
<1>2. ASSUME Look(s)
      PROVE  Reads(s)'
  <2>1. /\ file' = file /\ spoilt' = spoilt /\ img[s].pc = "look"
        /\ img'[s].query = img[s].query /\ img'[s].body = img[s].body
        /\ img'[s].at = img[s].at
        /\ \/ img'[s].pc = "fetch"
           \/ /\ img'[s].pc = "read" /\ k \in DOMAIN file
              /\ ~img'[s].raced => Writers(k) = {} /\ k \notin spoilt
    BY <1>0, <1>2 DEF Look, Image, ImageRequest
  <2>2. Writers(k)' = Writers(k)
    <3>1. \A t \in Request : (img'[t].pc = "fill" <=> img[t].pc = "fill")
                             /\ img'[t].query = img[t].query
      BY <1>0, <1>2, <2>1 DEF Look, Image, ImageRequest
    <3> QED BY <3>1 DEF Writers, KeyOfRequest
  <2>3. /\ img[s].body = <<>> /\ img[s].at = 0 /\ img[s].query \in ImageQuery
    BY <2>1 DEF Knows, ImageEnded
  <2>4. KeyOfRequest(s)' = k
    BY <2>1 DEF KeyOfRequest
  <2>5. k \in DOMAIN file => Len(file[k]) \in Nat
    BY DEF ImageTypeOK
  <2> QED BY <2>1, <2>2, <2>3, <2>4, <2>5 DEF Reads, Pieces, FilledTo
<1>3. ASSUME ReadBlock(s)
      PROVE  Reads(s)'
  <2> DEFINE content == file[k]
             next == img[s].at + 1
             body == img[s].body
  <2>1. /\ file' = file /\ spoilt' = spoilt /\ img[s].pc = "read"
        /\ img'[s].query = img[s].query /\ img'[s].raced = img[s].raced
        /\ img'[s].hit = img[s].hit
    BY <1>0, <1>3 DEF ReadBlock, Image, ImageRequest
  <2>2. /\ k \in DOMAIN file /\ img[s].at = Len(body) /\ Pieces(body, k)
        /\ img[s].query \in ImageQuery /\ img[s].hit
        /\ ~img[s].raced => /\ k \notin spoilt /\ Writers(k) = {}
                            /\ FilledTo(content, body, img[s].at)
    BY <2>1 DEF Reads, Knows
  <2>3. KeyOfRequest(s)' = k
    BY <2>1 DEF KeyOfRequest
  <2>4. /\ content \in Seq(Bytes) /\ body \in Seq(Bytes)
        /\ DOMAIN content = 1 .. Len(content) /\ Len(content) \in Nat
        /\ DOMAIN body = 1 .. Len(body) /\ Len(body) \in Nat /\ img[s].at \in Nat
    BY <1>0, <2>2 DEF ImageTypeOK, ImageRequest
  <2>5. CASE next \in DOMAIN content
    <3>1. /\ img'[s].pc = "read" /\ img'[s].at = next
          /\ img'[s].body = Append(body, content[next])
      BY <1>0, <1>3, <2>5 DEF ReadBlock, Image, ImageRequest
    <3>2. PICK x \in Bytes : x = content[next]
      BY <2>4, <2>5
    <3>3. PICK more : more = Append(body, x)
      OBVIOUS
    <3>4. /\ more \in Seq(Bytes) /\ Len(more) = next /\ DOMAIN more = 1 .. next
          /\ more[next] = x /\ \A n \in 1 .. img[s].at : more[n] = body[n]
      <4> HIDE DEF content
      <4> QED BY <2>2, <2>4, <3>3
    <3>5. Pieces(more, k)
      <4>1. Piece(x, next, k)
        BY <2>2, <2>5, <3>2 DEF FileInv, Pieces
      <4>2. \A n \in 1 .. img[s].at : Piece(more[n], n, k)
        BY <2>2, <2>4, <3>4 DEF Pieces
      <4>3. \A n \in 1 .. next : n = next \/ n \in 1 .. img[s].at
        BY <2>4
      <4> QED BY <3>4, <4>1, <4>2, <4>3 DEF Pieces
    <3>6. FilledTo(content, body, img[s].at) => FilledTo(content, more, next)
      <4>1. \A n \in 1 .. next : n = next \/ n \in 1 .. img[s].at
        BY <2>4
      <4>2. next <= Len(content)
        BY <2>4, <2>5
      <4>3. content[next] = more[next]
        BY <3>2, <3>4
      <4> QED BY <3>4, <4>1, <4>2, <4>3 DEF FilledTo
    <3>7. Writers(k) = {} => Writers(k)' = {}
      <4>1. \A t \in Request : img'[t].pc = "fill" => img'[t] = img[t]
        BY <1>0, <1>3, <3>1 DEF ReadBlock, Image
      <4> QED BY <4>1 DEF Writers, KeyOfRequest
    <3>8. /\ img'[s].body = more /\ Pieces(more, k)'
          /\ FilledTo(content, body, img[s].at) => FilledTo(file'[k], more, next)
      BY <2>1, <3>1, <3>2, <3>3, <3>5, <3>6 DEF Pieces, Piece, Encodings
    <3> QED BY <2>1, <2>2, <2>3, <3>1, <3>4, <3>7, <3>8 DEF Reads, Pieces, Piece, Encodings
  <2>6. CASE next \notin DOMAIN content
    <3>1. img'[s].pc = "ok" /\ img'[s].body = body
      BY <1>0, <1>3, <2>6 DEF ReadBlock, Image, ImageRequest
    <3>2. ASSUME ~img[s].raced
          PROVE  body \in Encodings(k)
      <4>1. PICK B \in Encodings(k) : Agreed(k, B)
        BY <2>2, <3>2 DEF FileInv
      <4>2. content = B
        BY <2>2, <3>2, <4>1 DEF Agreed
      <4>3. Len(content) = Len(body)
        BY <2>2, <2>4, <2>6, <3>2 DEF FilledTo
      <4>4. body = content
        BY <2>2, <2>4, <3>2, <4>3, SameBlocks DEF FilledTo
      <4> QED BY <4>2, <4>4
    <3> QED BY <2>1, <2>2, <2>3, <3>1, <3>2 DEF Reads, Pieces, Piece, Encodings
  <2> QED BY <2>5, <2>6
<1>4. ASSUME \/ \E q \in ImageQuery : AskImage(s, q)
             \/ Fetch(s) \/ Render(s) \/ StoreRefused(s) \/ ImageFails(s)
             \/ OpenFile(s) \/ Fill(s) \/ Filled(s) \/ FillFails(s)
      PROVE  Reads(s)'
  <2>1. ~img[s].hit
    BY <1>4 DEF Knows, AskImage, Fetch, Render, StoreRefused, ImageFails, OpenFile, Fill,
                Filled, FillFails
  <2>2. img'[s].hit = img[s].hit /\ img'[s].pc # "read"
    <3>1. ASSUME NEW q \in ImageQuery, AskImage(s, q)
          PROVE  img'[s].hit = img[s].hit /\ img'[s].pc # "read"
      BY <1>0, <3>1 DEF AskImage, Image, ImageRequest
    <3>2. CASE Fetch(s)
      BY <1>0, <3>2 DEF Fetch, Image, ImageRequest
    <3>3. CASE Render(s)
      BY <1>0, <3>3 DEF Render, Image, ImageRequest
    <3>4. CASE OpenFile(s)
      BY <1>0, <3>4 DEF OpenFile, ImageRequest
    <3>5. CASE Fill(s)
      BY <1>0, <3>5 DEF Fill, Image, ImageRequest
    <3>6. CASE StoreRefused(s) \/ ImageFails(s) \/ Filled(s) \/ FillFails(s)
      BY <1>0, <3>6 DEF StoreRefused, ImageFails, Filled, FillFails, Image, ImageRequest
    <3> QED BY <1>4, <3>1, <3>2, <3>3, <3>4, <3>5, <3>6
  <2> QED BY <2>1, <2>2 DEF Reads
<1>5. ASSUME NEW r \in Request, OpenFile(r), s # r
      PROVE  Reads(s)'
  <2>1. /\ file' = With(file, KeyOfRequest(r), <<>>)
        /\ \A t \in Request : t # r => (img'[t].pc = "fill" <=> img[t].pc = "fill")
        /\ \A t \in Request : img'[t].query = img[t].query
        /\ img'[s].pc = img[s].pc /\ img'[s].query = img[s].query
        /\ img'[s].body = img[s].body /\ img'[s].at = img[s].at /\ img'[s].hit = img[s].hit
        /\ spoilt' \subseteq spoilt \cup {KeyOfRequest(r)}
    BY <1>0, <1>5 DEF OpenFile, ImageRequest
  <2>2. DOMAIN file \subseteq DOMAIN file'
    BY <2>1 DEF With
  <2>3. CASE img[s].pc = "read" /\ KeyOfRequest(r) = k
    <3>1. img'[s].raced
      BY <1>0, <1>5, <2>3 DEF OpenFile, ImageRequest
    <3>2. KeyOfRequest(s)' = k
      BY <2>1 DEF KeyOfRequest
    <3> QED BY <2>1, <2>2, <2>3, <3>1, <3>2 DEF Reads, Pieces, Piece, Encodings
  <2>4. CASE img[s].pc = "read" /\ KeyOfRequest(r) # k
    <3>1. img'[s].raced = img[s].raced
      BY <1>0, <1>5, <2>4 DEF OpenFile, ImageRequest
    <3>2. k \in DOMAIN file => file'[k] = file[k]
      BY <2>1, <2>4 DEF With
    <3>3. Writers(k)' = Writers(k)
      BY <2>1, <2>4 DEF Writers, KeyOfRequest
    <3>4. k \in DOMAIN file
      BY <2>4 DEF Reads
    <3> QED BY <2>1, <2>2, <2>4, <3>1, <3>2, <3>3, <3>4, ReadsFrame
  <2>5. CASE img[s].pc # "read"
    <3>1. img'[s].raced = img[s].raced
      BY <1>0, <1>5, <2>5 DEF OpenFile, ImageRequest
    <3> QED BY <2>1, <2>5, <3>1, ReadsFrame
  <2> QED BY <2>3, <2>4, <2>5
<1>6. ASSUME NEW r \in Request, Fill(r) \/ Filled(r) \/ FillFails(r), s # r
      PROVE  Reads(s)'
  <2>1. /\ img[r].pc = "fill" /\ DOMAIN file' = DOMAIN file
        /\ \A j : j # KeyOfRequest(r) => (j \notin spoilt => j \notin spoilt')
        /\ \A j : j # KeyOfRequest(r) => file'[j] = file[j]
        /\ \A t \in Request : t # r => img'[t] = img[t]
    <3>1. CASE Fill(r)
      <4>1. PICK j, c : file' = [file EXCEPT ![j] = c] /\ j = KeyOfRequest(r)
        BY <3>1 DEF Fill
      <4>2. /\ img[r].pc = "fill" /\ spoilt' = spoilt
            /\ \A t \in Request : t # r => img'[t] = img[t]
        BY <1>0, <3>1 DEF Fill, Image
      <4> QED BY <4>1, <4>2
    <3>2. CASE Filled(r) \/ FillFails(r)
      BY <1>0, <3>2 DEF Filled, FillFails, Image
    <3> QED BY <1>6, <3>1, <3>2
  <2>2. img'[r].query = img[r].query
    BY <1>0, <1>6 DEF Fill, Filled, FillFails, Image, ImageRequest
  <2>3. r \in Writers(KeyOfRequest(r))
    BY <2>1 DEF Writers
  <2>4. img[s].pc = "read" /\ ~img[s].raced => k # KeyOfRequest(r)
    BY <2>3 DEF Reads
  <2>5. k # KeyOfRequest(r) => Writers(k)' = Writers(k)
    BY <2>1, <2>2 DEF Writers, KeyOfRequest
  <2> QED BY <1>6, <2>1, <2>4, <2>5, ReadsFrame
<1>7. ASSUME ImageCrash
      PROVE  Reads(s)'
  <2>1. (img'[s] = img[s] /\ img[s].pc # "read") \/ img'[s].pc = "gone"
    BY <1>0, <1>7 DEF ImageCrash, ImageRequest, ImageEnded
  <2>2. CASE img'[s].pc = "gone"
    BY <2>2 DEF Reads
  <2>3. CASE img'[s] = img[s] /\ img[s].pc # "read"
    BY <2>3, ReadsFrame
  <2> QED BY <2>1, <2>2, <2>3
<1>8. ASSUME NEW src \in Src, Replace(src)
      PROVE  Reads(s)'
  <2>1. /\ file' = file /\ spoilt' = spoilt
        /\ \A t \in Request :
             /\ img'[t].pc = img[t].pc /\ img'[t].query = img[t].query
             /\ img'[t].body = img[t].body /\ img'[t].at = img[t].at
             /\ img'[t].hit = img[t].hit /\ img'[t].raced = img[t].raced
    BY <1>0, <1>8 DEF Replace, ImageRequest
  <2>2. Writers(k)' = Writers(k)
    BY <2>1 DEF Writers, KeyOfRequest
  <2> QED BY <2>1, <2>2, ReadsFrame
<1> QED BY <1>1, <1>2, <1>3, <1>4, <1>5, <1>6, <1>7, <1>8
        DEF ImageNext, ImageStep, ImageFault, Quiet

-----------------------------------------------------------------------------
(* The theorems. *)

LEMMA ImageInitInv ==
    ASSUME ImageInit
    PROVE  ImageInv
<1>1. DOMAIN file = {} /\ spoilt = {}
  BY DEF ImageInit
<1>2. \A r \in Request : img[r] = NoImage
  BY DEF ImageInit
<1>3. NoImage \in ImageRequest
  <2>1. Missing \in SrcVersion
    BY ImageAssumption DEF SrcVersion, Missing
  <2> QED BY <2>1 DEF NoImage, ImageRequest, ImageEnded
<1>4. ImageTypeOK
  <2>1. source \in [Src -> SrcVersion]
    BY ImageAssumption DEF ImageInit
  <2>2. img \in [Request -> ImageRequest]
    BY <1>3 DEF ImageInit
  <2> QED BY <1>1, <2>1, <2>2 DEF ImageTypeOK
<1>5. \A r \in Request : Knows(r) /\ Reads(r)
  <2>1. NoImage.pc = "idle" /\ NoImage.body = <<>> /\ NoImage.at = 0
    BY DEF NoImage
  <2>2. NoImage.hit = FALSE
    BY DEF NoImage
  <2> QED BY <1>2, <2>1, <2>2 DEF Knows, Reads, ImageEnded
<1> QED BY <1>1, <1>4, <1>5 DEF ImageInv, FileInv

LEMMA ImageStepInv ==
    ASSUME ImageInv, [ImageNext]_imageVars
    PROVE  ImageInv'
<1>1. CASE ImageNext
  BY <1>1, TypeKept, KnowsKept, FilesKept, ReadsKept DEF ImageInv
<1>2. CASE UNCHANGED imageVars
  <2>1. source' = source /\ file' = file /\ spoilt' = spoilt /\ img' = img
    BY <1>2 DEF imageVars
  <2>2. ImageTypeOK'
    BY <2>1 DEF ImageInv, ImageTypeOK
  <2>3. FileInv'
    BY <2>1, FilesFrame DEF ImageInv
  <2>4. \A r \in Request : Knows(r)'
    BY <2>1, KnowsFrame DEF ImageInv
  <2>5. \A k : Writers(k)' = Writers(k)
    BY <2>1 DEF Writers, KeyOfRequest
  <2>6. \A r \in Request : Reads(r)'
    BY <2>1, <2>5, ReadsFrame DEF ImageInv
  <2> QED BY <2>2, <2>3, <2>4, <2>6 DEF ImageInv
<1> QED BY <1>1, <1>2

\* The invariant holds for any number of requests, queries, sources, pictures
\* and blocks: fetch_source, tokio::fs::write and tokio::fs::read of
\* image_webp (crates/web/src/image.rs) in any order.
THEOREM ImageInvariant == ImageSpec => []ImageInv
BY ImageInitInv, ImageStepInv, PTL DEF ImageSpec

\* Whatever becomes of the file, a request that did not find its image answers
\* the whole of it, of the source at one moment of the request.
THEOREM OwnImagesAreWhole == ImageSpec => []OwnImageIsWhole
<1>1. ImageInv => OwnImageIsWhole
  BY DEF ImageInv, Knows, Made, OwnImageIsWhole
<1> QED BY <1>1, ImageInvariant, PTL

\* A file nobody is writing is whole, unless it was spoilt.
THEOREM SettledFilesAreWhole == ImageSpec => []SettledFileIsWhole
<1>1. ImageInv => SettledFileIsWhole
  <2> SUFFICES ASSUME ImageInv, NEW k \in DOMAIN file \ spoilt, Writers(k) = {}
               PROVE  \E q \in ImageQuery : Key(q) = k /\ file[k] \in Renderings(q)
    BY DEF SettledFileIsWhole
  <2>1. PICK B \in Encodings(k) : Agreed(k, B)
    BY DEF ImageInv, FileInv
  <2>2. file[k] = B
    BY <2>1 DEF Agreed
  <2> QED BY <2>2 DEF Encodings
<1> QED BY <1>1, ImageInvariant, PTL

\* A cached answer is in the format it names, and an image of its query or of
\* one whose fields join to the same text, whole unless the file was being
\* written or was spoilt.
THEOREM CachedImagesAreWhole == ImageSpec => []CachedImageIsWhole
<1>1. ImageInv => CachedImageIsWhole
  <2> SUFFICES ASSUME ImageInv, NEW r \in Request, img[r].pc = "ok" /\ img[r].hit
               PROVE  /\ \A n \in DOMAIN img[r].body :
                           \/ img[r].body[n] = Hole
                           \/ /\ img[r].body[n].format = Format(img[r].query.kind)
                              /\ \E s \in Encodings(KeyOfRequest(r)) :
                                     n \in DOMAIN s /\ img[r].body[n] = s[n]
                      /\ img[r].raced \/ img[r].body \in Encodings(KeyOfRequest(r))
    BY DEF CachedImageIsWhole
  <2>1. /\ img[r].query \in ImageQuery /\ Pieces(img[r].body, KeyOfRequest(r))
        /\ img[r].raced \/ img[r].body \in Encodings(KeyOfRequest(r))
    BY DEF ImageInv, Reads
  <2>2. \A s \in Encodings(KeyOfRequest(r)) : \A n \in DOMAIN s :
            s[n].format = Format(img[r].query.kind)
    BY <2>1, EncodingFormat DEF KeyOfRequest
  <2> QED BY <2>1, <2>2 DEF Pieces, Piece
<1> QED BY <1>1, ImageInvariant, PTL

-----------------------------------------------------------------------------
(* Lists.                                                                  *)

\* A set of numbers has a least one.
LEMMA LeastExists ==
    ASSUME NEW T \in SUBSET Nat, T # {}
    PROVE  \E x \in T : \A y \in T : x <= y
<1>1. PICK x \in T : \A y \in T : ~ (<<y, x>> \in OpToRel(<, Nat))
  BY NatLessThanWellFounded, WFMin, Zenon
<1>2. \A y \in T : <<y, x>> \in OpToRel(<, Nat) <=> y < x
  BY Zenon DEF OpToRel
<1>3. \A y \in T : ~ (y < x)
  BY <1>1, <1>2, Zenon
<1> QED BY <1>3

\* Induction, for a property given as the set of the numbers that have it.
LEMMA Induction ==
    ASSUME NEW m \in Nat, NEW P, 0 \in P, \A n \in 0 .. m - 1 : n \in P => n + 1 \in P
    PROVE  \A n \in 0 .. m : n \in P
<1> DEFINE T == {n \in 0 .. m : n \notin P}
<1> SUFFICES ASSUME T # {} PROVE FALSE
  OBVIOUS
<1>0. T \in SUBSET Nat
  OBVIOUS
<1>1. PICK x \in T : \A y \in T : x <= y
  <2> HIDE DEF T
  <2> QED BY <1>0, LeastExists
<1>2. x # 0 /\ x - 1 \in 0 .. m - 1 /\ x - 1 \notin T
  BY <1>1
<1>3. x - 1 \in P /\ (x - 1) + 1 = x
  BY <1>2
<1> QED BY <1>1, <1>2, <1>3

\* f is the recursive function by which Kept is defined.
KeptIs(f, s, S) ==
    f = [n \in 0 .. Len(s) |->
           IF n = 0 THEN <<>>
           ELSE IF s[n] \in S THEN Append(f[n - 1], s[n]) ELSE f[n - 1]]

Extended(f, s, S, n) == IF s[n] \in S THEN Append(f[n - 1], s[n]) ELSE f[n - 1]

LEMMA KeptExists ==
    ASSUME NEW X, NEW s \in Seq(X), NEW S
    PROVE  \E f : KeptIs(f, s, S)
<1> DEFINE P == {m \in 0 .. Len(s) :
                   \E f \in [0 .. m -> Seq(X)] :
                     f[0] = <<>> /\ \A n \in 1 .. m : f[n] = Extended(f, s, S, n)}
<1>1. 0 \in P
  <2> DEFINE f == [n \in 0 .. 0 |-> <<>>]
  <2>1. f \in [0 .. 0 -> Seq(X)] /\ f[0] = <<>>
    OBVIOUS
  <2>2. \A n \in 1 .. 0 : f[n] = Extended(f, s, S, n)
    OBVIOUS
  <2> HIDE DEF f
  <2> QED BY <2>1, <2>2
<1>2. ASSUME NEW m \in 0 .. Len(s) - 1, m \in P
      PROVE  m + 1 \in P
  <2>1. PICK f \in [0 .. m -> Seq(X)] :
          f[0] = <<>> /\ \A n \in 1 .. m : f[n] = Extended(f, s, S, n)
    BY <1>2
  <2> DEFINE x == IF s[m + 1] \in S THEN Append(f[m], s[m + 1]) ELSE f[m]
             g == [n \in 0 .. m + 1 |-> IF n = m + 1 THEN x ELSE f[n]]
  <2>2. x \in Seq(X)
    OBVIOUS
  <2> HIDE DEF x
  <2>3. g \in [0 .. m + 1 -> Seq(X)] /\ g[0] = <<>>
    BY <2>1, <2>2
  <2>4. ASSUME NEW n \in 1 .. m + 1
        PROVE  g[n] = Extended(g, s, S, n)
    <3>1. CASE n = m + 1
      BY <3>1 DEF Extended, x
    <3>2. CASE n \in 1 .. m
      BY <3>2, <2>1 DEF Extended
    <3> QED BY <3>1, <3>2
  <2>5. m + 1 \in 0 .. Len(s)
    OBVIOUS
  <2> QED BY <2>3, <2>4, <2>5
<1>3. Len(s) \in P
  <2>1. Len(s) \in Nat
    OBVIOUS
  <2> HIDE DEF P
  <2>2. \A n \in 0 .. Len(s) : n \in P
    BY <1>1, <1>2, <2>1, Induction
  <2> QED BY <2>1, <2>2
<1>4. PICK f \in [0 .. Len(s) -> Seq(X)] :
        f[0] = <<>> /\ \A n \in 1 .. Len(s) : f[n] = Extended(f, s, S, n)
  BY <1>3
<1>5. f = [n \in 0 .. Len(s) |-> f[n]]
  OBVIOUS
<1>6. \A n \in 0 .. Len(s) : f[n] = IF n = 0 THEN <<>>
           ELSE IF s[n] \in S THEN Append(f[n - 1], s[n]) ELSE f[n - 1]
  <2> TAKE n \in 0 .. Len(s)
  <2>1. CASE n = 0
    BY <2>1, <1>4
  <2>2. CASE n # 0
    <3>1. n \in 1 .. Len(s)
      BY <2>2
    <3> QED BY <3>1, <2>2, <1>4 DEF Extended
  <2> QED BY <2>1, <2>2
<1> QED BY <1>5, <1>6 DEF KeptIs

LEMMA KeptUnfolds ==
    ASSUME NEW X, NEW s \in Seq(X), NEW S
    PROVE  \E f : KeptIs(f, s, S) /\ Kept(s, S) = f[Len(s)]
<1> DEFINE k == CHOOSE f : KeptIs(f, s, S)
<1>1. KeptIs(k, s, S)
  BY KeptExists, Zenon
<1>2. Kept(s, S) = k[Len(s)]
  BY Zenon DEF Kept, KeptIs
<1> QED BY <1>1, <1>2, Zenon

\* h picks, in order, the positions of s up to n that t is made of.
Picks(h, t, s, S, n) ==
    /\ h \in [1 .. Len(t) -> 1 .. n]
    /\ \A a, b \in 1 .. Len(t) : a < b => h[a] < h[b]
    /\ \A a \in 1 .. Len(t) : t[a] = s[h[a]] /\ t[a] \in S
    /\ \A i \in 1 .. n : s[i] \in S => \E a \in 1 .. Len(t) : h[a] = i

LEMMA PicksNext ==
    ASSUME NEW X, NEW s \in Seq(X), NEW S, NEW n \in 1 .. Len(s), NEW t \in Seq(X), NEW h,
           Picks(h, t, s, S, n - 1)
    PROVE  /\ s[n] \notin S => Picks(h, t, s, S, n)
           /\ s[n] \in S => \E g : Picks(g, Append(t, s[n]), s, S, n)
<1>1. ASSUME s[n] \notin S
      PROVE  Picks(h, t, s, S, n)
  <2>1. h \in [1 .. Len(t) -> 1 .. n]
    BY DEF Picks
  <2>2. \A i \in 1 .. n : s[i] \in S => i \in 1 .. n - 1
    BY <1>1
  <2> QED BY <2>1, <2>2 DEF Picks
<1>2. ASSUME s[n] \in S
      PROVE  \E g : Picks(g, Append(t, s[n]), s, S, n)
  <2> DEFINE l == Len(t) + 1
             g == [a \in 1 .. l |-> IF a = l THEN n ELSE h[a]]
             u == Append(t, s[n])
  <2>1. l \in Nat \ {0} /\ Len(u) = l /\ u[l] = s[n] /\ \A a \in 1 .. l - 1 : u[a] = t[a]
    OBVIOUS
  <2>2. \A a \in 1 .. l - 1 : h[a] \in 1 .. n - 1
    BY DEF Picks
  <2> HIDE DEF u
  <2>3. g \in [1 .. l -> 1 .. n]
    BY <2>1, <2>2
  <2>4. \A a, b \in 1 .. l : a < b => g[a] < g[b]
    <3> TAKE a, b \in 1 .. l
    <3> HAVE a < b
    <3>1. a \in 1 .. l - 1 /\ a \in 1 .. Len(t) /\ a # l
      BY <2>1
    <3>2. g[a] = h[a] /\ h[a] \in 1 .. n - 1
      BY <2>2, <3>1
    <3>3. CASE b = l
      BY <3>2, <3>3
    <3>4. CASE b # l
      <4>1. b \in 1 .. Len(t) /\ g[b] = h[b]
        BY <2>1, <3>4
      <4>2. h[a] < h[b]
        BY <3>1, <4>1 DEF Picks
      <4> QED BY <3>2, <4>1, <4>2
    <3> QED BY <3>3, <3>4
  <2>5. \A a \in 1 .. l : u[a] = s[g[a]] /\ u[a] \in S
    BY <1>2, <2>1, <2>2 DEF Picks
  <2>6. ASSUME NEW i \in 1 .. n, s[i] \in S
        PROVE  \E a \in 1 .. l : g[a] = i
    <3>1. CASE i = n
      <4>1. g[l] = i /\ l \in 1 .. l
        BY <3>1, <2>1
      <4> QED BY <4>1
    <3>2. CASE i \in 1 .. n - 1
      <4>1. PICK a \in 1 .. Len(t) : h[a] = i
        BY <2>6, <3>2 DEF Picks
      <4>2. g[a] = i /\ a \in 1 .. l
        BY <4>1
      <4> QED BY <4>2
    <3> QED BY <3>1, <3>2
  <2> HIDE DEF l, g
  <2>7. Picks(g, u, s, S, n)
    BY <2>1, <2>3, <2>4, <2>5, <2>6 DEF Picks
  <2> QED BY <2>7 DEF u
<1> QED BY <1>1, <1>2

LEMMA KeptPicks ==
    ASSUME NEW X, NEW s \in Seq(X), NEW S
    PROVE  Kept(s, S) \in Seq(X) /\ \E h : Picks(h, Kept(s, S), s, S, Len(s))
<1>1. PICK f : KeptIs(f, s, S) /\ Kept(s, S) = f[Len(s)]
  BY KeptUnfolds
<1>2. /\ Len(s) \in Nat /\ f[0] = <<>>
      /\ \A n \in 1 .. Len(s) :
           f[n] = IF s[n] \in S THEN Append(f[n - 1], s[n]) ELSE f[n - 1]
  <2>1. Len(s) \in Nat
    OBVIOUS
  <2>2. \A n \in 0 .. Len(s) : f[n] = IF n = 0 THEN <<>>
           ELSE IF s[n] \in S THEN Append(f[n - 1], s[n]) ELSE f[n - 1]
    BY <1>1, Zenon DEF KeptIs
  <2> QED BY <2>1, <2>2
<1> DEFINE P == {n \in 0 .. Len(s) : f[n] \in Seq(X) /\ \E h : Picks(h, f[n], s, S, n)}
<1>3. 0 \in P
  <2> DEFINE h == [a \in 1 .. 0 |-> 1]
             t == <<>>
  <2>1. t \in Seq(X) /\ Len(t) = 0
    OBVIOUS
  <2> HIDE DEF t
  <2>2. Picks(h, t, s, S, 0)
    BY <2>1 DEF Picks
  <2>3. f[0] = t /\ 0 \in 0 .. Len(s)
    BY <1>2 DEF t
  <2> HIDE DEF h
  <2> QED BY <2>1, <2>2, <2>3
<1>4. ASSUME NEW n \in 0 .. Len(s) - 1, n \in P
      PROVE  n + 1 \in P
  <2>1. PICK h : Picks(h, f[n], s, S, n)
    BY <1>4
  <2> DEFINE k == n + 1
  <2>2. k \in 1 .. Len(s) /\ k - 1 = n /\ f[n] \in Seq(X)
    BY <1>4
  <2>3. f[k] = IF s[k] \in S THEN Append(f[n], s[k]) ELSE f[n]
    BY <1>2, <2>2
  <2>4. f[k] \in Seq(X)
    BY <2>2, <2>3
  <2>5. \E g : Picks(g, f[k], s, S, k)
    <3> HIDE DEF k
    <3>1. /\ s[k] \notin S => Picks(h, f[n], s, S, k)
          /\ s[k] \in S => \E g : Picks(g, Append(f[n], s[k]), s, S, k)
      BY <2>1, <2>2, PicksNext
    <3> QED BY <3>1, <2>3
  <2> QED BY <2>2, <2>4, <2>5
<1> HIDE DEF P
<1>5. \A n \in 0 .. Len(s) : n \in P
  BY <1>2, <1>3, <1>4, Induction
<1>6. Len(s) \in P
  BY <1>2, <1>5
<1> QED BY <1>1, <1>6 DEF P
-----------------------------------------------------------------------------
(* The views.                                                              *)

Fields == {"pc", "q", "boot", "since", "until", "ids", "listed", "probed", "missing", "rows",
           "results", "hits", "steps", "carrier", "price", "stock", "lost", "status"}

Table(d) == DOMAIN d = Id /\ \A id \in Id : Row(d[id])

Log(h) == /\ \E S : h \in Seq(S)
          /\ Len(h) \in Nat \ {0} /\ \A k \in 1 .. Len(h) : Table(h[k])

\* The log g goes on where h ends.
Extends(g, h) ==
    /\ Len(h) \in Nat /\ Len(g) \in Nat /\ Len(h) <= Len(g)
    /\ \A k \in 1 .. Len(h) : g[k] = h[k]

Shape ==
    /\ Log(log) /\ booted \in 1 .. Len(log)
    /\ DOMAIN view = Request /\ \A r \in Request : DOMAIN view[r] = Fields

LEMMA NoRequestFields == DOMAIN NoRequest = Fields
BY DEF NoRequest, Fields

LEMMA ExtendsItself ==
    ASSUME NEW h, Log(h)
    PROVE  Extends(h, h)
BY DEF Log, Extends

LEMMA ExtendsOn ==
    ASSUME NEW f, NEW g, NEW h, Extends(f, g), Extends(g, h)
    PROVE  Extends(f, h)
BY DEF Extends

LEMMA WrittenExtends ==
    ASSUME NEW h, Log(h), NEW d, Table(d)
    PROVE  /\ Log(Append(h, d)) /\ Extends(Append(h, d), h)
           /\ Len(Append(h, d)) = Len(h) + 1
<1> DEFINE g == Append(h, d)
<1>1. PICK S : h \in Seq(S)
  BY DEF Log
<1>2. h \in Seq(S \cup {d}) /\ d \in S \cup {d}
  <2>1. h \in [1 .. Len(h) -> S] /\ Len(h) \in Nat
    BY <1>1
  <2>2. h \in [1 .. Len(h) -> S \cup {d}]
    BY <2>1
  <2> QED BY <2>1, <2>2, SeqDef
<1>3. /\ g \in Seq(S \cup {d}) /\ Len(h) \in Nat
      /\ Len(g) = Len(h) + 1 /\ g[Len(h) + 1] = d
      /\ \A k \in 1 .. Len(h) : g[k] = h[k]
  BY <1>2
<1> HIDE DEF g
<1>4. \A k \in 1 .. Len(g) : Table(g[k])
  BY <1>3 DEF Log
<1> QED BY <1>3, <1>4 DEF Log, Extends, g

\* A table after one of its cells was written.
LEMMA TableWritten ==
    ASSUME NEW d, Table(d), NEW id \in Id, NEW p \in Part, NEW x, Columns(p, x)
    PROVE  Table([d EXCEPT ![id][p] = x])
<1>1. ASSUME NEW i \in Id
      PROVE  Row([d EXCEPT ![id][p] = x][i])
  <2>1. CASE i # id
    BY <2>1 DEF Table
  <2>2. CASE i = id
    <3>1. [d EXCEPT ![id][p] = x][i] = [d[id] EXCEPT ![p] = x]
      BY <2>2 DEF Table
    <3>2. Row([d[id] EXCEPT ![p] = x])
      <4> DEFINE y == d[id]
      <4>1. Row(y)
        BY DEF Table
      <4> HIDE DEF y
      <4>2. DOMAIN [y EXCEPT ![p] = x] = Part
        BY <4>1 DEF Row
      <4>3. \A q \in Part : [y EXCEPT ![p] = x][q] = IF q = p THEN x ELSE y[q]
        BY <4>1 DEF Row
      <4>4. \A q \in Part : Columns(q, [y EXCEPT ![p] = x][q])
        BY <4>1, <4>3 DEF Row
      <4> QED BY <4>2, <4>4 DEF Row, y
    <3> QED BY <3>1, <3>2
  <2> QED BY <2>1, <2>2
<1>2. DOMAIN [d EXCEPT ![id][p] = x] = Id
  BY DEF Table
<1> QED BY <1>1, <1>2 DEF Table

LEMMA CurrentTable ==
    ASSUME Shape
    PROVE  Table(Db) /\ Len(log) \in 1 .. Len(log)
BY DEF Shape, Log, Db, Now

LEMMA NoRows ==
    ASSUME NEW p \in Part
    PROVE  Columns(p, {}) /\ \A x : Columns("row", x)
BY DEF Columns

-----------------------------------------------------------------------------
(* What every step does to the log and the requests.                       *)

\* r alone moves; the log may grow.
Frame(r) ==
    /\ Log(log') /\ Extends(log', log)
    /\ booted' = booted /\ cacheOn' = cacheOn
    /\ DOMAIN view' = Request /\ DOMAIN view'[r] = Fields
    /\ \A s \in Request \ {r} : view'[s] = view[s]

LEMMA ViewIs ==
    ASSUME Shape, NEW r \in Request, NEW new, View(r, new), DOMAIN new = Fields
    PROVE  /\ view'[r] = new
           /\ DOMAIN view' = Request /\ DOMAIN view'[r] = Fields
           /\ \A s \in Request \ {r} : view'[s] = view[s]
BY DEF View, Shape

\* A request that reads the database, and a step of its own.
LEMMA ReadsOnly ==
    ASSUME Shape, NEW r \in Request, NEW new, View(r, new), DOMAIN new = Fields,
           UNCHANGED <<log, booted, cacheOn>>
    PROVE  Frame(r) /\ view'[r] = new
BY ViewIs, ExtendsItself DEF Frame, Shape

LEMMA WritesOnce ==
    ASSUME Shape, NEW r \in Request, NEW new, View(r, new), DOMAIN new = Fields,
           NEW d, Written(d), Table(d), UNCHANGED <<booted, cacheOn>>
    PROVE  Frame(r) /\ view'[r] = new /\ Len(log') = Len(log) + 1
BY ViewIs, WrittenExtends DEF Frame, Shape, Written

LEMMA OverFields ==
    ASSUME NEW v, DOMAIN v = Fields, NEW status
    PROVE  /\ DOMAIN Over(v, status) = Fields /\ DOMAIN Broken(status) = Fields
           /\ Over(v, status).pc = "ok" /\ Over(v, status).until = Len(log)
           /\ Over(v, status).status = status
           /\ Over(v, status).listed = 0 /\ Over(v, status).probed = 0
           /\ Over(v, status).rows = NoCache /\ Over(v, status).carrier = 0
           /\ \A f \in {"q", "boot", "since", "ids", "missing", "results", "hits", "steps",
                        "price", "stock", "lost"} : Over(v, status)[f] = v[f]
           /\ Broken(status).pc = "failed"
           /\ \A f \in Fields \ {"pc", "status"} : Broken(status)[f] = NoRequest[f]
<1>1. DOMAIN Broken(status) = Fields /\ Broken(status).pc = "failed"
  BY NoRequestFields DEF Broken, Fields
<1>2. \A f \in Fields \ {"pc", "status"} : Broken(status)[f] = NoRequest[f]
  BY NoRequestFields DEF Broken
<1>3. DOMAIN Over(v, status) = Fields
  BY DEF Over
<1>4. /\ Over(v, status).pc = "ok" /\ Over(v, status).until = Len(log)
      /\ Over(v, status).status = status
      /\ Over(v, status).listed = 0 /\ Over(v, status).probed = 0
      /\ Over(v, status).rows = NoCache /\ Over(v, status).carrier = 0
  BY DEF Over, Fields, Now
<1>5. \A f \in {"q", "boot", "since", "ids", "missing", "results", "hits", "steps",
                "price", "stock", "lost"} : Over(v, status)[f] = v[f]
  BY DEF Over, Fields
<1> QED BY <1>1, <1>2, <1>3, <1>4, <1>5
-----------------------------------------------------------------------------
(* What is true of a request whatever else happens, by the log so far.     *)

RealtimeKinds == {"price", "stock", "both"}

Active(v) == v.pc \notin {"idle", "failed", "gone"}

\* The last moment of what the request has seen.
Latest(v, h) == IF v.pc = "ok" THEN v.until ELSE Len(h)

Spans(v, h, b) ==
    /\ v.pc = "idle" => v = NoRequest
    /\ v.pc \notin ViewEnded => v.boot = b /\ v.lost = FALSE
    /\ Active(v) =>
         /\ v.q \in ViewQuery
         /\ v.boot \in 1 .. v.since /\ v.since \in 1 .. Latest(v, h)
         /\ Latest(v, h) \in 1 .. Len(h)
    /\ v.pc = "join" => v.q.kind \in RealtimeKinds
    /\ v.pc \in {"list", "probe", "read", "put"} => v.q.kind \notin RealtimeKinds
    /\ v.pc \in {"failed", "gone", "list", "probe", "write", "join"} =>
         v.results = NoCache /\ v.hits = {} /\ v.missing = {}

\* The values that the price of a product can be.
Own(rows) == OrElse({d.value : d \in {d \in rows : d.code = "price"}}, NoPrice)

\* A product as it was flattened from rows of the moments of lo .. hi.
FlatOf(h, id, flat, lo, hi) ==
    /\ flat.id = id
    /\ \E k \in lo .. hi : h[k][id]["row"] = flat.sku
    /\ \E k \in lo .. hi :
         flat.price \in Own(h[k][id]["decimal"])
    /\ \E k \in lo .. hi : flat.stock \in OrElse(h[k][id]["stock"], NoStock)
    /\ \E k \in lo .. hi : /\ flat.prices = h[k][id]["index"]
                           /\ flat.guest \in GuestIndex(h[k][id]["index"])
    /\ \E k \in lo .. hi : flat.links = h[k][id]["links"]

RowsOf(h, id, x, lo, hi) == \A p \in Part : \E k \in lo .. hi : x[p] = h[k][id][p]

Holds(v, h) ==
    /\ v.missing \subseteq Id /\ v.missing \cap v.hits = {}
    /\ v.hits \subseteq DOMAIN v.results /\ DOMAIN v.results \subseteq Id
    /\ \A id \in DOMAIN v.results :
         FlatOf(h, id, v.results[id], IF id \in v.hits THEN v.boot ELSE v.since, Latest(v, h))
    /\ v.pc = "put" => \A id \in v.missing :
         id \in DOMAIN v.rows /\ RowsOf(h, id, v.rows[id], v.since, Len(h))

\* What a listing query finds in the database d.
ListOf(q, d) == IF q.kind = "search" /\ q.text = NoText THEN <<>>
                ELSE IF q.kind \in PageKinds THEN GridPage(InOrder(Matching(q, d)), q)
                ELSE Limited(InOrder({id \in Id : Exists(d, id)}), Limit(q))

Listing == PageKinds \cup {"product"}

\* Of what was listed, what is not fetched yet is missing, or has been gone.
Covers(v, h, hi) ==
    \A id \in Elems(v.ids) :
       \/ id \in v.missing \/ id \in DOMAIN v.results
       \/ v.q.kind \in PageKinds /\ \E k \in v.since .. hi : ~Exists(h[k], id)

\* An answer that shows what was found, and not the empty grid of a failure.
Whole(v) == v.pc = "ok" /\ v.status = 200 /\ ~ (v.lost /\ v.q.kind \in PageKinds)

Lists(v, h) ==
    v.q.kind \in Listing =>
      /\ v.pc \in {"probe", "read", "put"} =>
           v.listed \in v.since .. Len(h) /\ v.ids = ListOf(v.q, h[v.listed])
      /\ v.pc = "read" => Elems(v.ids) \subseteq v.missing \cup DOMAIN v.results
      /\ v.pc = "put" => Covers(v, h, Len(h))
      /\ Whole(v) =>
           /\ v.missing = {} /\ Covers(v, h, v.until)
           /\ \E k \in v.since .. v.until : v.ids = ListOf(v.q, h[k])

\* The price of a product that carried the sku.
PriceSeen(v, h, hi) ==
    \E j, k \in v.since .. hi : j <= k /\
       \/ v.price = NoPrice /\ {id \in Id : h[j][id]["row"] = v.q.text} = {}
       \/ \E id \in {id \in Id : h[j][id]["row"] = v.q.text} :
            LET there == Prices(h[k], id) \ {NoPrice} IN
            IF there = {} THEN v.price = NoPrice
            ELSE v.price \in there /\ \A x \in there : v.price <= x

StockSeen(v, h, hi) ==
    \E k \in v.since .. hi : v.stock \in OrElse(StockOf(h[k], v.q.text), NoStock)

Watches(v, h) ==
    /\ v.pc = "join" =>
         /\ v.q.kind # "stock" =>
              IF "lookup" \in v.steps THEN v.price = NoPrice /\ "decimals" \notin v.steps
              ELSE IF "decimals" \in v.steps
              THEN v.carrier \in Id /\ \E j \in v.since .. Len(h) :
                                          h[j][v.carrier]["row"] = v.q.text
              ELSE PriceSeen(v, h, Len(h))
         /\ v.q.kind # "price" => "stock" \in v.steps \/ StockSeen(v, h, Len(h))
    /\ v.pc = "ok" /\ v.q.kind \in RealtimeKinds =>
         /\ v.q.kind # "stock" => PriceSeen(v, h, v.until)
         /\ v.q.kind # "price" => StockSeen(v, h, v.until)

Fine(v, h, b) == Spans(v, h, b) /\ Holds(v, h) /\ Lists(v, h) /\ Watches(v, h)

CachesFine(c, h, b) == \A k \in DOMAIN c : k[3] \in Id /\ FlatOf(h, k[3], c[k], b, Len(h))

ViewInv ==
    /\ Shape /\ CachesFine(caches, log, booted)
    /\ \A r \in Request : Fine(view[r], log, booted)
-----------------------------------------------------------------------------
(* What was true of a shorter log is true of a longer one.                 *)

LEMMA FlatLater ==
    ASSUME NEW g, NEW h, Extends(g, h), NEW lo \in Nat \ {0}, NEW hi \in 0 .. Len(h),
           NEW until \in Nat, hi <= until, NEW id, NEW flat, FlatOf(h, id, flat, lo, hi)
    PROVE  FlatOf(g, id, flat, lo, until)
<1>1. \A k \in lo .. hi : k \in lo .. until /\ g[k] = h[k]
  BY DEF Extends
<1>2. flat.id = id /\ \E k \in lo .. until : g[k][id]["row"] = flat.sku
  BY <1>1 DEF FlatOf
<1>3. \E k \in lo .. until :
         flat.price \in Own(g[k][id]["decimal"])
  <2>1. PICK k \in lo .. hi :
         flat.price \in Own(h[k][id]["decimal"])
    BY DEF FlatOf
  <2> QED BY <1>1, <2>1
<1>4. \E k \in lo .. until : flat.stock \in OrElse(g[k][id]["stock"], NoStock)
  BY <1>1 DEF FlatOf
<1>5. \E k \in lo .. until : /\ flat.prices = g[k][id]["index"]
                             /\ flat.guest \in GuestIndex(g[k][id]["index"])
  BY <1>1 DEF FlatOf
<1>6. \E k \in lo .. until : flat.links = g[k][id]["links"]
  BY <1>1 DEF FlatOf
<1> QED BY <1>2, <1>3, <1>4, <1>5, <1>6 DEF FlatOf

LEMMA RowsLater ==
    ASSUME NEW g, NEW h, Extends(g, h), NEW lo \in Nat \ {0}, NEW hi \in 0 .. Len(h),
           NEW until \in Nat, hi <= until, NEW id, NEW x, RowsOf(h, id, x, lo, hi)
    PROVE  RowsOf(g, id, x, lo, until)
<1>1. \A k \in lo .. hi : k \in lo .. until /\ g[k] = h[k]
  BY DEF Extends
<1> QED BY <1>1 DEF RowsOf

\* Until when a request that goes on has seen the log.
LEMMA LatestIs ==
    ASSUME NEW v, NEW h, NEW b, Spans(v, h, b), NEW g, Extends(g, h)
    PROVE  Active(v) =>
             /\ v.boot \in Nat \ {0} /\ v.since \in Nat \ {0}
             /\ v.boot <= v.since /\ v.since <= Latest(v, h)
             /\ Latest(v, h) \in 1 .. Len(h) /\ Latest(v, g) \in 1 .. Len(g)
             /\ Latest(v, h) <= Latest(v, g)
             /\ v.pc = "ok" => Latest(v, h) = v.until /\ Latest(v, g) = v.until
             /\ v.pc # "ok" => Latest(v, h) = Len(h) /\ Latest(v, g) = Len(g)
BY DEF Spans, Extends, Latest

\* A request that never began, or has none to answer.
LEMMA NothingHeld ==
    ASSUME NEW v, NEW h, v.results = NoCache, v.missing = {}, v.hits = {}
    PROVE  Holds(v, h)
<1>1. DOMAIN v.results = {}
  BY DEF NoCache
<1> QED BY <1>1 DEF Holds

LEMMA Inactive ==
    ASSUME NEW v, \A f \in Fields \ {"pc", "status"} : v[f] = NoRequest[f],
           NEW h, NEW b, v.pc \in {"failed", "gone"}
    PROVE  Fine(v, h, b)
<1>1. v.results = NoCache /\ v.missing = {} /\ v.hits = {} /\ v.q = NoQuery
  BY DEF Fields, NoRequest
<1>2. Holds(v, h)
  BY <1>1, NothingHeld
<1>3. Spans(v, h, b)
  BY <1>1 DEF Spans, ViewEnded, Active
<1>4. Lists(v, h) /\ Watches(v, h)
  BY DEF Lists, Whole, Watches
<1> QED BY <1>2, <1>3, <1>4 DEF Fine

LEMMA IdleFine ==
    ASSUME NEW h, NEW b
    PROVE  Fine(NoRequest, h, b)
<1>1. /\ NoRequest.results = NoCache /\ NoRequest.missing = {} /\ NoRequest.hits = {}
      /\ NoRequest.pc = "idle"
  BY DEF NoRequest
<1>2. Holds(NoRequest, h)
  BY <1>1, NothingHeld
<1>3. Spans(NoRequest, h, b) /\ Lists(NoRequest, h) /\ Watches(NoRequest, h)
  BY <1>1 DEF Spans, Lists, Whole, Watches, Active, ViewEnded
<1> QED BY <1>2, <1>3 DEF Fine

LEMMA HoldsLater ==
    ASSUME NEW v, NEW h, NEW b, Spans(v, h, b), Holds(v, h), NEW g, Extends(g, h), Active(v)
    PROVE  Holds(v, g)
<1> DEFINE lo(id) == IF id \in v.hits THEN v.boot ELSE v.since
<1>1. /\ v.boot \in Nat \ {0} /\ v.since \in Nat \ {0}
      /\ Latest(v, h) \in 0 .. Len(h) /\ Latest(v, g) \in Nat
      /\ Latest(v, h) <= Latest(v, g)
      /\ v.pc # "ok" => Latest(v, h) = Len(h) /\ Latest(v, g) = Len(g)
  BY LatestIs DEF Extends
<1>2. ASSUME NEW id \in DOMAIN v.results
      PROVE  FlatOf(g, id, v.results[id], lo(id), Latest(v, g))
  <2>1. FlatOf(h, id, v.results[id], lo(id), Latest(v, h))
    BY DEF Holds
  <2>2. lo(id) \in Nat \ {0}
    BY <1>1
  <2> HIDE DEF lo
  <2> QED BY <1>1, <2>1, <2>2, FlatLater
<1>3. ASSUME v.pc = "put", NEW id \in v.missing
      PROVE  id \in DOMAIN v.rows /\ RowsOf(g, id, v.rows[id], v.since, Len(g))
  <2>1. id \in DOMAIN v.rows /\ RowsOf(h, id, v.rows[id], v.since, Len(h))
    BY <1>3 DEF Holds
  <2>2. Len(h) \in 0 .. Len(h) /\ Len(g) \in Nat /\ Len(h) <= Len(g)
    BY DEF Extends
  <2> QED BY <1>1, <2>1, <2>2, RowsLater
<1> QED BY <1>2, <1>3 DEF Holds

LEMMA CoversLater ==
    ASSUME NEW v, NEW g, NEW h, Extends(g, h), v.since \in Nat \ {0}, NEW hi \in 0 .. Len(h),
           NEW until \in Nat, hi <= until, Covers(v, h, hi)
    PROVE  Covers(v, g, until)
<1>1. \A k \in v.since .. hi : k \in v.since .. until /\ g[k] = h[k]
  BY DEF Extends
<1> QED BY <1>1 DEF Covers

LEMMA ListsLater ==
    ASSUME NEW v, NEW h, NEW b, Spans(v, h, b), Lists(v, h), NEW g, Extends(g, h), Active(v)
    PROVE  Lists(v, g)
<1> SUFFICES ASSUME v.q.kind \in Listing PROVE Lists(v, g)
  BY DEF Lists
<1>1. /\ v.since \in Nat \ {0}
      /\ v.pc = "ok" => v.until \in 0 .. Len(h) /\ v.until \in Nat
      /\ Len(h) \in Nat /\ Len(g) \in Nat /\ Len(h) <= Len(g)
      /\ Len(h) \in 0 .. Len(h)
  BY LatestIs DEF Extends
<1>2. v.pc \in {"probe", "read", "put"} =>
        v.listed \in v.since .. Len(g) /\ v.ids = ListOf(v.q, g[v.listed])
  <2>1. \A k \in v.since .. Len(h) : k \in v.since .. Len(g) /\ g[k] = h[k]
    BY <1>1 DEF Extends
  <2> QED BY <2>1 DEF Lists
<1>3. v.pc = "put" => Covers(v, g, Len(g))
  BY <1>1, CoversLater DEF Lists
<1>4. Whole(v) =>
           /\ v.missing = {} /\ Covers(v, g, v.until)
           /\ \E k \in v.since .. v.until : v.ids = ListOf(v.q, g[k])
  <2> SUFFICES ASSUME Whole(v), v.pc = "ok"
               PROVE  /\ v.missing = {} /\ Covers(v, g, v.until)
                      /\ \E k \in v.since .. v.until : v.ids = ListOf(v.q, g[k])
    BY DEF Whole
  <2>1. /\ v.missing = {} /\ Covers(v, h, v.until)
        /\ \E k \in v.since .. v.until : v.ids = ListOf(v.q, h[k])
    BY DEF Lists
  <2>2. \A k \in v.since .. v.until : g[k] = h[k]
    BY <1>1 DEF Extends
  <2>3. Covers(v, g, v.until)
    BY <1>1, <2>1, CoversLater
  <2> QED BY <2>1, <2>2, <2>3
<1>5. v.pc = "read" => Elems(v.ids) \subseteq v.missing \cup DOMAIN v.results
  BY DEF Lists
<1> QED BY <1>2, <1>3, <1>4, <1>5 DEF Lists

LEMMA PriceLater ==
    ASSUME NEW v, NEW g, NEW h, Extends(g, h), v.since \in Nat \ {0}, NEW hi \in 0 .. Len(h),
           NEW until \in Nat, hi <= until, PriceSeen(v, h, hi)
    PROVE  PriceSeen(v, g, until)
<1>1. \A k \in v.since .. hi : k \in v.since .. until /\ g[k] = h[k]
  BY DEF Extends
<1>2. PICK j, k \in v.since .. hi : j <= k /\
       \/ v.price = NoPrice /\ {id \in Id : h[j][id]["row"] = v.q.text} = {}
       \/ \E id \in {id \in Id : h[j][id]["row"] = v.q.text} :
            LET there == Prices(h[k], id) \ {NoPrice} IN
            IF there = {} THEN v.price = NoPrice
            ELSE v.price \in there /\ \A x \in there : v.price <= x
  BY DEF PriceSeen
<1>3. g[j] = h[j] /\ g[k] = h[k] /\ j \in v.since .. until /\ k \in v.since .. until
  BY <1>1
<1> QED BY <1>2, <1>3 DEF PriceSeen

LEMMA StockLater ==
    ASSUME NEW v, NEW g, NEW h, Extends(g, h), v.since \in Nat \ {0}, NEW hi \in 0 .. Len(h),
           NEW until \in Nat, hi <= until, StockSeen(v, h, hi)
    PROVE  StockSeen(v, g, until)
<1>1. \A k \in v.since .. hi : k \in v.since .. until /\ g[k] = h[k]
  BY DEF Extends
<1> QED BY <1>1 DEF StockSeen

LEMMA WatchesLater ==
    ASSUME NEW v, NEW h, NEW b, Spans(v, h, b), Watches(v, h), NEW g, Extends(g, h), Active(v)
    PROVE  Watches(v, g)
<1>1. /\ v.since \in Nat \ {0}
      /\ v.pc = "ok" => v.until \in 0 .. Len(h) /\ v.until \in Nat /\ v.until <= v.until
      /\ Len(h) \in Nat /\ Len(g) \in Nat /\ Len(h) <= Len(g)
      /\ Len(h) \in 0 .. Len(h)
  BY LatestIs DEF Extends
<1>2. /\ PriceSeen(v, h, Len(h)) => PriceSeen(v, g, Len(g))
      /\ StockSeen(v, h, Len(h)) => StockSeen(v, g, Len(g))
  BY <1>1, PriceLater, StockLater
<1>3. v.pc = "ok" => /\ PriceSeen(v, h, v.until) => PriceSeen(v, g, v.until)
                     /\ StockSeen(v, h, v.until) => StockSeen(v, g, v.until)
  BY <1>1, PriceLater, StockLater
<1>4. \A j \in v.since .. Len(h) : j \in v.since .. Len(g) /\ g[j] = h[j]
  BY <1>1 DEF Extends
<1>5. (\E j \in v.since .. Len(h) : h[j][v.carrier]["row"] = v.q.text)
        => \E j \in v.since .. Len(g) : g[j][v.carrier]["row"] = v.q.text
  BY <1>4
<1> QED BY <1>2, <1>3, <1>5 DEF Watches

LEMMA FineLater ==
    ASSUME NEW v, NEW h, NEW b, Fine(v, h, b), NEW g, Extends(g, h)
    PROVE  Fine(v, g, b)
<1>1. CASE ~Active(v)
  <2>1. Spans(v, g, b)
    BY <1>1 DEF Fine, Spans
  <2>2. Lists(v, g) /\ Watches(v, g)
    BY <1>1 DEF Lists, Whole, Watches, Active
  <2>3. CASE v.pc = "idle"
    <3>1. v = NoRequest
      BY <2>3 DEF Fine, Spans
    <3> QED BY <3>1, IdleFine
  <2>4. CASE v.pc # "idle"
    <3>1. v.results = NoCache /\ v.missing = {} /\ v.hits = {}
      BY <1>1, <2>4 DEF Fine, Spans, Active
    <3>2. Holds(v, g)
      BY <3>1, NothingHeld
    <3> QED BY <2>1, <2>2, <3>2 DEF Fine
  <2> QED BY <2>3, <2>4
<1>2. CASE Active(v)
  <2>0. Spans(v, h, b)
    BY DEF Fine
  <2>1. Spans(v, g, b)
    <3>1. /\ v.boot \in 1 .. v.since /\ v.since \in 1 .. Latest(v, g)
          /\ Latest(v, g) \in 1 .. Len(g)
      BY <1>2, <2>0, LatestIs
    <3> QED BY <1>2, <2>0, <3>1 DEF Spans, Active
  <2> QED BY <1>2, <2>0, <2>1, HoldsLater, ListsLater, WatchesLater DEF Fine
<1> QED BY <1>1, <1>2

LEMMA CachesLater ==
    ASSUME NEW c, NEW h, NEW b \in Nat \ {0}, CachesFine(c, h, b), NEW g, Extends(g, h)
    PROVE  CachesFine(c, g, b)
<1>1. Len(h) \in 0 .. Len(h) /\ Len(g) \in Nat /\ Len(h) <= Len(g)
  BY DEF Extends
<1> QED BY <1>1, FlatLater DEF CachesFine
-----------------------------------------------------------------------------
(* What each step leaves true.                                             *)

\* After a step of r.
Good(r) == Frame(r) /\ CachesFine(caches', log', booted) /\ Fine(view'[r], log', booted)

LEMMA InvIs ==
    ASSUME ViewInv
    PROVE  /\ Shape /\ CachesFine(caches, log, booted) /\ booted \in Nat \ {0}
           /\ Log(log) /\ Extends(log, log) /\ booted \in 1 .. Len(log) /\ Len(log) \in Nat \ {0}
           /\ \A r \in Request :
                /\ Spans(view[r], log, booted) /\ Holds(view[r], log)
                /\ Lists(view[r], log) /\ Watches(view[r], log)
                /\ DOMAIN view[r] = Fields
<1>1. Shape
  BY DEF ViewInv
<1>2. Log(log) /\ booted \in 1 .. Len(log) /\ Len(log) \in Nat \ {0}
  BY <1>1 DEF Shape, Log
<1>3. booted \in Nat \ {0}
  BY <1>2
<1>4. CachesFine(caches, log, booted)
  BY DEF ViewInv
<1>5. \A r \in Request : /\ Spans(view[r], log, booted) /\ Holds(view[r], log)
                         /\ Lists(view[r], log) /\ Watches(view[r], log)
                         /\ DOMAIN view[r] = Fields
  BY DEF ViewInv, Fine, Shape
<1> QED BY <1>1, <1>2, <1>3, <1>4, <1>5, ExtendsItself

\* A request at work, by its place in the handler.
LEMMA WorkIs ==
    ASSUME ViewInv, NEW r \in Request, view[r].pc \notin ViewEnded
    PROVE  /\ Active(view[r]) /\ view[r].lost = FALSE /\ view[r].boot = booted
           /\ view[r].q \in ViewQuery
           /\ view[r].since \in Nat \ {0} /\ booted <= view[r].since
           /\ view[r].since <= Len(log) /\ Len(log) \in view[r].since .. Len(log)
           /\ Latest(view[r], log) = Len(log)
<1> DEFINE v == view[r]
<1>1. Spans(v, log, booted) /\ Extends(log, log) /\ Len(log) \in Nat \ {0}
  BY InvIs
<1> HIDE DEF v
<1> SUFFICES ASSUME v.pc \notin ViewEnded
             PROVE  /\ Active(v) /\ v.lost = FALSE /\ v.boot = booted
                    /\ v.q \in ViewQuery
                    /\ v.since \in Nat \ {0} /\ booted <= v.since
                    /\ v.since <= Len(log) /\ Len(log) \in v.since .. Len(log)
                    /\ Latest(v, log) = Len(log)
  BY DEF v
<1>2. Active(v) /\ v.pc # "ok"
  BY DEF Active, ViewEnded
<1>3. v.lost = FALSE /\ v.boot = booted /\ v.q \in ViewQuery
  BY <1>1, <1>2 DEF Spans
<1>4. /\ v.since \in Nat \ {0} /\ v.boot <= v.since /\ v.since <= Latest(v, log)
      /\ Latest(v, log) = Len(log)
  BY <1>1, <1>2, LatestIs
<1> QED BY <1>1, <1>2, <1>3, <1>4

\* w answers what v has found, at the end of the log g.
LEMMA Ends ==
    ASSUME NEW v, NEW h, NEW b, Spans(v, h, b), Holds(v, h), v.pc \notin ViewEnded,
           NEW g, Extends(g, h), NEW w, w.pc = "ok", w.until = Len(g),
           \A f \in {"q", "boot", "since", "missing", "results", "hits"} : w[f] = v[f]
    PROVE  Spans(w, g, b) /\ Holds(w, g)
<1>1. Active(v) /\ v.pc # "ok"
  BY DEF Active, ViewEnded
<1>2. /\ v.boot \in Nat \ {0} /\ v.since \in Nat \ {0} /\ v.boot <= v.since
      /\ v.since <= Len(h) /\ Latest(v, g) = Len(g) /\ Len(h) <= Len(g) /\ Len(g) \in Nat
  BY <1>1, LatestIs DEF Extends
<1>3. v.q \in ViewQuery
  BY <1>1 DEF Spans
<1>4. /\ w.q = v.q /\ w.boot = v.boot /\ w.since = v.since /\ w.missing = v.missing
      /\ w.results = v.results /\ w.hits = v.hits
  OBVIOUS
<1>5. Latest(w, g) = Latest(v, g)
  BY <1>2 DEF Latest
<1>6. Holds(v, g)
  BY <1>1, HoldsLater
<1>7. Holds(w, g)
  BY <1>4, <1>5, <1>6 DEF Holds
<1>8. w.boot \in 1 .. w.since /\ w.since \in 1 .. Latest(w, g) /\ Latest(w, g) \in 1 .. Len(g)
  BY <1>2, <1>4, <1>5
<1>9. Spans(w, g, b)
  BY <1>3, <1>4, <1>8 DEF Spans, ViewEnded
<1> QED BY <1>7, <1>9

LEMMA OverFine ==
    ASSUME ViewInv, NEW r \in Request, NEW status, view[r].pc \notin ViewEnded,
           Lists(Over(view[r], status), log), Watches(Over(view[r], status), log)
    PROVE  Fine(Over(view[r], status), log, booted) /\ DOMAIN Over(view[r], status) = Fields
<1> DEFINE v == view[r]
           w == Over(v, status)
<1>1. /\ Spans(v, log, booted) /\ Holds(v, log) /\ Extends(log, log) /\ DOMAIN v = Fields
  BY InvIs
<1>2. /\ w.pc = "ok" /\ w.until = Len(log) /\ DOMAIN w = Fields
      /\ \A f \in {"q", "boot", "since", "missing", "results", "hits"} : w[f] = v[f]
  <2> HIDE DEF v
  <2> QED BY <1>1, OverFields
<1> HIDE DEF w
<1>3. Spans(w, log, booted) /\ Holds(w, log)
  <2> HIDE DEF v
  <2>1. v.pc \notin ViewEnded
    BY DEF v
  <2> QED BY <1>1, <1>2, <2>1, Ends
<1> QED BY <1>2, <1>3 DEF Fine, w

LEMMA BrokenFine ==
    ASSUME NEW status, NEW h, NEW b
    PROVE  Fine(Broken(status), h, b) /\ DOMAIN Broken(status) = Fields
<1>1. /\ DOMAIN Broken(status) = Fields /\ Broken(status).pc = "failed"
      /\ \A f \in Fields \ {"pc", "status"} : Broken(status)[f] = NoRequest[f]
  BY NoRequestFields, OverFields
<1> QED BY <1>1, Inactive

\* A step that reads: what is left to show.
LEMMA ReadsGood ==
    ASSUME ViewInv, NEW r \in Request, NEW new, View(r, new),
           UNCHANGED <<log, booted, cacheOn, caches>>,
           DOMAIN new = Fields, Fine(new, log, booted)
    PROVE  Good(r)
<1>1. Frame(r) /\ view'[r] = new
  BY InvIs, ReadsOnly
<1> QED BY <1>1, InvIs DEF Good

-----------------------------------------------------------------------------
(* The requests begin, and list.                                           *)

LEMMA AskGood ==
    ASSUME ViewInv, NEW r \in Request, NEW q \in ViewQuery, AskView(r, q)
    PROVE  Good(r)
<1> DEFINE pc == FirstStep(q)
           steps == FirstSelects(q)
           new == [view[r] EXCEPT !.pc = pc, !.q = q, !.since = Now,
                               !.boot = booted, !.ids = q.ids, !.steps = steps]
<1>1. view[r] = NoRequest
  BY InvIs DEF AskView, Spans
<1>2. /\ DOMAIN new = Fields /\ new.pc = pc /\ new.q = q /\ new.since = Len(log)
      /\ new.boot = booted /\ new.steps = steps /\ new.price = NoPrice /\ new.lost = FALSE
      /\ new.results = NoCache /\ new.hits = {} /\ new.missing = {}
  <2> HIDE DEF pc, steps
  <2>1. DOMAIN new = Fields
    BY <1>1, NoRequestFields
  <2>2. /\ new.pc = pc /\ new.q = q /\ new.since = Len(log)
        /\ new.boot = booted /\ new.steps = steps
    BY <1>1, NoRequestFields DEF Fields, Now
  <2>3. /\ new.price = NoPrice /\ new.lost = FALSE
        /\ new.results = NoCache /\ new.hits = {} /\ new.missing = {}
    BY <1>1 DEF NoRequest
  <2> QED BY <2>1, <2>2, <2>3
<1>3. /\ pc \in {"list", "probe", "write", "join"}
      /\ pc = "join" <=> q.kind \in RealtimeKinds
      /\ pc = "probe" => q.kind \in {"flatIds", "page"}
  <2>1. CASE q.kind \in {"post", "put", "delete"}
    BY <2>1 DEF FirstStep, RealtimeKinds
  <2>2. CASE q.kind \in {"price", "stock", "both"}
    BY <2>2 DEF FirstStep, RealtimeKinds
  <2>3. CASE q.kind \in {"flatIds", "page"}
    BY <2>3 DEF FirstStep, RealtimeKinds
  <2>4. CASE q.kind \notin {"post", "put", "delete", "price", "stock", "both", "flatIds", "page"}
    BY <2>4 DEF FirstStep, RealtimeKinds
  <2> QED BY <2>1, <2>2, <2>3, <2>4
<1>4. /\ q.kind \in {"price", "both"} => "lookup" \in steps
      /\ q.kind \in {"stock", "both"} => "stock" \in steps
      /\ "decimals" \notin steps
  BY DEF FirstSelects
<1>5. View(r, new) /\ UNCHANGED <<log, booted, cacheOn, caches>>
  BY DEF AskView
<1> HIDE DEF pc, steps, new
<1>6. Spans(new, log, booted)
  <2>1. Latest(new, log) = Len(log)
    BY <1>2, <1>3 DEF Latest
  <2>2. booted \in 1 .. Len(log) /\ Len(log) \in 1 .. Len(log)
    BY InvIs
  <2> QED BY <1>2, <1>3, <2>1, <2>2 DEF Spans
<1>7. Holds(new, log)
  BY <1>2, NothingHeld
<1>8. Lists(new, log)
  BY <1>2, <1>3 DEF Lists, Whole, Listing, PageKinds
<1>9. Watches(new, log)
  BY <1>2, <1>3, <1>4 DEF Watches, RealtimeKinds
<1> QED BY <1>2, <1>5, <1>6, <1>7, <1>8, <1>9, ReadsGood DEF Fine

LEMMA FoundGood ==
    ASSUME ViewInv, NEW r \in Request, NEW ids, Found(r, ids), view[r].pc = "list",
           view[r].q.kind \in Listing => ids = ListOf(view[r].q, log[Len(log)]),
           UNCHANGED <<log, booted, cacheOn, caches>>
    PROVE  Good(r)
<1> DEFINE v == view[r]
           pc == IF ids = <<>> THEN "put" ELSE "probe"
           new == [v EXCEPT !.pc = pc, !.ids = ids, !.listed = Now]
<1>1. /\ Spans(v, log, booted) /\ Holds(v, log) /\ DOMAIN v = Fields
      /\ Active(v) /\ v.lost = FALSE /\ v.boot = booted
      /\ v.q \in ViewQuery /\ Latest(v, log) = Len(log) /\ Len(log) \in v.since .. Len(log)
  BY InvIs, WorkIs DEF ViewEnded
<1>2. View(r, new)
  BY DEF Found
<1>3. v.pc = "list" /\ (v.q.kind \in Listing => ids = ListOf(v.q, log[Len(log)]))
  OBVIOUS
<1>4. pc \in {"put", "probe"} /\ (pc = "put" => Elems(ids) = {})
  BY DEF Elems
<1> HIDE DEF v, pc
<1>5. /\ new.pc = pc /\ new.ids = ids /\ new.listed = Len(log) /\ DOMAIN new = Fields
      /\ \A f \in Fields \ {"pc", "ids", "listed"} : new[f] = v[f]
  BY <1>1 DEF Fields, Now
<1>6. /\ new.q = v.q /\ new.boot = v.boot /\ new.since = v.since /\ new.results = v.results
      /\ new.missing = v.missing /\ new.hits = v.hits /\ new.lost = v.lost
  BY <1>5 DEF Fields
<1> HIDE DEF new
<1>7. v.results = NoCache /\ v.missing = {} /\ v.hits = {} /\ v.q.kind \notin RealtimeKinds
  BY <1>1, <1>3 DEF Spans
<1>8. Spans(new, log, booted)
  <2>1. Latest(new, log) = Latest(v, log) /\ new.pc \notin {"ok", "idle"}
    BY <1>1, <1>4, <1>5 DEF Latest
  <2> QED BY <1>1, <1>4, <1>5, <1>6, <1>7, <2>1 DEF Spans
<1>9. Holds(new, log)
  BY <1>6, <1>7, NothingHeld
<1>10. Lists(new, log)
  <2>1. new.pc = "put" => Covers(new, log, Len(log))
    BY <1>4, <1>5 DEF Covers
  <2> QED BY <1>1, <1>3, <1>4, <1>5, <1>6, <2>1 DEF Lists, Whole
<1>11. Watches(new, log)
  BY <1>4, <1>5 DEF Watches
<1> QED BY <1>2, <1>5, <1>8, <1>9, <1>10, <1>11, ReadsGood DEF Fine

LEMMA ListGood ==
    ASSUME ViewInv, NEW r \in Request, ListCategory(r) \/ ListSearch(r) \/ ListFlat(r)
    PROVE  Good(r)
<1> DEFINE q == view[r].q
           d == log[Len(log)]
<1>1. CASE ListCategory(r)
  <2>1. q.kind = "grid" /\ ListOf(q, d) = GridPage(InOrder(Linked(d, q)), q)
    BY <1>1 DEF ListCategory, ListOf, PageKinds, Matching
  <2> QED BY <1>1, <2>1, FoundGood DEF ListCategory, Db, Now
<1>2. CASE ListSearch(r)
  <2>1. /\ q.kind = "search"
        /\ ListOf(q, d) = IF q.text = NoText THEN <<>> ELSE GridPage(InOrder(Hits(d, q.text)), q)
    BY <1>2 DEF ListSearch, ListOf, PageKinds, Matching
  <2> QED BY <1>2, <2>1, FoundGood DEF ListSearch, Db, Now
<1>3. CASE ListFlat(r)
  <2>1. q.kind \in ListKinds
    BY <1>3 DEF ListFlat
  <2>2. ListOf(q, d) = AllIds(q)
    BY <2>1 DEF ListKinds, ListOf, PageKinds, AllIds, Db, Now
  <2> QED BY <1>3, <2>2, FoundGood DEF ListFlat
<1> QED BY <1>1, <1>2, <1>3

LEMMA FindGood ==
    ASSUME ViewInv, NEW r \in Request, FindAll(r) \/ FindById(r)
    PROVE  Good(r)
<1> DEFINE v == view[r]
<1>0. v.pc = "list" /\ v.pc \notin ViewEnded
  BY DEF FindAll, FindById, ViewEnded
<1>1. Spans(v, log, booted) /\ Holds(v, log) /\ Extends(log, log) /\ DOMAIN v = Fields
  BY InvIs
<1>2. CASE FindAll(r)
  <2> DEFINE ids == AllIds(v.q)
             w == Over(v, 200)
             new == [w EXCEPT !.ids = ids]
  <2>1. View(r, new) /\ UNCHANGED <<log, booted, cacheOn, caches>> /\ v.q.kind = "list"
    BY <1>2 DEF FindAll
  <2> HIDE DEF ids
  <2>2. /\ DOMAIN w = Fields /\ w.pc = "ok" /\ w.until = Len(log)
        /\ \A f \in {"q", "boot", "since", "missing", "results", "hits"} : w[f] = v[f]
    <3> HIDE DEF v
    <3> QED BY <1>1, OverFields
  <2> HIDE DEF w, v
  <2>3. /\ DOMAIN new = Fields /\ new.pc = "ok" /\ new.until = Len(log)
        /\ \A f \in {"q", "boot", "since", "missing", "results", "hits"} : new[f] = v[f]
    BY <2>2 DEF Fields
  <2> HIDE DEF new
  <2>4. Spans(new, log, booted) /\ Holds(new, log)
    BY <1>0, <1>1, <2>3, Ends
  <2>5. new.q.kind = "list"
    BY <2>1, <2>3
  <2>6. Lists(new, log) /\ Watches(new, log)
    BY <2>3, <2>5 DEF Lists, Whole, Watches, Listing, PageKinds, RealtimeKinds
  <2> QED BY <2>1, <2>3, <2>4, <2>6, ReadsGood DEF Fine
<1>3. CASE FindById(r)
  <2>1. PICK status : View(r, Over(v, status)) /\ UNCHANGED <<log, booted, cacheOn, caches>>
    BY <1>3 DEF FindById
  <2>2. v.q.kind = "get"
    BY <1>3 DEF FindById
  <2>3. Over(v, status).q.kind = "get" /\ Over(v, status).pc = "ok"
    <3> HIDE DEF v
    <3> QED BY <1>1, <2>2, OverFields
  <2>4. Lists(Over(v, status), log) /\ Watches(Over(v, status), log)
    BY <2>3 DEF Lists, Whole, Watches, Listing, PageKinds, RealtimeKinds
  <2> QED BY <1>0, <2>1, <2>4, OverFine, ReadsGood
<1> QED BY <1>2, <1>3
-----------------------------------------------------------------------------
(* The lists of ids.                                                       *)

Rising(t) == \A a, b \in 1 .. Len(t) : a < b => t[a] < t[b]

LEMMA KeptIsSome ==
    ASSUME NEW X, NEW s \in Seq(X), NEW S
    PROVE  /\ Kept(s, S) \in Seq(X) /\ Elems(Kept(s, S)) = Elems(s) \cap S
           /\ X \subseteq Nat /\ Rising(s) => Rising(Kept(s, S))
<1> DEFINE t == Kept(s, S)
<1>1. t \in Seq(X) /\ \E h : Picks(h, t, s, S, Len(s))
  BY KeptPicks
<1> HIDE DEF t
<1>2. PICK h : Picks(h, t, s, S, Len(s))
  BY <1>1
<1>3. /\ h \in [1 .. Len(t) -> 1 .. Len(s)]
      /\ \A a, b \in 1 .. Len(t) : a < b => h[a] < h[b]
      /\ \A a \in 1 .. Len(t) : t[a] = s[h[a]] /\ t[a] \in S
      /\ \A i \in 1 .. Len(s) : s[i] \in S => \E a \in 1 .. Len(t) : h[a] = i
  BY <1>2 DEF Picks
<1>4. DOMAIN t = 1 .. Len(t) /\ DOMAIN s = 1 .. Len(s)
  BY <1>1
<1>5. Elems(t) = Elems(s) \cap S
  <2>1. ASSUME NEW a \in DOMAIN t
        PROVE  t[a] \in Elems(s) \cap S
    BY <1>3, <1>4 DEF Elems
  <2>2. ASSUME NEW i \in DOMAIN s, s[i] \in S
        PROVE  s[i] \in Elems(t)
    <3>1. PICK a \in 1 .. Len(t) : h[a] = i
      BY <1>3, <1>4, <2>2
    <3>2. t[a] = s[i] /\ a \in DOMAIN t
      BY <1>3, <1>4, <3>1
    <3> QED BY <3>2 DEF Elems
  <2> QED BY <2>1, <2>2 DEF Elems
<1>6. ASSUME X \subseteq Nat, Rising(s)
      PROVE  Rising(t)
  <2> SUFFICES ASSUME NEW a \in 1 .. Len(t), NEW b \in 1 .. Len(t), a < b
               PROVE  t[a] < t[b]
    BY DEF Rising
  <2>1. h[a] \in 1 .. Len(s) /\ h[b] \in 1 .. Len(s) /\ h[a] < h[b]
    BY <1>3
  <2>2. s[h[a]] < s[h[b]]
    BY <1>6, <2>1 DEF Rising
  <2> QED BY <1>3, <2>2
<1> QED BY <1>1, <1>5, <1>6 DEF t

LEMMA InOrderIs ==
    ASSUME NEW S
    PROVE  /\ InOrder(S) \in Seq(Nat) /\ Elems(InOrder(S)) = S \cap Id
           /\ Rising(InOrder(S))
<1> DEFINE s == [n \in Id |-> n]
<1>1. MaxId \in Nat
  BY ViewAssumption
<1>2. s \in Seq(Nat) /\ Len(s) = MaxId /\ DOMAIN s = Id
  BY <1>1 DEF Id
<1>3. Elems(s) = Id /\ Rising(s)
  BY <1>1, <1>2 DEF Elems, Rising, Id
<1>4. InOrder(S) = Kept(s, S)
  BY DEF InOrder
<1> HIDE DEF s
<1>5. Kept(s, S) \in Seq(Nat) /\ Elems(Kept(s, S)) = Elems(s) \cap S /\ Rising(Kept(s, S))
  BY <1>2, <1>3, KeptIsSome
<1> QED BY <1>3, <1>4, <1>5

LEMMA SliceIs ==
    ASSUME NEW X, NEW s \in Seq(X), NEW m \in Nat \ {0}, NEW n \in 0 .. Len(s)
    PROVE  /\ SubSeq(s, m, n) \in Seq(X)
           /\ Elems(SubSeq(s, m, n)) = {s[i] : i \in m .. n}
           /\ X \subseteq Nat /\ Rising(s) => Rising(SubSeq(s, m, n))
<1> DEFINE t == SubSeq(s, m, n)
<1>1. \A i \in m .. n : s[i] \in X
  OBVIOUS
<1>2. /\ t \in Seq(X) /\ Len(t) = IF m <= n THEN n - m + 1 ELSE 0
      /\ \A i \in 1 .. n - m + 1 : t[i] = s[m + i - 1]
  BY <1>1, SubSeqProperties
<1> HIDE DEF t
<1>3. Elems(t) = {s[i] : i \in m .. n}
  <2>1. ASSUME NEW a \in DOMAIN t
        PROVE  t[a] \in {s[i] : i \in m .. n}
    <3>1. a \in 1 .. n - m + 1 /\ m + a - 1 \in m .. n
      BY <1>2
    <3> QED BY <1>2, <3>1
  <2>2. ASSUME NEW i \in m .. n
        PROVE  s[i] \in Elems(t)
    <3>1. i - m + 1 \in DOMAIN t /\ t[i - m + 1] = s[i]
      BY <1>2
    <3> QED BY <3>1 DEF Elems
  <2> QED BY <2>1, <2>2 DEF Elems
<1>4. ASSUME X \subseteq Nat, Rising(s)
      PROVE  Rising(t)
  <2> SUFFICES ASSUME NEW a \in 1 .. Len(t), NEW b \in 1 .. Len(t), a < b
               PROVE  t[a] < t[b]
    BY DEF Rising
  <2>1. /\ t[a] = s[m + a - 1] /\ t[b] = s[m + b - 1]
        /\ m + a - 1 \in 1 .. Len(s) /\ m + b - 1 \in 1 .. Len(s) /\ m + a - 1 < m + b - 1
    BY <1>2
  <2> QED BY <1>4, <2>1 DEF Rising
<1> QED BY <1>2, <1>3, <1>4 DEF t

\* The bounds of a page, wherever it begins.
LEMMA GridPageIs ==
    ASSUME NEW s \in Seq(Nat), Rising(s), NEW q \in ViewQuery
    PROVE  /\ GridPage(s, q) \in Seq(Nat) /\ Rising(GridPage(s, q))
           /\ Elems(GridPage(s, q)) \subseteq Elems(s)
           /\ LET p == Paginate(Len(s), q.page, q.size) IN
              Elems(GridPage(s, q)) =
                {s[i] : i \in AtMost(Len(s), GridStart(p)) + 1 .. GridEnd(p, Len(s))}
<1> DEFINE p == Paginate(Len(s), q.page, q.size)
           m == AtMost(Len(s), GridStart(p)) + 1
           n == GridEnd(p, Len(s))
<1>1. q.page \in Nat /\ q.size \in Nat /\ Len(s) \in Nat
  BY ViewAssumption DEF Query
<1>2. p.page \in Nat \ {0} /\ p.limit \in Nat \ {0}
  <2> DEFINE T == TotalPages(Len(s), q.size)
  <2>1. T \in Nat \ {0} /\ AtLeast(1, q.size) \in Nat \ {0}
    BY <1>1, PageFields
  <2>2. p.page = AtLeast(1, AtMost(T, q.page)) /\ p.limit = AtLeast(1, q.size)
    BY DEF Paginate
  <2> HIDE DEF T, p
  <2> QED BY <1>1, <2>1, <2>2 DEF AtLeast, AtMost
<1> HIDE DEF p
<1>3. (p.page - 1) * p.limit \in Nat
  <2>1. p.page - 1 \in Nat
    BY <1>2
  <2> QED BY <1>2, <2>1
<1>4. m \in Nat \ {0} /\ n \in 0 .. Len(s)
  BY <1>1, <1>2, <1>3 DEF GridStart, GridEnd, AtMost
<1>5. GridPage(s, q) = SubSeq(s, m, n)
  BY DEF GridPage, GridSlice, p
<1> HIDE DEF m, n
<1>6. /\ SubSeq(s, m, n) \in Seq(Nat) /\ Elems(SubSeq(s, m, n)) = {s[i] : i \in m .. n}
      /\ Rising(SubSeq(s, m, n))
  BY <1>4, SliceIs
<1>7. {s[i] : i \in m .. n} \subseteq Elems(s)
  BY <1>4 DEF Elems
<1> QED BY <1>5, <1>6, <1>7 DEF m, n, p

LEMMA LimitedIs ==
    ASSUME NEW s \in Seq(Nat), NEW limit \in Nat
    PROVE  /\ Limited(s, limit) \in Seq(Nat) /\ Elems(Limited(s, limit)) \subseteq Elems(s)
           /\ limit = 0 => Limited(s, limit) = s
<1> DEFINE n == IF limit = 0 THEN Len(s) ELSE AtMost(Len(s), limit)
<1>1. n \in 0 .. Len(s) /\ (limit = 0 => n = Len(s))
  BY DEF AtMost
<1>2. Limited(s, limit) = SubSeq(s, 1, n)
  BY DEF Limited
<1> HIDE DEF n
<1>3. SubSeq(s, 1, n) \in Seq(Nat) /\ Elems(SubSeq(s, 1, n)) = {s[i] : i \in 1 .. n}
  BY <1>1, SliceIs
<1>4. {s[i] : i \in 1 .. n} \subseteq Elems(s)
  BY <1>1 DEF Elems
<1>5. limit = 0 => SubSeq(s, 1, n) = s
  BY <1>1, SubSeqFull
<1> QED BY <1>2, <1>3, <1>4, <1>5

LEMMA ListOfIs ==
    ASSUME NEW q \in ViewQuery, NEW d
    PROVE  /\ ListOf(q, d) \in Seq(Nat) /\ Elems(ListOf(q, d)) \subseteq Id
           /\ q.kind \in PageKinds => Rising(ListOf(q, d))
           /\ q.kind = "product" => Elems(ListOf(q, d)) = {id \in Id : Exists(d, id)}
<1>1. Query(q)
  BY ViewAssumption
<1>2. CASE q.kind = "search" /\ q.text = NoText
  <2>1. ListOf(q, d) = <<>>
    BY <1>2 DEF ListOf
  <2>2. <<>> \in Seq(Nat) /\ Elems(<<>>) = {} /\ Rising(<<>>)
    BY DEF Elems, Rising
  <2> QED BY <1>2, <2>1, <2>2
<1>3. CASE q.kind \in PageKinds /\ ~ (q.kind = "search" /\ q.text = NoText)
  <2>1. ListOf(q, d) = GridPage(InOrder(Matching(q, d)), q)
    BY <1>3 DEF ListOf
  <2> DEFINE s == InOrder(Matching(q, d))
  <2>2. s \in Seq(Nat) /\ Elems(s) \subseteq Id /\ Rising(s)
    BY InOrderIs
  <2> HIDE DEF s
  <2>3. GridPage(s, q) \in Seq(Nat) /\ Rising(GridPage(s, q)) /\ Elems(GridPage(s, q)) \subseteq Id
    BY <2>2, GridPageIs
  <2>4. q.kind # "product"
    BY <1>3 DEF PageKinds
  <2> QED BY <2>1, <2>3, <2>4 DEF s
<1>4. CASE q.kind \notin PageKinds
  <2> DEFINE s == InOrder({id \in Id : Exists(d, id)})
  <2>1. ListOf(q, d) = Limited(s, Limit(q))
    BY <1>4 DEF ListOf, PageKinds
  <2>2. s \in Seq(Nat) /\ Elems(s) = {id \in Id : Exists(d, id)}
    BY InOrderIs
  <2>3. Limit(q) \in Nat /\ (q.kind = "product" => Limit(q) = 0)
    BY <1>1 DEF Limit, Query, GraphqlKinds
  <2> HIDE DEF s
  <2>4. /\ Limited(s, Limit(q)) \in Seq(Nat) /\ Elems(Limited(s, Limit(q))) \subseteq Elems(s)
        /\ Limit(q) = 0 => Limited(s, Limit(q)) = s
    BY <2>2, <2>3, LimitedIs
  <2> QED BY <1>4, <2>1, <2>2, <2>3, <2>4
<1> QED BY <1>2, <1>3, <1>4
-----------------------------------------------------------------------------
(* Fetching.                                                               *)

\* The ids of a listing are ids.
LEMMA ListedIds ==
    ASSUME ViewInv, NEW r \in Request, view[r].q.kind \in Listing,
           view[r].pc \in {"probe", "read", "put"}
    PROVE  /\ Elems(view[r].ids) \subseteq Id
           /\ view[r].q.kind = "product" =>
                \A id \in Elems(view[r].ids) : Exists(log[view[r].listed], id)
<1> DEFINE v == view[r]
<1>1. v.ids = ListOf(v.q, log[v.listed])
  BY InvIs DEF Lists, Whole
<1>2. v.q \in ViewQuery
  BY WorkIs DEF ViewEnded
<1> QED BY <1>1, <1>2, ListOfIs

LEMMA ProbeGood ==
    ASSUME ViewInv, NEW r \in Request, Probe(r)
    PROVE  Good(r)
<1> DEFINE v   == view[r]
           q   == v.q
           hit == {id \in Elems(v.ids) : Cached(q, id)}
           out == (Elems(v.ids) \ hit) \cap Id
           pc  == IF out = {} THEN "put" ELSE "read"
           res == [id \in hit |-> caches[<<q.api, q.store, id>>]]
           new == [v EXCEPT !.pc = pc, !.probed = Now, !.results = res,
                            !.hits = hit, !.missing = out]
<1>1. /\ v.pc = "probe" /\ View(r, new) /\ UNCHANGED <<log, booted, cacheOn, caches>>
  BY DEF Probe
<1>2. /\ Spans(v, log, booted) /\ Holds(v, log) /\ DOMAIN v = Fields
      /\ Active(v) /\ v.lost = FALSE /\ v.boot = booted
      /\ q \in ViewQuery /\ Latest(v, log) = Len(log) /\ Len(log) \in v.since .. Len(log)
      /\ Lists(v, log)
  BY <1>1, InvIs, WorkIs DEF ViewEnded
<1>3. \A id \in hit : id \in Id /\ FlatOf(log, id, res[id], booted, Len(log))
  <2> TAKE id \in hit
  <2> DEFINE k == <<q.api, q.store, id>>
  <2>1. k \in DOMAIN caches /\ k[3] = id /\ res[id] = caches[k]
    BY DEF Cached
  <2> HIDE DEF k
  <2>2. k[3] \in Id /\ FlatOf(log, k[3], caches[k], booted, Len(log))
    BY <2>1, InvIs DEF CachesFine
  <2> QED BY <2>1, <2>2
<1>4. /\ out \subseteq Id /\ out \cap hit = {} /\ DOMAIN res = hit
      /\ Elems(v.ids) \cap Id \subseteq out \cup hit
      /\ pc \in {"put", "read"} /\ (pc = "put" => out = {})
  OBVIOUS
<1>5. q.kind \in Listing => Elems(v.ids) \subseteq Id
  BY <1>1, ListedIds
<1> HIDE DEF v, hit, out, pc, res
<1>6. /\ new.pc = pc /\ new.results = res /\ new.hits = hit /\ new.missing = out
      /\ DOMAIN new = Fields
      /\ \A f \in Fields \ {"pc", "probed", "results", "hits", "missing"} : new[f] = v[f]
  BY <1>2 DEF Fields
<1>7. /\ new.q = q /\ new.boot = v.boot /\ new.since = v.since /\ new.ids = v.ids
      /\ new.listed = v.listed /\ new.lost = v.lost
  BY <1>6 DEF Fields
<1> HIDE DEF new
<1>8. Latest(new, log) = Len(log) /\ q.kind \notin RealtimeKinds
  BY <1>1, <1>2, <1>4, <1>6 DEF Latest, Spans
<1>9. Spans(new, log, booted)
  BY <1>1, <1>2, <1>4, <1>6, <1>7, <1>8 DEF Spans
<1>10. Holds(new, log)
  BY <1>2, <1>3, <1>4, <1>6, <1>7, <1>8 DEF Holds
<1>11. Lists(new, log)
  <2> SUFFICES ASSUME q.kind \in Listing PROVE Lists(new, log)
    BY <1>7 DEF Lists, Whole
  <2>1. v.listed \in v.since .. Len(log) /\ v.ids = ListOf(q, log[v.listed])
    BY <1>1, <1>2 DEF Lists, Whole
  <2>2. Elems(v.ids) \subseteq out \cup DOMAIN res
    BY <1>4, <1>5
  <2>3. Covers(new, log, Len(log))
    BY <1>6, <1>7, <2>2 DEF Covers
  <2> QED BY <1>4, <1>6, <1>7, <2>1, <2>2, <2>3 DEF Lists, Whole
<1>12. Watches(new, log)
  BY <1>4, <1>6 DEF Watches
<1> QED BY <1>1, <1>6, <1>9, <1>10, <1>11, <1>12, ReadsGood DEF Fine

LEMMA ReadGood ==
    ASSUME ViewInv, NEW r \in Request, Read(r)
    PROVE  Good(r)
<1> DEFINE v == view[r]
<1>1. PICK at \in Moments(v) :
         LET found == {id \in v.missing : Exists(log[at["row"]], id)} IN
         View(r, [v EXCEPT !.pc = "put", !.missing = found,
                    !.rows = [id \in found |-> [p \in Part |-> log[at[p]][id][p]]]])
  BY DEF Read
<1> DEFINE found == {id \in v.missing : Exists(log[at["row"]], id)}
           rows == [id \in found |-> [p \in Part |-> log[at[p]][id][p]]]
           new == [v EXCEPT !.pc = "put", !.missing = found, !.rows = rows]
<1>2. /\ v.pc = "read" /\ View(r, new) /\ UNCHANGED <<log, booted, cacheOn, caches>>
  BY <1>1 DEF Read
<1>3. /\ Spans(v, log, booted) /\ Holds(v, log) /\ DOMAIN v = Fields
      /\ Active(v) /\ v.lost = FALSE /\ v.boot = booted
      /\ v.q \in ViewQuery /\ Latest(v, log) = Len(log) /\ Len(log) \in v.since .. Len(log)
      /\ Lists(v, log)
  BY <1>2, InvIs, WorkIs DEF ViewEnded
<1>4. /\ \A p \in Part : at[p] \in v.since .. Len(log)
      /\ v.q.kind \in ListKinds => at["row"] = v.listed
  BY DEF Moments, Now
<1>5. at["row"] \in v.since .. Len(log)
  BY <1>4 DEF Part
<1>6. \A id \in found : id \in DOMAIN rows /\ RowsOf(log, id, rows[id], v.since, Len(log))
  <2> TAKE id \in found
  <2>1. rows[id] = [p \in Part |-> log[at[p]][id][p]] /\ id \in DOMAIN rows
    OBVIOUS
  <2> HIDE DEF rows
  <2>2. \A p \in Part : rows[id][p] = log[at[p]][id][p]
    BY <2>1
  <2> QED BY <1>4, <2>1, <2>2 DEF RowsOf
<1>7. /\ found \subseteq v.missing
      /\ \A id \in v.missing : id \in found \/ ~Exists(log[at["row"]], id)
  OBVIOUS
<1>8. v.q.kind = "product" => \A id \in Elems(v.ids) : Exists(log[at["row"]], id)
  <2> SUFFICES ASSUME v.q.kind = "product"
               PROVE  \A id \in Elems(v.ids) : Exists(log[at["row"]], id)
    OBVIOUS
  <2>1. v.q.kind \in Listing /\ v.q.kind \in ListKinds
    BY DEF Listing, ListKinds
  <2>2. at["row"] = v.listed
    BY <1>4, <2>1
  <2>3. v.pc \in {"probe", "read", "put"}
    BY <1>2
  <2>4. \A id \in Elems(v.ids) : Exists(log[v.listed], id)
    BY <2>1, <2>3, ListedIds
  <2> QED BY <2>2, <2>4
<1> HIDE DEF v, found, rows
<1>9. /\ new.pc = "put" /\ new.rows = rows /\ new.missing = found /\ DOMAIN new = Fields
      /\ \A f \in Fields \ {"pc", "rows", "missing"} : new[f] = v[f]
  BY <1>3 DEF Fields
<1>10. /\ new.q = v.q /\ new.boot = v.boot /\ new.since = v.since /\ new.ids = v.ids
       /\ new.listed = v.listed /\ new.lost = v.lost /\ new.results = v.results
       /\ new.hits = v.hits
  BY <1>9 DEF Fields
<1> HIDE DEF new
<1>11. Latest(new, log) = Len(log) /\ v.q.kind \notin RealtimeKinds
  BY <1>2, <1>3, <1>9 DEF Latest, Spans
<1>12. Spans(new, log, booted)
  BY <1>2, <1>3, <1>9, <1>10, <1>11 DEF Spans
<1>13. Holds(new, log)
  BY <1>3, <1>6, <1>7, <1>9, <1>10, <1>11 DEF Holds
<1>14. Lists(new, log)
  <2> SUFFICES ASSUME v.q.kind \in Listing PROVE Lists(new, log)
    BY <1>10 DEF Lists, Whole
  <2>1. /\ v.listed \in v.since .. Len(log) /\ v.ids = ListOf(v.q, log[v.listed])
        /\ Elems(v.ids) \subseteq v.missing \cup DOMAIN v.results
    BY <1>2, <1>3 DEF Lists, Whole
  <2>2. ASSUME NEW id \in Elems(v.ids)
        PROVE  \/ id \in found \/ id \in DOMAIN v.results
               \/ v.q.kind \in PageKinds /\ \E k \in v.since .. Len(log) : ~Exists(log[k], id)
    BY <1>5, <1>7, <1>8, <2>1 DEF Listing
  <2>3. Covers(new, log, Len(log))
    BY <1>9, <1>10, <2>2 DEF Covers
  <2> QED BY <1>9, <1>10, <2>1, <2>3 DEF Lists, Whole
<1>15. Watches(new, log)
  BY <1>9 DEF Watches
<1> QED BY <1>2, <1>9, <1>12, <1>13, <1>14, <1>15, ReadsGood DEF Fine

\* What flatten_product makes of the rows it was given.
LEMMA FlatMade ==
    ASSUME NEW id, NEW x, NEW names, NEW values, NEW stocks, NEW guests,
           NEW flat,
           flat \in {[id |-> id, sku |-> x["row"], name |-> n, price |-> v, stock |-> s,
                      prices |-> x["index"], guest |-> g, links |-> x["links"]] :
                        n \in names, v \in values, s \in stocks, g \in guests}
    PROVE  /\ flat.id = id /\ flat.sku = x["row"] /\ flat.price \in values
           /\ flat.stock \in stocks
           /\ flat.prices = x["index"] /\ flat.guest \in guests /\ flat.links = x["links"]
OBVIOUS

LEMMA FlatFields ==
    ASSUME NEW id, NEW x, NEW flat \in Flattened(id, x)
    PROVE  /\ flat.id = id /\ flat.sku = x["row"]
           /\ flat.price \in Own(x["decimal"])
           /\ flat.stock \in OrElse(x["stock"], NoStock)
           /\ flat.prices = x["index"] /\ flat.guest \in GuestIndex(x["index"])
           /\ flat.links = x["links"]
<1>1. flat \in {[id |-> id, sku |-> x["row"], name |-> n, price |-> v, stock |-> s,
                 prices |-> x["index"], guest |-> g, links |-> x["links"]] :
        n \in OrElse(x["varchar"], NoText),
        v \in OrElse({d.value : d \in {d \in x["decimal"] : d.code = "price"}}, NoPrice),
        s \in OrElse(x["stock"], NoStock),
        g \in GuestIndex(x["index"])}
  BY DEF Flattened
<1> DEFINE names  == OrElse(x["varchar"], NoText)
           values == OrElse({d.value : d \in {d \in x["decimal"] : d.code = "price"}}, NoPrice)
           stocks == OrElse(x["stock"], NoStock)
           guests == GuestIndex(x["index"])
<1>2. flat \in {[id |-> id, sku |-> x["row"], name |-> n, price |-> v, stock |-> s,
                 prices |-> x["index"], guest |-> g, links |-> x["links"]] :
        n \in names, v \in values, s \in stocks, g \in guests}
  BY <1>1
<1> HIDE DEF names, values, stocks, guests
<1>3. /\ flat.id = id /\ flat.sku = x["row"] /\ flat.price \in values
      /\ flat.stock \in stocks
      /\ flat.prices = x["index"] /\ flat.guest \in guests /\ flat.links = x["links"]
  BY <1>2, FlatMade
<1> QED BY <1>3 DEF names, values, stocks, guests, Own

LEMMA FlattenedIs ==
    ASSUME NEW h, NEW id, NEW x, NEW lo, NEW hi, RowsOf(h, id, x, lo, hi),
           NEW flat \in Flattened(id, x)
    PROVE  FlatOf(h, id, flat, lo, hi)
<1>2. /\ flat.id = id /\ flat.sku = x["row"]
      /\ flat.price \in Own(x["decimal"])
      /\ flat.stock \in OrElse(x["stock"], NoStock)
      /\ flat.prices = x["index"] /\ flat.guest \in GuestIndex(x["index"])
      /\ flat.links = x["links"]
  BY FlatFields
<1>3. /\ \E k \in lo .. hi : x["row"] = h[k][id]["row"]
      /\ \E k \in lo .. hi : x["decimal"] = h[k][id]["decimal"]
      /\ \E k \in lo .. hi : x["stock"] = h[k][id]["stock"]
      /\ \E k \in lo .. hi : x["index"] = h[k][id]["index"]
      /\ \E k \in lo .. hi : x["links"] = h[k][id]["links"]
  BY DEF RowsOf, Part
<1>4. \E k \in lo .. hi :
         flat.price \in Own(h[k][id]["decimal"])
  <2>1. PICK k \in lo .. hi : x["decimal"] = h[k][id]["decimal"]
    BY <1>3
  <2>2. flat.price \in
          Own(h[k][id]["decimal"])
    BY <1>2, <2>1
  <2> QED BY <2>2
<1>5. \E k \in lo .. hi : flat.stock \in OrElse(h[k][id]["stock"], NoStock)
  BY <1>2, <1>3
<1>6. \E k \in lo .. hi : /\ flat.prices = h[k][id]["index"]
                          /\ flat.guest \in GuestIndex(h[k][id]["index"])
  BY <1>2, <1>3
<1>7. /\ \E k \in lo .. hi : h[k][id]["row"] = flat.sku
      /\ \E k \in lo .. hi : flat.links = h[k][id]["links"]
  BY <1>2, <1>3
<1> QED BY <1>2, <1>4, <1>5, <1>6, <1>7 DEF FlatOf

LEMMA PutGood ==
    ASSUME ViewInv, NEW r \in Request, Put(r)
    PROVE  Good(r)
<1> DEFINE v == view[r]
<1>1. PICK id \in v.missing : \E flat \in Flattened(id, v.rows[id]) :
         /\ View(r, [v EXCEPT !.missing = @ \ {id}, !.rows = [i \in DOMAIN @ \ {id} |-> @[i]],
                              !.results = With(@, id, flat)])
         /\ caches' = IF Bypass(v.q) THEN caches
                      ELSE With(caches, <<v.q.api, v.q.store, id>>, flat)
  BY DEF Put
<1>2. PICK flat \in Flattened(id, v.rows[id]) :
         /\ View(r, [v EXCEPT !.missing = @ \ {id}, !.rows = [i \in DOMAIN @ \ {id} |-> @[i]],
                              !.results = With(@, id, flat)])
         /\ caches' = IF Bypass(v.q) THEN caches
                      ELSE With(caches, <<v.q.api, v.q.store, id>>, flat)
  BY <1>1
<1> DEFINE left == v.missing \ {id}
           rows == [i \in DOMAIN v.rows \ {id} |-> v.rows[i]]
           res == With(v.results, id, flat)
           new == [v EXCEPT !.missing = left, !.rows = rows, !.results = res]
<1>3. /\ v.pc = "put" /\ UNCHANGED <<log, booted, cacheOn>>
  BY DEF Put
<1>4. /\ Spans(v, log, booted) /\ Holds(v, log) /\ DOMAIN v = Fields
      /\ Active(v) /\ v.lost = FALSE /\ v.boot = booted /\ booted <= v.since
      /\ v.since \in Nat \ {0} /\ v.since <= Len(log) /\ booted \in Nat \ {0}
      /\ v.q \in ViewQuery /\ Latest(v, log) = Len(log) /\ Len(log) \in v.since .. Len(log)
      /\ Lists(v, log)
  BY <1>3, InvIs, WorkIs DEF ViewEnded
<1>5. View(r, new)
  <2>1. [v EXCEPT !.missing = @ \ {id}, !.rows = [i \in DOMAIN @ \ {id} |-> @[i]],
                              !.results = With(@, id, flat)] = new
    BY <1>4 DEF Fields
  <2> QED BY <1>2, <2>1
<1>6. /\ id \in Id /\ id \notin v.hits /\ FlatOf(log, id, flat, v.since, Len(log))
  <2>1. id \in Id /\ id \notin v.hits /\ RowsOf(log, id, v.rows[id], v.since, Len(log))
    BY <1>3, <1>4 DEF Holds
  <2> QED BY <2>1, FlattenedIs
<1>7. /\ DOMAIN res = DOMAIN v.results \cup {id}
      /\ \A i \in DOMAIN res : res[i] = IF i = id THEN flat ELSE v.results[i]
      /\ DOMAIN rows = DOMAIN v.rows \ {id}
      /\ \A i \in DOMAIN rows : rows[i] = v.rows[i]
      /\ left = v.missing \ {id}
  BY DEF With
<1>8. CachesFine(caches', log, booted)
  <2>1. FlatOf(log, id, flat, booted, Len(log))
    <3>1. /\ \A k \in v.since .. Len(log) : k \in booted .. Len(log)
      BY <1>4
    <3> QED BY <1>6, <3>1 DEF FlatOf
  <2>2. CachesFine(caches, log, booted)
    BY InvIs
  <2> DEFINE key == <<v.q.api, v.q.store, id>>
  <2>3. key[3] = id
    OBVIOUS
  <2>4. caches' = caches \/ caches' = With(caches, key, flat)
    BY <1>2
  <2> HIDE DEF key
  <2>5. CachesFine(With(caches, key, flat), log, booted)
    BY <1>6, <2>1, <2>2, <2>3 DEF CachesFine, With
  <2> QED BY <2>2, <2>4, <2>5
<1> HIDE DEF v, left, rows, res
<1>9. /\ new.missing = left /\ new.rows = rows /\ new.results = res /\ DOMAIN new = Fields
      /\ \A f \in Fields \ {"missing", "rows", "results"} : new[f] = v[f]
  BY <1>4 DEF Fields
<1>10. /\ new.q = v.q /\ new.boot = v.boot /\ new.since = v.since /\ new.ids = v.ids
       /\ new.listed = v.listed /\ new.lost = v.lost /\ new.hits = v.hits /\ new.pc = "put"
  BY <1>3, <1>9 DEF Fields
<1> HIDE DEF new
<1>11. Latest(new, log) = Len(log) /\ v.q.kind \notin RealtimeKinds
  BY <1>3, <1>4, <1>10 DEF Latest, Spans
<1>12. Spans(new, log, booted)
  BY <1>3, <1>4, <1>9, <1>10, <1>11 DEF Spans
<1>13. Holds(new, log)
  <2>1. /\ left \subseteq Id /\ left \cap v.hits = {}
        /\ v.hits \subseteq DOMAIN res /\ DOMAIN res \subseteq Id
    BY <1>4, <1>6, <1>7 DEF Holds
  <2>2. ASSUME NEW i \in DOMAIN res
        PROVE  FlatOf(log, i, res[i], IF i \in v.hits THEN v.boot ELSE v.since, Len(log))
    <3>1. CASE i = id
      BY <1>6, <1>7, <3>1
    <3>2. CASE i # id
      BY <1>4, <1>7, <3>2 DEF Holds
    <3> QED BY <3>1, <3>2
  <2>3. ASSUME NEW i \in left
        PROVE  i \in DOMAIN rows /\ RowsOf(log, i, rows[i], v.since, Len(log))
    <3>1. i # id /\ i \in v.missing
      BY <1>7
    <3>2. i \in DOMAIN v.rows /\ RowsOf(log, i, v.rows[i], v.since, Len(log))
      BY <1>3, <1>4, <3>1 DEF Holds
    <3> QED BY <1>7, <3>1, <3>2
  <2> QED BY <1>9, <1>10, <1>11, <2>1, <2>2, <2>3 DEF Holds
<1>14. Lists(new, log)
  <2> SUFFICES ASSUME v.q.kind \in Listing PROVE Lists(new, log)
    BY <1>10 DEF Lists, Whole
  <2>1. /\ v.listed \in v.since .. Len(log) /\ v.ids = ListOf(v.q, log[v.listed])
        /\ Covers(v, log, Len(log))
    BY <1>3, <1>4 DEF Lists, Whole
  <2>2. Covers(new, log, Len(log))
    BY <1>7, <1>9, <1>10, <2>1 DEF Covers
  <2> QED BY <1>10, <2>1, <2>2 DEF Lists, Whole
<1>15. Watches(new, log)
  BY <1>10 DEF Watches
<1>16. Frame(r) /\ view'[r] = new
  BY <1>3, <1>5, <1>9, InvIs, ReadsOnly
<1> QED BY <1>3, <1>8, <1>12, <1>13, <1>14, <1>15, <1>16 DEF Good, Fine

LEMMA AnswerGood ==
    ASSUME ViewInv, NEW r \in Request, Answer(r)
    PROVE  Good(r)
<1> DEFINE v == view[r]
<1>1. /\ v.pc = "put" /\ v.missing = {} /\ UNCHANGED <<log, booted, cacheOn, caches>>
      /\ \/ \E status : View(r, Over(v, status)) \/ View(r, Broken(200))
  BY DEF Answer
<1>2. /\ Spans(v, log, booted) /\ DOMAIN v = Fields /\ v.pc \notin ViewEnded
      /\ Lists(v, log)
  BY <1>1, InvIs DEF ViewEnded
<1>3. ASSUME NEW status, View(r, Over(v, status))
      PROVE  Good(r)
  <2> DEFINE w == Over(v, status)
  <2>1. /\ DOMAIN w = Fields /\ w.pc = "ok" /\ w.until = Len(log)
        /\ w.q = v.q /\ w.since = v.since /\ w.ids = v.ids /\ w.missing = v.missing
        /\ w.results = v.results
    <3> HIDE DEF v
    <3> QED BY <1>2, OverFields
  <2>2. v.q.kind \notin RealtimeKinds
    BY <1>1, <1>2 DEF Spans
  <2>5. Lists(w, log)
    <3> HIDE DEF w
    <3> SUFFICES ASSUME v.q.kind \in Listing PROVE Lists(w, log)
      BY <2>1 DEF Lists, Whole
    <3>1. /\ v.listed \in v.since .. Len(log) /\ v.ids = ListOf(v.q, log[v.listed])
          /\ Covers(v, log, Len(log))
      BY <1>1, <1>2 DEF Lists, Whole
    <3>2. Covers(w, log, Len(log))
      BY <2>1, <3>1 DEF Covers
    <3> QED BY <1>1, <2>1, <3>1, <3>2 DEF Lists, Whole
  <2>6. Watches(w, log)
    BY <2>1, <2>2 DEF Watches
  <2> QED BY <1>1, <1>2, <1>3, <2>5, <2>6, OverFine, ReadsGood
<1>4. CASE View(r, Broken(200))
  BY <1>1, <1>4, BrokenFine, ReadsGood
<1> QED BY <1>1, <1>3, <1>4

LEMMA FailsGood ==
    ASSUME ViewInv, NEW r \in Request, ViewFails(r)
    PROVE  Good(r)
<1> DEFINE v == view[r]
<1>1. /\ UNCHANGED <<log, booted, cacheOn, caches>> /\ v.pc \notin ViewEnded
  BY DEF ViewFails, ViewEnded
<1>2. Spans(v, log, booted) /\ Holds(v, log) /\ Extends(log, log) /\ DOMAIN v = Fields
  BY InvIs
<1>3. CASE v.pc = "read" /\ v.q.kind \in PageKinds
  <2> DEFINE w == Over(v, 200)
             new == [w EXCEPT !.results = NoCache, !.hits = {}, !.lost = TRUE]
  <2>1. View(r, new)
    BY <1>3 DEF ViewFails
  <2>2. /\ DOMAIN w = Fields /\ w.pc = "ok" /\ w.until = Len(log)
        /\ \A f \in {"q", "boot", "since", "missing", "results", "hits"} : w[f] = v[f]
    <3> HIDE DEF v
    <3> QED BY <1>2, OverFields
  <2> HIDE DEF w, v
  <2>3. Spans(w, log, booted) /\ Holds(w, log)
    BY <1>1, <1>2, <2>2, Ends
  <2>4. /\ DOMAIN new = Fields /\ new.results = NoCache /\ new.hits = {} /\ new.lost = TRUE
        /\ new.pc = "ok" /\ new.until = w.until /\ new.q = w.q /\ new.boot = w.boot
        /\ new.since = w.since /\ new.missing = w.missing
    BY <2>2 DEF Fields
  <2> HIDE DEF new
  <2>5. Spans(new, log, booted)
    BY <2>2, <2>3, <2>4 DEF Spans, Latest, Active, ViewEnded
  <2>6. Holds(new, log)
    <3>1. DOMAIN NoCache = {}
      BY DEF NoCache
    <3> QED BY <2>3, <2>4, <3>1 DEF Holds
  <2>7. Lists(new, log)
    BY <1>3, <2>2, <2>4 DEF Lists, Whole
  <2>8. new.q.kind \notin RealtimeKinds
    BY <1>2, <1>3, <2>2, <2>4 DEF PageKinds, RealtimeKinds
  <2>9. Watches(new, log)
    BY <2>4, <2>8 DEF Watches
  <2> QED BY <1>1, <2>1, <2>4, <2>5, <2>6, <2>7, <2>9, ReadsGood DEF Fine
<1>4. CASE ~ (v.pc = "read" /\ v.q.kind \in PageKinds)
  <2>1. \E status : View(r, Broken(status))
    BY <1>4 DEF ViewFails
  <2> QED BY <1>1, <2>1, BrokenFine, ReadsGood
<1> QED BY <1>3, <1>4
-----------------------------------------------------------------------------
(* The realtime endpoints.                                                 *)

LEMMA LowestIs ==
    ASSUME NEW S \in SUBSET Nat
    PROVE  IF S \ {NoPrice} = {} THEN Lowest(S) = NoPrice
           ELSE Lowest(S) \in S \ {NoPrice} /\ \A x \in S \ {NoPrice} : Lowest(S) <= x
<1>1. CASE S \ {NoPrice} = {}
  <2>1. S \subseteq {NoPrice}
    BY <1>1
  <2> QED BY <1>1, <2>1 DEF Lowest
<1>2. CASE S \ {NoPrice} # {}
  <2> DEFINE T == S \ {NoPrice}
  <2>1. ~ (S \subseteq {NoPrice}) /\ T \in SUBSET Nat /\ T # {}
    BY <1>2
  <2>2. Lowest(S) = CHOOSE x \in T : \A y \in T : x <= y
    BY <2>1 DEF Lowest
  <2> HIDE DEF T
  <2>3. \E x \in T : \A y \in T : x <= y
    BY <2>1, LeastExists
  <2>4. Lowest(S) \in T /\ \A y \in T : Lowest(S) <= y
    BY <2>2, <2>3
  <2> QED BY <1>2, <2>4 DEF T
<1> QED BY <1>1, <1>2

LEMMA PricesAre ==
    ASSUME NEW d, Table(d), NEW id \in Id
    PROVE  Prices(d, id) \in SUBSET Nat
<1>1. Columns("decimal", d[id]["decimal"])
  BY DEF Table, Row, Part
<1> QED BY <1>1 DEF Columns, Prices

\* A step of a realtime request that goes on.
LEMMA JoinGood ==
    ASSUME ViewInv, NEW r \in Request, view[r].pc = "join", NEW new, View(r, new),
           DOMAIN new = Fields, new.pc = "join",
           \A f \in {"q", "boot", "since", "missing", "results", "hits", "lost"} :
              new[f] = view[r][f],
           Watches(new, log), UNCHANGED <<log, booted, cacheOn, caches>>
    PROVE  Good(r)
<1> DEFINE v == view[r]
<1>1. Spans(v, log, booted) /\ v.pc = "join" /\ Active(v) /\ Latest(v, log) = Len(log)
  BY InvIs, WorkIs DEF ViewEnded
<1>2. /\ new.q = v.q /\ new.boot = v.boot /\ new.since = v.since /\ new.missing = v.missing
      /\ new.results = v.results /\ new.hits = v.hits /\ new.lost = v.lost
  OBVIOUS
<1> HIDE DEF v
<1>3. v.results = NoCache /\ v.hits = {} /\ v.missing = {} /\ v.q.kind \in RealtimeKinds
  BY <1>1 DEF Spans
<1>4. Latest(new, log) = Latest(v, log)
  BY <1>1 DEF Latest
<1>5. Spans(new, log, booted)
  BY <1>1, <1>2, <1>3, <1>4 DEF Spans
<1>6. Holds(new, log)
  BY <1>2, <1>3, NothingHeld
<1>7. Lists(new, log)
  BY DEF Lists, Whole
<1> QED BY <1>5, <1>6, <1>7, ReadsGood DEF Fine

LEMMA LookupGood ==
    ASSUME ViewInv, NEW r \in Request, LookupSku(r)
    PROVE  Good(r)
<1> DEFINE v == view[r]
           carriers == {id \in Id : Db[id]["row"] = v.q.text}
<1>1. PICK id \in OrElse(carriers, 0) :
          View(r, [v EXCEPT !.carrier = id,
                     !.steps = (@ \ {"lookup"}) \cup (IF id = 0 THEN {} ELSE {"decimals"})])
  BY DEF LookupSku
<1> DEFINE steps == (v.steps \ {"lookup"}) \cup (IF id = 0 THEN {} ELSE {"decimals"})
           new == [v EXCEPT !.carrier = id, !.steps = steps]
<1>2. /\ v.pc = "join" /\ "lookup" \in v.steps /\ UNCHANGED <<log, booted, cacheOn, caches>>
  BY DEF LookupSku
<1>3. DOMAIN v = Fields /\ Watches(v, log) /\ Len(log) \in v.since .. Len(log)
  BY <1>2, InvIs, WorkIs DEF ViewEnded
<1>4. View(r, new)
  BY <1>1, <1>3 DEF Fields
<1>5. id \in carriers \/ (id = 0 /\ carriers = {})
  BY DEF OrElse
<1>6. /\ carriers = {i \in Id : log[Len(log)][i]["row"] = v.q.text}
      /\ carriers \subseteq Id /\ 0 \notin Id
  BY ViewAssumption DEF Db, Now, Id
<1>7. /\ "lookup" \notin steps
      /\ "decimals" \in steps <=> "decimals" \in v.steps \/ id # 0
      /\ "stock" \in steps <=> "stock" \in v.steps
  OBVIOUS
<1> HIDE DEF v, carriers, steps
<1>8. /\ DOMAIN new = Fields /\ new.carrier = id /\ new.steps = steps
      /\ \A f \in Fields \ {"carrier", "steps"} : new[f] = v[f]
  BY <1>3 DEF Fields
<1> HIDE DEF new
<1>9. /\ new.pc = "join" /\ new.q = v.q /\ new.since = v.since /\ new.price = v.price
      /\ new.stock = v.stock
      /\ \A f \in {"q", "boot", "since", "missing", "results", "hits", "lost"} : new[f] = v[f]
  BY <1>2, <1>8 DEF Fields
<1>10. v.q.kind # "stock" => v.price = NoPrice /\ "decimals" \notin v.steps
  BY <1>2, <1>3 DEF Watches
<1>11. v.q.kind # "price" => "stock" \in v.steps \/ StockSeen(v, log, Len(log))
  BY <1>2, <1>3 DEF Watches
<1>12. CASE id = 0
  <2>1. carriers = {}
    BY <1>5, <1>6, <1>12
  <2>2. v.q.kind # "stock" => PriceSeen(new, log, Len(log))
    BY <1>3, <1>6, <1>9, <1>10, <2>1 DEF PriceSeen
  <2>3. v.q.kind # "price" => "stock" \in steps \/ StockSeen(new, log, Len(log))
    BY <1>7, <1>9, <1>11 DEF StockSeen
  <2>4. Watches(new, log)
    BY <1>7, <1>8, <1>9, <1>10, <1>12, <2>2, <2>3 DEF Watches
  <2> QED BY <1>2, <1>4, <1>8, <1>9, <2>4, JoinGood DEF v
<1>13. CASE id # 0
  <2>1. id \in Id /\ log[Len(log)][id]["row"] = v.q.text
    BY <1>5, <1>6, <1>13
  <2>2. \E j \in new.since .. Len(log) : log[j][new.carrier]["row"] = new.q.text
    BY <1>3, <1>8, <1>9, <2>1
  <2>3. v.q.kind # "price" => "stock" \in steps \/ StockSeen(new, log, Len(log))
    BY <1>7, <1>9, <1>11 DEF StockSeen
  <2>4. Watches(new, log)
    BY <1>7, <1>8, <1>9, <1>13, <2>1, <2>2, <2>3 DEF Watches
  <2> QED BY <1>2, <1>4, <1>8, <1>9, <2>4, JoinGood DEF v
<1> QED BY <1>12, <1>13

LEMMA DecimalsGood ==
    ASSUME ViewInv, NEW r \in Request, SelectDecimals(r)
    PROVE  Good(r)
<1> DEFINE v == view[r]
           price == Lowest(Prices(Db, v.carrier))
           steps == v.steps \ {"decimals"}
           new == [v EXCEPT !.price = price, !.steps = steps]
<1>1. /\ v.pc = "join" /\ "decimals" \in v.steps /\ UNCHANGED <<log, booted, cacheOn, caches>>
      /\ View(r, [v EXCEPT !.price = Lowest(Prices(Db, v.carrier)),
                           !.steps = @ \ {"decimals"}])
  BY DEF SelectDecimals
<1>2. DOMAIN v = Fields /\ Watches(v, log) /\ Len(log) \in v.since .. Len(log)
      /\ Table(log[Len(log)])
  BY <1>1, InvIs, WorkIs, CurrentTable DEF ViewEnded, Db, Now
<1>3. View(r, new)
  BY <1>1, <1>2 DEF Fields
<1>4. price = Lowest(Prices(log[Len(log)], v.carrier))
  BY DEF Db, Now
<1>5. /\ "decimals" \notin steps
      /\ "stock" \in steps <=> "stock" \in v.steps
      /\ "lookup" \in steps <=> "lookup" \in v.steps
  OBVIOUS
<1> HIDE DEF v, price, steps
<1>6. /\ DOMAIN new = Fields /\ new.price = price /\ new.steps = steps
      /\ \A f \in Fields \ {"price", "steps"} : new[f] = v[f]
  BY <1>2 DEF Fields
<1> HIDE DEF new
<1>7. /\ new.pc = "join" /\ new.q = v.q /\ new.since = v.since /\ new.stock = v.stock
      /\ \A f \in {"q", "boot", "since", "missing", "results", "hits", "lost"} : new[f] = v[f]
  BY <1>1, <1>6 DEF Fields
<1>8. v.q.kind # "price" => "stock" \in steps \/ StockSeen(new, log, Len(log))
  <2>1. v.q.kind # "price" => "stock" \in v.steps \/ StockSeen(v, log, Len(log))
    BY <1>1, <1>2 DEF Watches
  <2> QED BY <1>5, <1>7, <2>1 DEF StockSeen
<1>9. v.q.kind # "stock" => "lookup" \notin v.steps /\ PriceSeen(new, log, Len(log))
  <2> SUFFICES ASSUME v.q.kind # "stock"
               PROVE  "lookup" \notin v.steps /\ PriceSeen(new, log, Len(log))
    OBVIOUS
  <2>1. /\ "lookup" \notin v.steps /\ v.carrier \in Id
        /\ \E j \in v.since .. Len(log) : log[j][v.carrier]["row"] = v.q.text
    BY <1>1, <1>2 DEF Watches
  <2>2. PICK j \in v.since .. Len(log) : log[j][v.carrier]["row"] = v.q.text
    BY <2>1
  <2> DEFINE k == Len(log)
             S == Prices(log[k], v.carrier)
  <2>3. S \in SUBSET Nat
    BY <1>2, <2>1, PricesAre
  <2>4. price = Lowest(S)
    BY <1>4
  <2> HIDE DEF S
  <2>5. IF S \ {NoPrice} = {} THEN price = NoPrice
        ELSE price \in S \ {NoPrice} /\ \A x \in S \ {NoPrice} : price <= x
    BY <2>3, <2>4, LowestIs
  <2>6. j <= k /\ k \in v.since .. Len(log)
    BY <1>2, <2>2
  <2>7. v.carrier \in {id \in Id : log[j][id]["row"] = v.q.text}
    BY <2>1, <2>2
  <2> QED BY <1>6, <1>7, <2>1, <2>5, <2>6, <2>7 DEF PriceSeen, S
<1>10. Watches(new, log)
  BY <1>5, <1>6, <1>7, <1>8, <1>9 DEF Watches
<1> QED BY <1>1, <1>3, <1>6, <1>7, <1>10, JoinGood DEF v

LEMMA StockGood ==
    ASSUME ViewInv, NEW r \in Request, SelectStock(r)
    PROVE  Good(r)
<1> DEFINE v == view[r]
<1>1. PICK s \in OrElse(StockOf(Db, v.q.text), NoStock) :
          View(r, [v EXCEPT !.stock = s, !.steps = @ \ {"stock"}])
  BY DEF SelectStock
<1> DEFINE steps == v.steps \ {"stock"}
           new == [v EXCEPT !.stock = s, !.steps = steps]
<1>2. /\ v.pc = "join" /\ "stock" \in v.steps /\ UNCHANGED <<log, booted, cacheOn, caches>>
  BY DEF SelectStock
<1>3. DOMAIN v = Fields /\ Watches(v, log) /\ Len(log) \in v.since .. Len(log)
  BY <1>2, InvIs, WorkIs DEF ViewEnded
<1>4. View(r, new)
  BY <1>1, <1>3 DEF Fields
<1>5. s \in OrElse(StockOf(log[Len(log)], v.q.text), NoStock)
  BY DEF Db, Now
<1>6. /\ "decimals" \in steps <=> "decimals" \in v.steps
      /\ "lookup" \in steps <=> "lookup" \in v.steps
  OBVIOUS
<1> HIDE DEF v, steps
<1>7. /\ DOMAIN new = Fields /\ new.stock = s /\ new.steps = steps
      /\ \A f \in Fields \ {"stock", "steps"} : new[f] = v[f]
  BY <1>3 DEF Fields
<1> HIDE DEF new
<1>8. /\ new.pc = "join" /\ new.q = v.q /\ new.since = v.since /\ new.price = v.price
      /\ new.carrier = v.carrier
      /\ \A f \in {"q", "boot", "since", "missing", "results", "hits", "lost"} : new[f] = v[f]
  BY <1>2, <1>7 DEF Fields
<1>9. StockSeen(new, log, Len(log))
  BY <1>3, <1>5, <1>7, <1>8 DEF StockSeen
<1>10. PriceSeen(v, log, Len(log)) => PriceSeen(new, log, Len(log))
  BY <1>8 DEF PriceSeen
<1>11. Watches(new, log)
  BY <1>2, <1>3, <1>6, <1>7, <1>8, <1>9, <1>10 DEF Watches
<1> QED BY <1>2, <1>4, <1>7, <1>8, <1>11, JoinGood DEF v

LEMMA JoinEndsGood ==
    ASSUME ViewInv, NEW r \in Request, JoinEnds(r)
    PROVE  Good(r)
<1> DEFINE v == view[r]
<1>1. PICK status : View(r, Over(v, status))
  BY DEF JoinEnds
<1>2. /\ v.pc = "join" /\ v.steps = {} /\ UNCHANGED <<log, booted, cacheOn, caches>>
  BY DEF JoinEnds
<1>3. /\ DOMAIN v = Fields /\ Watches(v, log) /\ Spans(v, log, booted)
      /\ v.pc \notin ViewEnded
  BY <1>2, InvIs DEF ViewEnded
<1> DEFINE w == Over(v, status)
<1>4. /\ w.pc = "ok" /\ w.until = Len(log) /\ w.q = v.q /\ w.since = v.since
      /\ w.price = v.price /\ w.stock = v.stock
  <2> HIDE DEF v
  <2> QED BY <1>3, OverFields
<1>5. v.q.kind \in RealtimeKinds
  BY <1>2, <1>3 DEF Spans
<1>6. Lists(w, log)
  <2>1. v.q.kind \notin Listing
    BY <1>5 DEF RealtimeKinds, Listing, PageKinds
  <2> QED BY <1>4, <2>1 DEF Lists, Whole
<1>7. Watches(w, log)
  <2> HIDE DEF w, v
  <2>1. /\ v.q.kind # "stock" => PriceSeen(v, log, Len(log))
        /\ v.q.kind # "price" => StockSeen(v, log, Len(log))
    BY <1>2, <1>3 DEF Watches
  <2>2. /\ PriceSeen(v, log, Len(log)) => PriceSeen(w, log, w.until)
        /\ StockSeen(v, log, Len(log)) => StockSeen(w, log, w.until)
    BY <1>4 DEF PriceSeen, StockSeen
  <2> QED BY <1>4, <2>1, <2>2 DEF Watches
<1> QED BY <1>1, <1>2, <1>3, <1>6, <1>7, OverFine, ReadsGood

-----------------------------------------------------------------------------
(* The writers.                                                            *)

\* A REST call that wrote the table d.
LEMMA WroteGood ==
    ASSUME ViewInv, NEW r \in Request, view[r].pc = "write",
           view[r].q.kind \in {"post", "put", "delete"},
           NEW d, Table(d), Written(d), NEW status,
           View(r, [view[r] EXCEPT !.pc = "ok", !.until = Now + 1, !.status = status]),
           UNCHANGED <<booted, cacheOn, caches>>
    PROVE  Good(r)
<1> DEFINE v == view[r]
           until == Now + 1
           new == [v EXCEPT !.pc = "ok", !.until = until, !.status = status]
<1>1. /\ Spans(v, log, booted) /\ Holds(v, log) /\ DOMAIN v = Fields
      /\ v.pc \notin ViewEnded /\ v.q.kind \in {"post", "put", "delete"}
  BY InvIs DEF ViewEnded
<1>2. View(r, new) /\ until = Len(log) + 1
  BY DEF Now
<1> HIDE DEF v, until
<1>3. /\ DOMAIN new = Fields /\ new.pc = "ok" /\ new.until = until
      /\ \A f \in Fields \ {"pc", "until", "status"} : new[f] = v[f]
  BY <1>1 DEF Fields
<1> HIDE DEF new
<1>4. \A f \in {"q", "boot", "since", "missing", "results", "hits"} : new[f] = v[f]
  BY <1>3 DEF Fields
<1>5. Frame(r) /\ view'[r] = new /\ Len(log') = Len(log) + 1
  BY <1>2, <1>3, InvIs, WritesOnce
<1>6. Spans(new, log', booted) /\ Holds(new, log')
  <2>1. Extends(log', log) /\ new.until = Len(log')
    BY <1>2, <1>3, <1>5 DEF Frame
  <2> QED BY <1>1, <1>3, <1>4, <2>1, Ends
<1>7. Lists(new, log') /\ Watches(new, log')
  <2>1. new.q.kind \notin Listing /\ new.q.kind \notin RealtimeKinds
    BY <1>1, <1>4 DEF Listing, PageKinds, RealtimeKinds
  <2> QED BY <1>3, <2>1 DEF Lists, Whole, Watches
<1>8. CachesFine(caches', log', booted)
  BY <1>5, InvIs, CachesLater DEF Frame
<1> QED BY <1>5, <1>6, <1>7, <1>8 DEF Good, Fine

LEMMA WriteGood ==
    ASSUME ViewInv, NEW r \in Request, RestCreate(r) \/ RestUpdate(r) \/ RestDelete(r)
    PROVE  Good(r)
<1> DEFINE v == view[r]
           w == [v EXCEPT !.pc = "ok", !.until = Now + 1]
<1>1. /\ v.pc = "write" /\ v.q.kind \in {"post", "put", "delete"}
      /\ UNCHANGED <<booted, cacheOn, caches>>
  BY DEF RestCreate, RestUpdate, RestDelete
<1>2. Table(Db) /\ DOMAIN v = Fields
  BY InvIs, CurrentTable
<1>3. \A p \in Part : Columns(p, {}) /\ \A x : Columns("row", x)
  BY NoRows
<1>4. \A id \in Id : \A x : Table([Db EXCEPT ![id]["row"] = x])
  BY <1>2, <1>3, TableWritten DEF Part
<1>5. ASSUME NEW status, View(r, Over(v, status)), UNCHANGED log
      PROVE  Good(r)
  <2>1. Over(v, status).q = v.q
    <3> HIDE DEF v
    <3> QED BY <1>2, OverFields
  <2>2. Lists(Over(v, status), log) /\ Watches(Over(v, status), log)
    <3>1. Over(v, status).pc = "ok"
      <4> HIDE DEF v
      <4> QED BY <1>2, OverFields
    <3>2. v.q.kind \notin Listing /\ v.q.kind \notin RealtimeKinds
      BY <1>1 DEF Listing, PageKinds, RealtimeKinds
    <3> QED BY <2>1, <3>1, <3>2 DEF Lists, Whole, Watches
  <2> QED BY <1>1, <1>5, <2>2, OverFine, ReadsGood DEF ViewEnded
<1>6. CASE RestCreate(r)
  <2>1. PICK id \in Id : Written([Db EXCEPT ![id]["row"] = v.q.text])
    BY <1>6 DEF RestCreate
  <2>2. View(r, [v EXCEPT !.pc = "ok", !.until = Now + 1, !.status = 201])
    BY <1>6 DEF RestCreate
  <2> QED BY <1>1, <1>4, <2>1, <2>2, WroteGood
<1>7. CASE RestUpdate(r)
  <2> DEFINE id == v.q.ids[1]
  <2>1. CASE Exists(Db, id)
    <3>1. /\ Written([Db EXCEPT ![id]["row"] = v.q.text])
          /\ View(r, [v EXCEPT !.pc = "ok", !.until = Now + 1, !.status = 200])
      BY <1>7, <2>1 DEF RestUpdate
    <3>2. id \in Id
      BY <2>1 DEF Exists
    <3> QED BY <1>1, <1>4, <3>1, <3>2, WroteGood
  <2>2. CASE ~Exists(Db, id)
    <3>1. View(r, Over(v, 404)) /\ UNCHANGED log
      BY <1>7, <2>2 DEF RestUpdate
    <3> QED BY <1>5, <3>1
  <2> QED BY <2>1, <2>2
<1>8. CASE RestDelete(r)
  <2> DEFINE id == v.q.ids[1]
  <2>1. CASE Exists(Db, id)
    <3>0. id \in Id
      BY <2>1 DEF Exists
    <3>1. PICK cascade \in BOOLEAN :
            Written([Db EXCEPT ![id] = [p \in Part |->
                            IF p = "row" THEN NoSku
                            ELSE IF cascade THEN {} ELSE @[p]]])
      BY <1>8, <2>1 DEF RestDelete
    <3>2. View(r, [v EXCEPT !.pc = "ok", !.until = Now + 1, !.status = 204])
      BY <1>8, <2>1 DEF RestDelete
    <3> DEFINE x == [p \in Part |-> IF p = "row" THEN NoSku
                                    ELSE IF cascade THEN {} ELSE Db[id][p]]
               d == [Db EXCEPT ![id] = x]
    <3>3. Written(d)
      BY <1>2, <3>0, <3>1 DEF Table
    <3>4. Row(x)
      <4>1. \A p \in Part : Columns(p, Db[id][p])
        BY <1>2, <3>0 DEF Table, Row
      <4>2. \A p \in Part : Columns(p, x[p])
        BY <1>3, <4>1
      <4> QED BY <4>2 DEF Row
    <3> HIDE DEF x
    <3>5. Table(d)
      BY <1>2, <3>0, <3>4 DEF Table
    <3> HIDE DEF d
    <3> QED BY <1>1, <3>2, <3>3, <3>5, WroteGood
  <2>2. CASE ~Exists(Db, id)
    <3>1. View(r, Over(v, 404)) /\ UNCHANGED log
      BY <1>8, <2>2 DEF RestDelete
    <3> QED BY <1>5, <3>1
  <2> QED BY <2>1, <2>2
<1> QED BY <1>6, <1>7, <1>8

-----------------------------------------------------------------------------
(* The invariant.                                                          *)

LEMMA StepGood ==
    ASSUME ViewInv, NEW r \in Request, ViewStep(r)
    PROVE  Good(r)
BY ListGood, FindGood, ProbeGood, ReadGood, PutGood, AnswerGood, FailsGood, LookupGood,
   DecimalsGood, StockGood, JoinEndsGood, WriteGood DEF ViewStep

LEMMA GoodKeeps ==
    ASSUME ViewInv, NEW r \in Request, Good(r)
    PROVE  ViewInv'
<1>1. Frame(r) /\ CachesFine(caches', log', booted) /\ Fine(view'[r], log', booted)
  BY DEF Good
<1>2. ASSUME NEW s \in Request \ {r}
      PROVE  Fine(view'[s], log', booted) /\ DOMAIN view'[s] = Fields
  <2>1. Fine(view[s], log, booted) /\ DOMAIN view[s] = Fields
    BY DEF ViewInv, Shape
  <2>2. view'[s] = view[s] /\ Extends(log', log)
    BY <1>1 DEF Frame
  <2> QED BY <2>1, <2>2, FineLater
<1>3. Shape'
  <2>1. booted \in 1 .. Len(log')
    BY <1>1, InvIs DEF Frame, Extends
  <2> QED BY <1>1, <1>2, <2>1 DEF Shape, Frame
<1>4. booted' = booted
  BY <1>1 DEF Frame
<1> QED BY <1>1, <1>2, <1>3, <1>4 DEF ViewInv

LEMMA ChangeKeeps ==
    ASSUME ViewInv, NEW id \in Id, NEW p \in Part, NEW x \in Contents[<<id, p>>],
           Change(id, p, x)
    PROVE  ViewInv'
<1>1. Written([Db EXCEPT ![id][p] = x]) /\ UNCHANGED <<booted, cacheOn, caches, view>>
  BY DEF Change
<1>2. Table([Db EXCEPT ![id][p] = x])
  <2>1. Columns(p, x)
    BY ViewAssumption
  <2> QED BY <2>1, InvIs, CurrentTable, TableWritten
<1>3. Log(log') /\ Extends(log', log)
  BY <1>1, <1>2, InvIs, WrittenExtends DEF Written
<1>4. CachesFine(caches', log', booted')
  BY <1>1, <1>3, InvIs, CachesLater
<1>5. \A r \in Request : Fine(view'[r], log', booted')
  <2> TAKE r \in Request
  <2>1. Fine(view[r], log, booted)
    BY DEF ViewInv
  <2> QED BY <1>1, <1>3, <2>1, FineLater
<1>6. Shape'
  <2>1. booted \in 1 .. Len(log')
    BY <1>3, InvIs DEF Extends
  <2> QED BY <1>1, <1>3, <2>1 DEF ViewInv, Shape
<1> QED BY <1>4, <1>5, <1>6 DEF ViewInv

LEMMA CrashKeeps ==
    ASSUME ViewInv, ViewCrash
    PROVE  ViewInv'
<1>1. /\ caches' = NoCache /\ booted' = Len(log) /\ UNCHANGED <<log, cacheOn>>
      /\ view' = [r \in Request |-> IF view[r].pc \in ViewEnded THEN view[r]
                                    ELSE [NoRequest EXCEPT !.pc = "gone"]]
  BY DEF ViewCrash, Now
<1>2. CachesFine(caches', log', booted')
  BY <1>1 DEF CachesFine, NoCache
<1>3. ASSUME NEW r \in Request
      PROVE  Fine(view'[r], log, Len(log)) /\ DOMAIN view'[r] = Fields
  <2>1. CASE view[r].pc \in ViewEnded
    <3> DEFINE v == view[r]
    <3>1. view'[r] = v /\ v.pc \in ViewEnded
      BY <1>1, <2>1
    <3>2. Fine(v, log, booted) /\ DOMAIN v = Fields
      BY DEF ViewInv, Shape
    <3> HIDE DEF v
    <3>3. v.pc \notin {"list", "probe", "read", "put", "join", "write"}
      BY <3>1 DEF ViewEnded
    <3>4. Spans(v, log, Len(log))
      BY <3>1, <3>2, <3>3 DEF Fine, Spans
    <3> QED BY <3>1, <3>2, <3>4 DEF Fine
  <2>2. CASE view[r].pc \notin ViewEnded
    <3> DEFINE w == [NoRequest EXCEPT !.pc = "gone"]
    <3>1. view'[r] = w
      BY <1>1, <2>2
    <3>2. /\ DOMAIN w = Fields /\ w.pc = "gone"
          /\ \A f \in Fields \ {"pc", "status"} : w[f] = NoRequest[f]
      BY NoRequestFields DEF Fields
    <3> HIDE DEF w
    <3> QED BY <3>1, <3>2, Inactive
  <2> QED BY <2>1, <2>2
<1>4. Shape'
  <2>1. Len(log) \in 1 .. Len(log) /\ Log(log)
    BY InvIs
  <2> QED BY <1>1, <1>3, <2>1 DEF Shape
<1> QED BY <1>1, <1>2, <1>3, <1>4 DEF ViewInv

LEMMA ViewInitInv == ViewInit => ViewInv
<1> SUFFICES ASSUME ViewInit PROVE ViewInv
  OBVIOUS
<1>1. PICK d \in FirstDb : log = <<d>>
  BY DEF ViewInit
<1>2. /\ booted = 1 /\ caches = NoCache /\ view = [r \in Request |-> NoRequest]
  BY DEF ViewInit
<1>3. Log(log) /\ Len(log) = 1
  <2>1. Table(d)
    BY ViewAssumption DEF Table
  <2>2. log \in Seq({d}) /\ Len(log) = 1 /\ log[1] = d
    BY <1>1
  <2>3. \A k \in 1 .. Len(log) : Table(log[k])
    BY <2>1, <2>2
  <2> QED BY <2>2, <2>3 DEF Log
<1>4. Shape
  BY <1>2, <1>3, NoRequestFields DEF Shape
<1>5. CachesFine(caches, log, booted)
  BY <1>2 DEF CachesFine, NoCache
<1>6. \A r \in Request : Fine(view[r], log, booted)
  BY <1>2, IdleFine
<1> QED BY <1>4, <1>5, <1>6 DEF ViewInv

LEMMA ViewStepInv ==
    ASSUME ViewInv, [ViewNext]_viewVars
    PROVE  ViewInv'
<1>1. ASSUME NEW r \in Request, ViewStep(r)
      PROVE  ViewInv'
  BY <1>1, StepGood, GoodKeeps
<1>2. ASSUME NEW r \in Request, NEW q \in ViewQuery, AskView(r, q)
      PROVE  ViewInv'
  BY <1>2, AskGood, GoodKeeps
<1>3. ASSUME NEW id \in Id, NEW p \in Part, NEW x \in Contents[<<id, p>>], Change(id, p, x)
      PROVE  ViewInv'
  BY <1>3, ChangeKeeps
<1>4. ASSUME ViewCrash
      PROVE  ViewInv'
  BY <1>4, CrashKeeps
<1>5. ASSUME UNCHANGED viewVars
      PROVE  ViewInv'
  BY <1>5 DEF viewVars, ViewInv, Shape
<1> QED BY <1>1, <1>2, <1>3, <1>4, <1>5 DEF ViewNext

\* The inductive invariant of the views: what each request has seen, by the
\* log of the database, and what the caches hold since the server started,
\* for any queries, writes, crashes and number of requests.
THEOREM ViewInvariant == ViewSpec => []ViewInv
<1>1. ViewInit => ViewInv
  BY ViewInitInv
<1>2. ViewInv /\ [ViewNext]_viewVars => ViewInv'
  BY ViewStepInv
<1> QED BY <1>1, <1>2, PTL DEF ViewSpec

-----------------------------------------------------------------------------
(* What the answers show.                                                  *)

\* A realtime price is the lowest price, NULLs aside, of a product that carried
\* the sku at a moment of the request, and a stock is that of such a product
\* (crates/api-realtime), however many imports, REST calls and crashes there
\* were between the SELECTs of the request.
THEOREM RealtimeAnswersAreRecent == ViewSpec => []RealtimeIsRecent
<1>1. ViewInv => RealtimeIsRecent
  <2> SUFFICES ASSUME ViewInv, NEW r \in Request,
                      view[r].pc = "ok", view[r].q.kind \in {"price", "stock", "both"}
               PROVE  /\ view[r].q.kind # "stock" => PriceSeen(view[r], log, view[r].until)
                      /\ view[r].q.kind # "price" => StockSeen(view[r], log, view[r].until)
    BY DEF RealtimeIsRecent, PriceSeen, StockSeen
  <2> QED BY InvIs DEF Watches, RealtimeKinds
<1> QED BY <1>1, ViewInvariant, PTL

\* The ids of a request are a list of numbers.
IdsInv == \A r \in Request : view[r].ids \in Seq(Nat)

LEMMA IdsKept ==
    ASSUME ViewInv, IdsInv, [ViewNext]_viewVars
    PROVE  IdsInv'
<1>0. /\ DOMAIN view = Request
      /\ \A r \in Request : DOMAIN view[r] = Fields /\ view[r].ids \in Seq(Nat)
      /\ NoRequest.ids \in Seq(Nat) /\ DOMAIN NoRequest = Fields
  BY InvIs, NoRequestFields DEF Shape, IdsInv, NoRequest
<1>1. ASSUME NEW r \in Request, NEW new, View(r, new), new.ids \in Seq(Nat)
      PROVE  IdsInv'
  BY <1>0, <1>1 DEF View, IdsInv
<1>2. \A r \in Request : \A status :
        Over(view[r], status).ids \in Seq(Nat) /\ Broken(status).ids \in Seq(Nat)
  <2> TAKE r \in Request
  <2> TAKE status
  <2> DEFINE v == view[r]
  <2>1. DOMAIN v = Fields /\ v.ids \in Seq(Nat)
    BY <1>0
  <2> HIDE DEF v
  <2>2. Over(v, status).ids = v.ids
    BY <2>1, OverFields
  <2>3. Broken(status).ids = NoRequest.ids
    BY <1>0 DEF Broken, Fields
  <2> QED BY <1>0, <2>1, <2>2, <2>3 DEF v
<1>3. ASSUME NEW r \in Request, NEW ids \in Seq(Nat), Found(r, ids)
      PROVE  IdsInv'
  <2> DEFINE new == [view[r] EXCEPT !.pc = IF ids = <<>> THEN "put" ELSE "probe",
                                    !.ids = ids, !.listed = Now]
  <2>1. View(r, new)
    BY <1>3 DEF Found
  <2>2. new.ids = ids
    BY <1>0 DEF Fields
  <2> HIDE DEF new
  <2> QED BY <1>1, <2>1, <2>2
<1>4. ASSUME NEW r \in Request, ViewStep(r)
      PROVE  IdsInv'
  <2> DEFINE v == view[r]
  <2>0. v.pc \notin ViewEnded => v.q \in ViewQuery
    BY WorkIs
  <2>1. \A S : InOrder(S) \in Seq(Nat) /\ Rising(InOrder(S))
    BY InOrderIs
  <2>2. ASSUME v.pc = "list"
        PROVE  AllIds(v.q) \in Seq(Nat)
    <3>1. Query(v.q)
      BY <2>0, <2>2, ViewAssumption DEF ViewEnded
    <3>2. Limit(v.q) \in Nat
      BY <3>1 DEF Limit, Query
    <3> QED BY <2>1, <3>2, LimitedIs DEF AllIds
  <2>3. CASE ListCategory(r)
    <3>1. GridPage(InOrder(Linked(Db, v.q)), v.q) \in Seq(Nat)
      BY <2>0, <2>1, <2>3, GridPageIs DEF ListCategory, ViewEnded
    <3> QED BY <1>3, <2>3, <3>1 DEF ListCategory
  <2>4. CASE ListSearch(r)
    <3>1. GridPage(InOrder(Hits(Db, v.q.text)), v.q) \in Seq(Nat)
      BY <2>0, <2>1, <2>4, GridPageIs DEF ListSearch, ViewEnded
    <3>2. CASE v.q.text = NoText
      <4>1. Found(r, <<>>) /\ <<>> \in Seq(Nat)
        BY <2>4, <3>2 DEF ListSearch
      <4> QED BY <1>3, <4>1
    <3>3. CASE v.q.text # NoText
      <4>1. Found(r, GridPage(InOrder(Hits(Db, v.q.text)), v.q))
        BY <2>4, <3>3 DEF ListSearch
      <4> QED BY <1>3, <3>1, <4>1
    <3> QED BY <3>2, <3>3
  <2>5. CASE ListFlat(r)
    BY <1>3, <2>2, <2>5 DEF ListFlat
  <2>6. CASE FindAll(r)
    <3> DEFINE w == Over(v, 200)
               new == [w EXCEPT !.ids = AllIds(v.q)]
    <3>1. View(r, new) /\ AllIds(v.q) \in Seq(Nat)
      BY <2>2, <2>6 DEF FindAll
    <3>2. DOMAIN w = Fields
      BY <1>0 DEF Over
    <3>3. new.ids = AllIds(v.q)
      <4> HIDE DEF w
      <4> QED BY <3>2 DEF Fields
    <3> HIDE DEF new
    <3> QED BY <1>1, <3>1, <3>3
  <2>7. CASE FindById(r) \/ Answer(r) \/ JoinEnds(r)
    <3>1. \E status : View(r, Over(v, status)) \/ View(r, Broken(status))
      BY <2>7 DEF FindById, Answer, JoinEnds
    <3> QED BY <1>1, <1>2, <3>1
  <2>8. CASE ViewFails(r)
    <3>1. CASE v.pc = "read" /\ v.q.kind \in PageKinds
      <4> DEFINE w == Over(v, 200)
                 new == [w EXCEPT !.results = NoCache, !.hits = {}, !.lost = TRUE]
      <4>1. View(r, new)
        BY <2>8, <3>1 DEF ViewFails
      <4>2. DOMAIN w = Fields /\ w.ids \in Seq(Nat)
        BY <1>0, <1>2 DEF Over
      <4> HIDE DEF w
      <4>3. new.ids = w.ids
        BY <4>2 DEF Fields
      <4> HIDE DEF new
      <4> QED BY <1>1, <4>1, <4>2, <4>3
    <3>2. CASE ~ (v.pc = "read" /\ v.q.kind \in PageKinds)
      <4>1. \E status : View(r, Broken(status))
        BY <2>8, <3>2 DEF ViewFails
      <4> QED BY <1>1, <1>2, <4>1
    <3> QED BY <3>1, <3>2
  <2>9. CASE Probe(r)
    <3> DEFINE hit == {id \in Elems(v.ids) : Cached(v.q, id)}
               out == (Elems(v.ids) \ hit) \cap Id
               pc  == IF out = {} THEN "put" ELSE "read"
               res == [id \in hit |-> caches[<<v.q.api, v.q.store, id>>]]
               new == [v EXCEPT !.pc = pc, !.probed = Now, !.results = res,
                                !.hits = hit, !.missing = out]
    <3>1. View(r, new)
      BY <2>9 DEF Probe
    <3> HIDE DEF hit, out, pc, res
    <3>2. new.ids = v.ids
      BY <1>0 DEF Fields
    <3> HIDE DEF new
    <3> QED BY <1>0, <1>1, <3>1, <3>2
  <2>12. CASE Read(r)
    <3>1. PICK missing, rows :
            View(r, [v EXCEPT !.pc = "put", !.missing = missing, !.rows = rows])
      BY <2>12 DEF Read
    <3>2. [v EXCEPT !.pc = "put", !.missing = missing, !.rows = rows].ids = v.ids
      BY <1>0 DEF Fields
    <3> QED BY <1>0, <1>1, <3>1, <3>2
  <2>13. CASE Put(r)
    <3>1. PICK id \in v.missing : \E flat \in Flattened(id, v.rows[id]) :
            View(r, [v EXCEPT !.missing = @ \ {id},
                              !.rows = [i \in DOMAIN @ \ {id} |-> @[i]],
                              !.results = With(@, id, flat)])
      BY <2>13 DEF Put
    <3>2. PICK flat :
            View(r, [v EXCEPT !.missing = @ \ {id},
                              !.rows = [i \in DOMAIN @ \ {id} |-> @[i]],
                              !.results = With(@, id, flat)])
      BY <3>1
    <3> DEFINE missing == v.missing \ {id}
               rows == [i \in DOMAIN v.rows \ {id} |-> v.rows[i]]
               results == With(v.results, id, flat)
               new == [v EXCEPT !.missing = missing, !.rows = rows, !.results = results]
    <3>3. View(r, new)
      BY <1>0, <3>2 DEF Fields
    <3> HIDE DEF missing, rows, results
    <3>4. new.ids = v.ids
      BY <1>0 DEF Fields
    <3> HIDE DEF new
    <3> QED BY <1>0, <1>1, <3>3, <3>4
  <2>10. CASE LookupSku(r) \/ SelectDecimals(r) \/ SelectStock(r)
    BY <1>0, <2>10 DEF LookupSku, SelectDecimals, SelectStock, View, IdsInv, Fields
  <2>11. CASE RestCreate(r) \/ RestUpdate(r) \/ RestDelete(r)
    <3>1. \/ \E status : View(r, Over(v, status))
          \/ \E status : View(r, [v EXCEPT !.pc = "ok", !.until = Now + 1, !.status = status])
      BY <2>11 DEF RestCreate, RestUpdate, RestDelete
    <3>2. \A status : [v EXCEPT !.pc = "ok", !.until = Now + 1, !.status = status].ids = v.ids
      BY <1>0 DEF Fields
    <3> QED BY <1>0, <1>1, <1>2, <3>1, <3>2
  <2> QED BY <1>4, <2>3, <2>4, <2>5, <2>6, <2>7, <2>8, <2>9, <2>10, <2>11,
            <2>12, <2>13 DEF ViewStep
<1>5. ASSUME NEW r \in Request, NEW q \in ViewQuery, AskView(r, q)
      PROVE  IdsInv'
  <2>1. q.ids \in Seq(Nat)
    BY ViewAssumption DEF Query
  <2> DEFINE pc == FirstStep(q)
             steps == FirstSelects(q)
             new == [view[r] EXCEPT !.pc = pc, !.q = q, !.since = Now,
                               !.boot = booted, !.ids = q.ids, !.steps = steps]
  <2>2. View(r, new)
    BY <1>5 DEF AskView
  <2> HIDE DEF pc, steps
  <2>3. new.ids = q.ids
    BY <1>0 DEF Fields
  <2> HIDE DEF new
  <2> QED BY <1>1, <2>1, <2>2, <2>3
<1>6. ASSUME ViewCrash
      PROVE  IdsInv'
  <2>1. [NoRequest EXCEPT !.pc = "gone"].ids = NoRequest.ids
    BY <1>0 DEF Fields
  <2> QED BY <1>0, <1>6, <2>1 DEF ViewCrash, IdsInv
<1>7. ASSUME UNCHANGED view
      PROVE  IdsInv'
  BY <1>7 DEF IdsInv
<1> QED BY <1>4, <1>5, <1>6, <1>7 DEF ViewNext, Change, viewVars

LEMMA IdsInvariant == ViewSpec => []IdsInv
<1>1. ViewInit => IdsInv
  <2>1. NoRequest.ids \in Seq(Nat)
    BY DEF NoRequest
  <2> QED BY <2>1 DEF ViewInit, IdsInv
<1>2. ViewInv /\ IdsInv /\ [ViewNext]_viewVars => IdsInv'
  BY IdsKept
<1> QED BY <1>1, <1>2, ViewInvariant, PTL DEF ViewSpec

-----------------------------------------------------------------------------
(* What is shown.                                                          *)

LEMMA ShownIs ==
    ASSUME ViewInv, IdsInv, NEW r \in Request, Answered(r)
    PROVE  /\ Elems(Shown(r)) \subseteq Elems(view[r].ids) \cap DOMAIN view[r].results
           /\ view[r].q.kind \in {"products", "magentoProducts"} =>
                \A id \in Elems(Shown(r)) : Filtered(view[r].q, view[r].results[id])
           /\ view[r].q.kind \in PageKinds =>
                Shown(r) = Kept(view[r].ids, DOMAIN view[r].results)
           /\ view[r].q.kind = "product" =>
                LET found == Kept(view[r].ids, {id \in DOMAIN view[r].results :
                                                  LookedUp(view[r].q, view[r].results[id])}) IN
                Shown(r) = SubSeq(found, 1, AtMost(1, Len(found)))
<1> DEFINE v == view[r]
           filtered == {id \in DOMAIN v.results : Filtered(v.q, v.results[id])}
           lookedUp == {id \in DOMAIN v.results : LookedUp(v.q, v.results[id])}
<1>1. v.ids \in Seq(Nat) /\ v.q \in ViewQuery
  BY InvIs DEF IdsInv, Answered, Spans, Active
<1>2. Query(v.q)
  BY <1>1, ViewAssumption
<1>3. ASSUME NEW S
      PROVE  Kept(v.ids, S) \in Seq(Nat) /\ Elems(Kept(v.ids, S)) = Elems(v.ids) \cap S
  BY <1>1, KeptIsSome
<1>4. CASE v.q.kind \in {"products", "magentoProducts"}
  <2> DEFINE s == Kept(v.ids, filtered)
             p == QueryPage(Len(s), v.q.size, v.q.page)
  <2>1. Shown(r) = SubSeq(s, p.start + 1, p.end)
    BY <1>4 DEF Shown, QuerySlice
  <2>2. s \in Seq(Nat) /\ Elems(s) = Elems(v.ids) \cap filtered
    BY <1>3
  <2>3. p.start + 1 \in Nat \ {0} /\ p.end \in 0 .. Len(s)
    <3>1. Len(s) \in Nat /\ v.q.size \in Nat /\ v.q.page \in Nat
      BY <1>2, <2>2 DEF Query
    <3> HIDE DEF s
    <3> DEFINE size == AtLeast(1, v.q.size)
               from == AtLeast(1, v.q.page) - 1
               product == from * size
    <3>2. size \in Nat /\ from \in Nat
      BY <3>1 DEF AtLeast
    <3>3. product \in Nat
      <4> HIDE DEF size, from
      <4> QED BY <3>2
    <3>4. p.start = AtMost(Len(s), product) /\ p.end = AtMost(Len(s), p.start + size)
      BY DEF QueryPage
    <3> HIDE DEF size, from, product, p
    <3> QED BY <3>1, <3>2, <3>3, <3>4 DEF AtMost
  <2> HIDE DEF s, p
  <2>4. Elems(Shown(r)) = {s[i] : i \in p.start + 1 .. p.end}
    <3> DEFINE m == p.start + 1
               n == p.end
    <3> HIDE DEF m, n
    <3>0. m \in Nat \ {0} /\ n \in 0 .. Len(s)
      BY <2>3 DEF m, n
    <3>1. Elems(SubSeq(s, m, n)) = {s[i] : i \in m .. n}
      <4>1. s \in Seq(Nat)
        BY <2>2
      <4> HIDE DEF filtered
      <4> QED BY <3>0, <4>1, SliceIs
    <3> QED BY <2>1, <3>1 DEF m, n
  <2>5. {s[i] : i \in p.start + 1 .. p.end} \subseteq Elems(s)
    BY <2>2, <2>3 DEF Elems
  <2>6. Elems(Shown(r)) \subseteq Elems(v.ids) \cap filtered
    BY <2>2, <2>4, <2>5
  <2> QED BY <1>4, <2>6 DEF PageKinds
<1>5. CASE v.q.kind = "product"
  <2> DEFINE s == Kept(v.ids, lookedUp)
  <2>1. Shown(r) = SubSeq(s, 1, AtMost(1, Len(s)))
    BY <1>5 DEF Shown
  <2>2. s \in Seq(Nat) /\ Elems(s) = Elems(v.ids) \cap lookedUp
    BY <1>3
  <2> HIDE DEF s
  <2>3. AtMost(1, Len(s)) \in 0 .. Len(s)
    BY <2>2 DEF AtMost
  <2>4. Elems(Shown(r)) = {s[i] : i \in 1 .. AtMost(1, Len(s))}
    <3> DEFINE n == AtMost(1, Len(s))
    <3> HIDE DEF n
    <3>1. Elems(SubSeq(s, 1, n)) = {s[i] : i \in 1 .. n}
      BY <2>2, <2>3, SliceIs DEF n
    <3> QED BY <2>1, <3>1 DEF n
  <2>5. {s[i] : i \in 1 .. AtMost(1, Len(s))} \subseteq Elems(s)
    BY <2>2, <2>3 DEF Elems
  <2>6. Elems(Shown(r)) \subseteq Elems(v.ids) \cap lookedUp
    BY <2>2, <2>4, <2>5
  <2> QED BY <1>5, <2>1, <2>6 DEF PageKinds, s
<1>6. CASE v.q.kind \notin {"products", "magentoProducts", "product"}
  <2>1. Shown(r) = Kept(v.ids, DOMAIN v.results)
    BY <1>6 DEF Shown
  <2> QED BY <1>3, <1>6, <2>1
<1> QED BY <1>4, <1>5, <1>6

\* A cell of the product in the moments that the answer can be of.
LEMMA AnswerFlat ==
    ASSUME ViewInv, IdsInv, NEW r \in Request, Answered(r), NEW id \in Elems(Shown(r))
    PROVE  /\ id \in DOMAIN view[r].results /\ id \in Id
           /\ FlatOf(log, id, view[r].results[id],
                     IF id \in view[r].hits THEN view[r].boot ELSE view[r].since,
                     view[r].until)
<1> DEFINE v == view[r]
<1>1. id \in DOMAIN v.results
  BY ShownIs
<1>2. Holds(v, log) /\ v.pc = "ok"
  BY InvIs DEF Answered
<1>3. Latest(v, log) = v.until
  BY <1>2 DEF Latest
<1> HIDE DEF v
<1>4. id \in Id /\ FlatOf(log, id, v.results[id],
                          IF id \in v.hits THEN v.boot ELSE v.since, v.until)
  BY <1>1, <1>2, <1>3 DEF Holds
<1> QED BY <1>1, <1>4 DEF v

\* What the two types of GraphQL make of a product.
LEMMA FromFlatIs ==
    ASSUME NEW flat
    PROVE  /\ FromFlat(flat).sku = flat.sku /\ FromFlat(flat).in_stock = flat.stock.in_stock
           /\ FromFlat(flat).price = OrPrice(flat.guest.price, flat.price)
           /\ FromFlat(flat).final_price = flat.guest.final
           /\ MagentoFromFlat(flat).sku = flat.sku
           /\ MagentoFromFlat(flat).in_stock = flat.stock.in_stock
           /\ MagentoFromFlat(flat).price = OrPrice(flat.guest.price, flat.price)
           /\ MagentoFromFlat(flat).final_price =
                OrPrice(flat.guest.final, OrPrice(flat.guest.price, flat.price))
<1> DEFINE p == FromFlat(flat)
<1>1. /\ p.sku = flat.sku /\ p.in_stock = flat.stock.in_stock
      /\ p.price = OrPrice(flat.guest.price, flat.price)
      /\ p.final_price = flat.guest.final
      /\ DOMAIN p = {"id", "sku", "price", "final_price", "in_stock"}
  BY DEF FromFlat
<1> DEFINE final == OrPrice(p.final_price, p.price)
           m == MagentoFromFlat(flat)
<1>2. m.sku = p.sku /\ m.in_stock = p.in_stock /\ m.price = p.price /\ m.final_price = final
  BY DEF MagentoFromFlat
<1> HIDE DEF p, m, final
<1>3. final = OrPrice(flat.guest.final, OrPrice(flat.guest.price, flat.price))
  BY <1>1 DEF final
<1> QED BY <1>1, <1>2, <1>3 DEF p, m

\* What a page, the product page and GraphQL show of the product with the id
\* is that product's.
LEMMA QuoteIsTheProducts ==
    ASSUME ViewInv, IdsInv, NEW r \in Request, Answered(r), NEW id \in Elems(Shown(r))
    PROVE  LET flat == view[r].results[id]
               q == view[r].q
               M == MomentsOf(r, id)
               guest(k) == OrElse({p \in log[k][id]["index"] : p.group = Guest}, NoIndex)
               own(k) == OrElse({v.value : v \in {v \in log[k][id]["decimal"] : v.code = "price"}},
                                NoPrice)
               stocked == \E k \in M : \E s \in log[k][id]["stock"] : s.in_stock IN
           /\ flat.id = id
           /\ q.kind \in PageKinds =>
                LET x == Tile(flat) IN
                /\ \E k \in M : log[k][id]["row"] = x.sku
                /\ \E k \in M : x.price \in own(k)
           /\ q.kind = "page" =>
                LET x == ProductPage(flat) IN
                /\ \E k \in M : log[k][id]["row"] = x.sku
                /\ \E k \in M : x.price \in own(k)
                /\ \E k \in M : x.prices = log[k][id]["index"]
                /\ x.in_stock => stocked
           /\ q.api = "graphql" =>
                LET x == IF q.kind = "magentoProducts" THEN MagentoFromFlat(flat)
                                                       ELSE FromFlat(flat) IN
                /\ \E k \in M : log[k][id]["row"] = x.sku
                /\ \E k \in M : \E p \in guest(k) :
                     /\ x.price = p.price \/ (p.price = NoPrice /\ \E j \in M : x.price \in own(j))
                     /\ x.final_price = p.final \/ (p.final = NoPrice /\ x.final_price = x.price)
                /\ x.in_stock => stocked
                /\ q.kind # "product" =>
                     \A C \in q.categories : \E k \in M : log[k][id]["links"] \cap C # {}
<1> DEFINE flat == view[r].results[id]
           q == view[r].q
           M == MomentsOf(r, id)
           guest(k) == OrElse({p \in log[k][id]["index"] : p.group = Guest}, NoIndex)
           own(k) == OrElse({v.value : v \in {v \in log[k][id]["decimal"] : v.code = "price"}},
                            NoPrice)
           stocked == \E k \in M : \E s \in log[k][id]["stock"] : s.in_stock
<1>1. /\ flat.id = id /\ \E k \in M : log[k][id]["row"] = flat.sku
      /\ \E k \in M : flat.price \in own(k)
      /\ \E k \in M : flat.stock \in OrElse(log[k][id]["stock"], NoStock)
      /\ \E k \in M : flat.prices = log[k][id]["index"] /\ flat.guest \in guest(k)
      /\ \E k \in M : flat.links = log[k][id]["links"]
  <2> DEFINE lo == IF id \in view[r].hits THEN view[r].boot ELSE view[r].since
  <2>1. FlatOf(log, id, flat, lo, view[r].until) /\ M = lo .. view[r].until
    BY AnswerFlat DEF MomentsOf
  <2> HIDE DEF flat, lo, M
  <2> QED BY <2>1 DEF FlatOf, Own, GuestIndex
<1>2. q.api = "graphql" => q.kind \in GraphqlKinds
  <2>1. q \in ViewQuery
    BY InvIs DEF Answered, Spans, Active
  <2> QED BY <2>1, ViewAssumption DEF Query
<1>3. q.kind \in {"products", "magentoProducts"} => \A C \in q.categories : flat.links \cap C # {}
  BY ShownIs DEF Filtered
<1> HIDE DEF flat, q, M, guest, own
<1>4. flat.stock.in_stock => stocked
  <2> SUFFICES ASSUME flat.stock.in_stock PROVE stocked
    OBVIOUS
  <2>1. PICK k \in M : flat.stock \in OrElse(log[k][id]["stock"], NoStock)
    BY <1>1
  <2>2. ~ NoStock.in_stock
    BY DEF NoStock
  <2>3. flat.stock \in log[k][id]["stock"]
    BY <2>1, <2>2 DEF OrElse
  <2> QED BY <2>3
<1> HIDE DEF stocked
<1>5. LET x == Tile(flat) IN
      /\ \E k \in M : log[k][id]["row"] = x.sku
      /\ \E k \in M : x.price \in own(k)
  <2>1. Tile(flat).sku = flat.sku /\ Tile(flat).price = flat.price
    BY DEF Tile
  <2> QED BY <1>1, <2>1
<1>6. LET x == ProductPage(flat) IN
      /\ \E k \in M : log[k][id]["row"] = x.sku
      /\ \E k \in M : x.price \in own(k)
      /\ \E k \in M : x.prices = log[k][id]["index"]
      /\ x.in_stock => stocked
  <2>1. /\ ProductPage(flat).sku = flat.sku /\ ProductPage(flat).price = flat.price
        /\ ProductPage(flat).prices = flat.prices
        /\ ProductPage(flat).in_stock = flat.stock.in_stock
    BY DEF ProductPage
  <2> QED BY <1>1, <1>4, <2>1
<1>7. ASSUME NEW x, x = FromFlat(flat) \/ x = MagentoFromFlat(flat)
      PROVE  /\ \E k \in M : log[k][id]["row"] = x.sku
             /\ \E k \in M : \E p \in guest(k) :
                  /\ x.price = p.price \/ (p.price = NoPrice /\ \E j \in M : x.price \in own(j))
                  /\ x.final_price = p.final \/ (p.final = NoPrice /\ x.final_price = x.price)
             /\ x.in_stock => stocked
  <2>1. /\ x.sku = flat.sku /\ x.in_stock = flat.stock.in_stock
        /\ x.price = OrPrice(flat.guest.price, flat.price)
        /\ \/ x.final_price = flat.guest.final
           \/ x.final_price = OrPrice(flat.guest.final, x.price)
    BY <1>7, FromFlatIs
  <2>2. PICK k \in M : flat.guest \in guest(k)
    BY <1>1
  <2>3. \/ x.price = flat.guest.price
        \/ flat.guest.price = NoPrice /\ \E j \in M : x.price \in own(j)
    BY <1>1, <2>1 DEF OrPrice
  <2>4. \/ x.final_price = flat.guest.final
        \/ flat.guest.final = NoPrice /\ x.final_price = x.price
    BY <2>1 DEF OrPrice
  <2> QED BY <1>1, <1>4, <2>1, <2>2, <2>3, <2>4
<1>8. q.api = "graphql" /\ q.kind # "product" =>
        \A C \in q.categories : \E k \in M : log[k][id]["links"] \cap C # {}
  BY <1>1, <1>2, <1>3 DEF GraphqlKinds
<1>9. flat.id = id
  BY <1>1
<1> DEFINE magento == IF q.kind = "magentoProducts" THEN MagentoFromFlat(flat) ELSE FromFlat(flat)
<1>10. magento = FromFlat(flat) \/ magento = MagentoFromFlat(flat)
  OBVIOUS
<1> HIDE DEF magento
<1>11. /\ \E k \in M : log[k][id]["row"] = magento.sku
       /\ \E k \in M : \E p \in guest(k) :
            /\ \/ magento.price = p.price
               \/ p.price = NoPrice /\ \E j \in M : magento.price \in own(j)
            /\ magento.final_price = p.final
               \/ (p.final = NoPrice /\ magento.final_price = magento.price)
       /\ magento.in_stock => stocked
  BY <1>7, <1>10
<1> QED BY <1>5, <1>6, <1>8, <1>9, <1>11 DEF magento, flat, q, M, guest, own, stocked

\* What is shown of a product is that product's own data of a moment of the
\* request, or since the server's start where the cache had it; a product page
\* lists the index prices as they were at one moment, and GraphQL quotes both
\* prices of one row of the guest's (crates/web, api-graphql/src/models.rs).
THEOREM QuotesAreOfTheProduct == ViewSpec => []QuotesAreTheProducts
<1>1. ViewInv /\ IdsInv => QuotesAreTheProducts
  BY QuoteIsTheProducts DEF QuotesAreTheProducts
<1> QED BY <1>1, ViewInvariant, IdsInvariant, PTL

\* The product query of GraphQL that answers nothing missed no product that
\* carried the sku all the while, unless the cache gave it an older one.
THEOREM LookupsFind == ViewSpec => []LookupFinds
<1>1. ASSUME ViewInv, IdsInv
      PROVE  LookupFinds
  <2> SUFFICES ASSUME NEW r \in Request, Answered(r), view[r].q.kind = "product",
                      Shown(r) = <<>>,
                      NEW S \in view[r].q.skus, NEW id \in Id \ view[r].hits,
                      \A k \in view[r].since .. view[r].until : log[k][id]["row"] \in S
               PROVE  FALSE
    BY DEF LookupFinds
  <2> DEFINE v == view[r]
             looked == {i \in DOMAIN v.results : LookedUp(v.q, v.results[i])}
             found == Kept(v.ids, looked)
  <2>1. /\ Spans(v, log, booted) /\ Holds(v, log) /\ Lists(v, log) /\ v.pc = "ok"
        /\ v.status = 200
    BY <1>1, InvIs DEF Answered
  <2>2. v.q \in ViewQuery /\ v.ids \in Seq(Nat)
    BY <1>1, <2>1 DEF Spans, Active, IdsInv
  <2>3. NoSku \notin S
    BY <2>2, ViewAssumption DEF Query
  <2>4. found \in Seq(Nat) /\ Elems(found) = Elems(v.ids) \cap looked
    BY <2>2, KeptIsSome
  <2>5. found = <<>>
    <3>1. SubSeq(found, 1, AtMost(1, Len(found))) = <<>>
      BY <1>1, ShownIs
    <3> HIDE DEF found
    <3>2. CASE Len(found) = 0
      BY <2>4, <3>2
    <3>3. CASE Len(found) # 0
      <4>0. Len(found) \in Nat
        BY <2>4
      <4>1. AtMost(1, Len(found)) = 1 /\ 1 \in 0 .. Len(found)
        <5> DEFINE n == Len(found)
        <5>1. n \in Nat /\ n # 0
          BY <4>0, <3>3
        <5> HIDE DEF n
        <5>2. AtMost(1, n) = 1 /\ 1 \in 0 .. n
          BY <5>1 DEF AtMost
        <5> QED BY <5>2 DEF n
      <4>2. Elems(SubSeq(found, 1, 1)) = {found[i] : i \in 1 .. 1}
        BY <2>4, <4>1, SliceIs
      <4>3. found[1] \in {found[i] : i \in 1 .. 1}
        OBVIOUS
      <4>4. found[1] \in Elems(<<>>)
        BY <3>1, <4>1, <4>2, <4>3
      <4> QED BY <4>4 DEF Elems
    <3> QED BY <3>2, <3>3
  <2>a. Whole(v)
    BY <2>1 DEF Whole, PageKinds
  <2>6. PICK k \in v.since .. v.until : v.ids = ListOf(v.q, log[k])
    BY <2>1, <2>a DEF Lists, Listing
  <2>7. id \in Elems(v.ids)
    <3>1. log[k][id]["row"] \in S
      BY <2>6
    <3>2. Exists(log[k], id)
      BY <2>3, <3>1 DEF Exists
    <3> QED BY <2>2, <2>6, <3>2, ListOfIs
  <2>8. id \in DOMAIN v.results
    BY <2>1, <2>7, <2>a DEF Lists, Listing, Covers, PageKinds
  <2>9. \E j \in v.since .. v.until : log[j][id]["row"] = v.results[id].sku
    <3>1. Latest(v, log) = v.until
      BY <2>1 DEF Latest
    <3>2. FlatOf(log, id, v.results[id], v.since, v.until)
      BY <2>1, <2>8, <3>1 DEF Holds
    <3> QED BY <3>2 DEF FlatOf
  <2>10. v.results[id].sku \in S
    BY <2>9
  <2>11. id \in looked
    BY <2>8, <2>10 DEF LookedUp
  <2>12. id \in Elems(found)
    BY <2>4, <2>7, <2>11
  <2> QED BY <2>5, <2>12 DEF Elems
<1>2. ViewInv /\ IdsInv => LookupFinds
  BY <1>1
<1> QED BY <1>2, ViewInvariant, IdsInvariant, PTL

-----------------------------------------------------------------------------
(* The page of a grid.                                                     *)

\* In a list that rises each element counts those up to it.
LEMMA Ranks ==
    ASSUME NEW t \in Seq(Nat), Rising(t)
    PROVE  /\ Cardinality(Elems(t)) = Len(t)
           /\ \A a \in 1 .. Len(t) : Cardinality({j \in Elems(t) : j <= t[a]}) = a
<1>1. ASSUME NEW a \in 0 .. Len(t)
      PROVE  Cardinality({t[b] : b \in 1 .. a}) = a
  <2> DEFINE f == [b \in 1 .. a |-> t[b]]
             S == {t[b] : b \in 1 .. a}
  <2>1. \A b, c \in 1 .. a : f[b] = f[c] => b = c
    <3> SUFFICES ASSUME NEW b \in 1 .. a, NEW c \in 1 .. a, b # c
                 PROVE  t[b] # t[c]
      OBVIOUS
    <3>1. b \in 1 .. Len(t) /\ c \in 1 .. Len(t) /\ t[b] \in Nat /\ t[c] \in Nat
      OBVIOUS
    <3>2. b < c \/ c < b
      OBVIOUS
    <3>3. t[b] < t[c] \/ t[c] < t[b]
      BY <3>1, <3>2 DEF Rising
    <3> QED BY <3>1, <3>3
  <2>2. f \in [1 .. a -> S] /\ \A x \in S : \E b \in 1 .. a : f[b] = x
    OBVIOUS
  <2> HIDE DEF f, S
  <2>3. ExistsBijection(1 .. a, S)
    BY <2>1, <2>2, Zenon DEF ExistsBijection, Bijection, Injection, Surjection, IsInjective
  <2>4. a \in Nat
    OBVIOUS
  <2>5. Cardinality(S) = a
    BY <2>3, <2>4, FS_CountingElements
  <2> QED BY <2>5 DEF S
<1>2. Elems(t) = {t[b] : b \in 1 .. Len(t)} /\ Len(t) \in 0 .. Len(t)
  BY DEF Elems
<1>3. ASSUME NEW a \in 1 .. Len(t)
      PROVE  {j \in Elems(t) : j <= t[a]} = {t[b] : b \in 1 .. a}
  <2>1. ASSUME NEW b \in 1 .. Len(t)
        PROVE  t[b] <= t[a] <=> b <= a
    <3>1. t[b] \in Nat /\ t[a] \in Nat
      OBVIOUS
    <3>2. /\ b < a => t[b] < t[a]
          /\ a < b => t[a] < t[b]
      BY DEF Rising
    <3>3. b < a \/ b = a \/ a < b
      OBVIOUS
    <3> QED BY <3>1, <3>2, <3>3
  <2>2. 1 .. a \subseteq 1 .. Len(t) /\ \A b \in 1 .. Len(t) : b <= a <=> b \in 1 .. a
    OBVIOUS
  <2> QED BY <1>2, <2>1, <2>2
<1>4. ASSUME NEW a \in 1 .. Len(t)
      PROVE  Cardinality({j \in Elems(t) : j <= t[a]}) = a
  <2>1. a \in 0 .. Len(t)
    OBVIOUS
  <2> QED BY <1>1, <1>3, <2>1
<1> QED BY <1>1, <1>2, <1>4

\* The bounds of the page that is asked for, or else of the last one.
LEMMA PageBounds ==
    ASSUME NEW total \in Nat, NEW requested \in Nat, NEW limit \in Nat, NEW a \in 1 .. total
    PROVE  LET p == Paginate(total, requested, limit)
               d == AtLeast(1, limit) IN
           a \in AtMost(total, GridStart(p)) + 1 .. GridEnd(p, total)
             <=> CeilDiv(a, d) = AtLeast(1, AtMost(requested, CeilDiv(total, d)))
<1> DEFINE p == Paginate(total, requested, limit)
           d == AtLeast(1, limit)
           c == CeilDiv(total, d)
           T == TotalPages(total, limit)
           g == AtLeast(1, AtMost(T, requested))
<1>1. d \in Nat \ {0} /\ T \in Nat \ {0} /\ T = AtLeast(1, c)
  BY PageFields
<1>2. c \in Nat
  BY <1>1, CeilDivBounds
<1>3. p.page = g /\ p.limit = d
  BY DEF Paginate
<1> HIDE DEF p, d, c, T
<1>4. g = AtLeast(1, AtMost(requested, c)) /\ g \in Nat \ {0}
  BY <1>1, <1>2 DEF AtLeast, AtMost
<1> HIDE DEF g
<1>5. (g - 1) * d < a /\ a <= g * d <=> g = CeilDiv(a, d)
  <2>1. a \in Nat \ {0}
    OBVIOUS
  <2> QED BY <1>1, <1>4, <2>1, PageOfItem
<1> DEFINE from == (g - 1) * d
           to == g * d
<1>6. GridStart(p) = from /\ GridEnd(p, total) = AtMost(total, from + d)
  BY <1>3 DEF GridStart, GridEnd
<1>7. from + d = to /\ from \in Nat /\ to \in Nat
  <2>1. g - 1 \in Nat
    BY <1>4
  <2> QED BY <1>1, <1>4, <2>1
<1> HIDE DEF from, to
<1>8. a \in AtMost(total, from) + 1 .. AtMost(total, to) <=> from < a /\ a <= to
  BY <1>7 DEF AtMost
<1> QED BY <1>4, <1>5, <1>6, <1>7, <1>8 DEF p, d, c, from, to

\* The page that a grid asks for is that of the products that are on it.
LEMMA PageIsItsProducts ==
    ASSUME NEW q \in ViewQuery, NEW all \in SUBSET Id
    PROVE  LET limit == AtLeast(1, q.size)
               page(id) == CeilDiv(Cardinality({j \in all : j <= id}), limit)
               shown == AtLeast(1, AtMost(q.page, CeilDiv(Cardinality(all), limit))) IN
           Elems(GridPage(InOrder(all), q)) = {id \in all : page(id) = shown}
<1> DEFINE t == InOrder(all)
           limit == AtLeast(1, q.size)
           page(id) == CeilDiv(Cardinality({j \in all : j <= id}), limit)
           shown == AtLeast(1, AtMost(q.page, CeilDiv(Cardinality(all), limit)))
           p == Paginate(Len(t), q.page, q.size)
           m == AtMost(Len(t), GridStart(p)) + 1
           n == GridEnd(p, Len(t))
<1>1. t \in Seq(Nat) /\ Elems(t) = all /\ Rising(t)
  BY InOrderIs
<1>2. Cardinality(all) = Len(t) /\ \A a \in 1 .. Len(t) : Cardinality({j \in all : j <= t[a]}) = a
  <2> HIDE DEF t
  <2> QED BY <1>1, Ranks
<1>3. Elems(GridPage(t, q)) = {t[i] : i \in m .. n} /\ Elems(GridPage(t, q)) \subseteq all
  <2> HIDE DEF t
  <2> QED BY <1>1, GridPageIs
<1>4. q.page \in Nat /\ q.size \in Nat
  BY ViewAssumption DEF Query
<1>5. ASSUME NEW a \in 1 .. Len(t)
      PROVE  a \in m .. n <=> page(t[a]) = shown
  <2>1. page(t[a]) = CeilDiv(a, limit)
    BY <1>2
  <2>2. shown = AtLeast(1, AtMost(q.page, CeilDiv(Len(t), limit)))
    BY <1>2
  <2>3. a \in m .. n <=> CeilDiv(a, limit) = AtLeast(1, AtMost(q.page, CeilDiv(Len(t), limit)))
    <3> HIDE DEF t
    <3>1. Len(t) \in Nat
      BY <1>1
    <3> QED BY <1>4, <3>1, PageBounds
  <2> HIDE DEF page, shown, m, n
  <2> QED BY <2>1, <2>2, <2>3
<1>6. m .. n \subseteq 1 .. Len(t)
  <2> DEFINE l == Len(t)
             s == GridStart(p)
             e == s + p.limit
  <2>1. l \in Nat /\ p.page \in Nat \ {0} /\ p.limit \in Nat \ {0}
    <3>1. l \in Nat
      BY <1>1
    <3> HIDE DEF l
    <3>2. TotalPages(l, q.size) \in Nat \ {0} /\ AtLeast(1, q.size) \in Nat \ {0}
      BY <1>4, <3>1, PageFields
    <3>3. /\ Paginate(l, q.page, q.size).page = AtLeast(1, AtMost(TotalPages(l, q.size), q.page))
          /\ Paginate(l, q.page, q.size).limit = AtLeast(1, q.size)
      BY DEF Paginate
    <3>4. Paginate(l, q.page, q.size).page \in Nat \ {0}
      BY <1>4, <3>2, <3>3 DEF AtLeast, AtMost
    <3> QED BY <3>1, <3>2, <3>3, <3>4 DEF l
  <2> HIDE DEF p
  <2>2. s \in Nat
    <3>1. p.page - 1 \in Nat
      BY <2>1
    <3> QED BY <2>1, <3>1 DEF GridStart
  <2>3. m = AtMost(l, s) + 1 /\ n = AtMost(l, e)
    BY DEF GridEnd
  <2> HIDE DEF l, s, e, m, n
  <2>4. e \in Nat
    BY <2>1, <2>2 DEF e
  <2> QED BY <2>1, <2>2, <2>3, <2>4 DEF AtMost, l
<1> HIDE DEF m, n, page, shown
<1>7. {t[i] : i \in m .. n} = {id \in all : page(id) = shown}
  <2>1. ASSUME NEW i \in m .. n
        PROVE  t[i] \in {id \in all : page(id) = shown}
    <3>1. i \in 1 .. Len(t)
      BY <1>6
    <3> QED BY <1>1, <1>5, <3>1 DEF Elems
  <2>2. ASSUME NEW id \in all, page(id) = shown
        PROVE  id \in {t[i] : i \in m .. n}
    <3>1. PICK a \in 1 .. Len(t) : id = t[a]
      BY <1>1 DEF Elems
    <3> QED BY <1>5, <2>2, <3>1
  <2> QED BY <2>1, <2>2
<1> QED BY <1>3, <1>7 DEF page, shown

\* A grid shows, in order, products of one page of the category or the search
\* as it was at one moment of the request, and of these every product that
\* existed all the while (category.rs, search.rs, page.rs).
THEOREM GridsKeepTheirPage == ViewSpec => []GridKeepsItsPage
<1>1. ASSUME ViewInv, IdsInv
      PROVE  GridKeepsItsPage
  <2> SUFFICES ASSUME NEW r \in Request, Answered(r), view[r].q.kind \in PageKinds,
                      ~view[r].lost
               PROVE  \E k \in view[r].since .. view[r].until :
                        LET q     == view[r].q
                            all   == Matching(q, log[k])
                            limit == AtLeast(1, q.size)
                            page(id) == CeilDiv(Cardinality({j \in all : j <= id}), limit)
                            shown == AtLeast(1, AtMost(q.page, CeilDiv(Cardinality(all), limit)))
                            mine  == {id \in all : page(id) = shown} IN
                        /\ Elems(Shown(r)) \subseteq mine
                        /\ \A id \in mine \ Elems(Shown(r)) :
                             \E m \in view[r].since .. view[r].until : ~Exists(log[m], id)
                        /\ \A m, n \in DOMAIN Shown(r) : m < n => Shown(r)[m] < Shown(r)[n]
    BY DEF GridKeepsItsPage
  <2> DEFINE v == view[r]
             q == v.q
             s == Shown(r)
  <2>1. /\ Spans(v, log, booted) /\ Holds(v, log) /\ Lists(v, log) /\ Whole(v)
    BY <1>1, InvIs DEF Answered, Whole
  <2>2. q \in ViewQuery /\ v.ids \in Seq(Nat) /\ q.kind \in PageKinds
    BY <1>1, <2>1 DEF Spans, Active, IdsInv, Whole
  <2>3. s = Kept(v.ids, DOMAIN v.results)
    BY <1>1, ShownIs
  <2> HIDE DEF v, q, s
  <2>4. /\ v.missing = {} /\ Covers(v, log, v.until)
        /\ \E k \in v.since .. v.until : v.ids = ListOf(v.q, log[k])
    BY <2>1, <2>2 DEF Lists, Listing, q
  <2>5. PICK k \in v.since .. v.until : v.ids = ListOf(q, log[k])
    BY <2>4 DEF q
  <2> DEFINE all == Matching(q, log[k])
             mine == Elems(GridPage(InOrder(all), q))
  <2>6. all \in SUBSET Id
    BY DEF Matching, Linked, Hits
  <2>7. Elems(v.ids) = mine
    <3>1. CASE q.kind = "search" /\ q.text = NoText
      <4>1. all = {} /\ v.ids = <<>>
        BY <2>5, <3>1 DEF Matching, ListOf
      <4>2. InOrder(all) \in Seq(Nat) /\ Elems(InOrder(all)) = {} /\ Rising(InOrder(all))
        BY <4>1, InOrderIs
      <4> HIDE DEF all
      <4>3. mine = {}
        BY <2>2, <4>2, GridPageIs
      <4> QED BY <4>1, <4>3 DEF Elems
    <3>2. CASE ~ (q.kind = "search" /\ q.text = NoText)
      BY <2>2, <2>5, <3>2 DEF ListOf
    <3> QED BY <3>1, <3>2
  <2>8. Rising(v.ids)
    BY <2>2, <2>5, ListOfIs
  <2>9. s \in Seq(Nat) /\ Elems(s) = Elems(v.ids) \cap DOMAIN v.results /\ Rising(s)
    BY <2>2, <2>3, <2>8, KeptIsSome
  <2> HIDE DEF all, mine
  <2>10. Elems(s) \subseteq mine
    BY <2>7, <2>9
  <2>11. \A id \in mine \ Elems(s) : \E m \in v.since .. v.until : ~Exists(log[m], id)
    BY <2>4, <2>7, <2>9 DEF Covers
  <2>12. \A m, n \in DOMAIN s : m < n => s[m] < s[n]
    BY <2>9 DEF Rising
  <2>13. LET limit == AtLeast(1, q.size)
             page(id) == CeilDiv(Cardinality({j \in all : j <= id}), limit)
             shown == AtLeast(1, AtMost(q.page, CeilDiv(Cardinality(all), limit))) IN
         mine = {id \in all : page(id) = shown}
    BY <2>2, <2>6, PageIsItsProducts DEF mine
  <2> QED BY <2>5, <2>10, <2>11, <2>12, <2>13 DEF all, q, s, v
<1>2. ViewInv /\ IdsInv => GridKeepsItsPage
  BY <1>1
<1> QED BY <1>2, ViewInvariant, IdsInvariant, PTL

-----------------------------------------------------------------------------
(* The server is made of its two parts, and keeps what each of them keeps.  *)

LEMMA StepIsOfThePictures == [Next]_vars => [ImageNext]_imageVars
<1> SUFFICES ASSUME [Next]_vars
             PROVE  ImageNext \/ UNCHANGED imageVars
  OBVIOUS
<1>1. ASSUME NEW r \in Request, ViewImage(r)
      PROVE  ImageNext
  BY <1>1 DEF ViewImage, ImageNext
<1>2. ASSUME NEW src \in Src, Replace(src)
      PROVE  ImageNext
  BY <1>2 DEF ImageNext
<1>3. ASSUME Restart
      PROVE  ImageNext
  BY <1>3 DEF Restart, ImageNext
<1>4. CASE UNCHANGED vars
  BY <1>4 DEF vars
<1> QED BY <1>1, <1>2, <1>3, <1>4 DEF Next

LEMMA StepIsOfTheProducts == [Next]_vars => [ViewNext]_viewVars
<1> SUFFICES ASSUME [Next]_vars
             PROVE  ViewNext \/ UNCHANGED viewVars
  OBVIOUS
<1>1. ASSUME NEW r \in Request, ViewProducts(r)
      PROVE  ViewNext
  BY <1>1 DEF ViewProducts, ViewNext
<1>2. ASSUME NEW id \in Id, NEW p \in Part, NEW x \in Contents[<<id, p>>], Change(id, p, x)
      PROVE  ViewNext
  BY <1>2 DEF ViewNext
<1>3. ASSUME Restart
      PROVE  ViewNext
  BY <1>3 DEF Restart, ViewNext
<1>4. CASE UNCHANGED vars
  BY <1>4 DEF vars
<1> QED BY <1>1, <1>2, <1>3, <1>4 DEF Next

\* The server implements its two parts: no step of the one disturbs the other,
\* and both lose what is in memory in one crash (src/main.rs).
THEOREM ServerIsBoth == Spec => ViewSpec /\ ImageSpec
<1>1. Init => ViewInit /\ ImageInit
  BY DEF Init
<1> QED BY <1>1, StepIsOfThePictures, StepIsOfTheProducts, PTL DEF Spec, ViewSpec, ImageSpec

\* So the server's pictures are what image_webp (crates/web/src/image.rs)
\* promises, whatever else it does.
THEOREM ServerKeepsPictures ==
    Spec => [](OwnImageIsWhole /\ SettledFileIsWhole /\ CachedImageIsWhole)
BY ServerIsBoth, OwnImagesAreWhole, SettledFilesAreWhole, CachedImagesAreWhole, PTL

\* And what it shows of the products is what the handlers of crates/web,
\* api-graphql, api-rest and api-realtime promise.
THEOREM ServerKeepsViews ==
    Spec => [](QuotesAreTheProducts /\ LookupFinds /\ GridKeepsItsPage /\ RealtimeIsRecent)
BY ServerIsBoth, QuotesAreOfTheProduct, LookupsFind, GridsKeepTheirPage,
   RealtimeAnswersAreRecent, PTL
=============================================================================
