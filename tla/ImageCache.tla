----------------------------- MODULE ImageCache -----------------------------
(***************************************************************************)
(* crates/web/src/image.rs: GET /image/webp fetches a picture, resizes and *)
(* re-encodes it, and keeps the result in a file below CACHE_DIR for the   *)
(* next request of the same query.  tokio::fs::write truncates the file    *)
(* and then fills it, and tokio::fs::read reads it piece by piece: other   *)
(* requests, and a crash of the server, come in between.                   *)
(*                                                                         *)
(* The file's name is made of the query's fields with "_" between them,    *)
(* and src and type are the client's own text, "_" included: the model     *)
(* writes a text as the sequence of the pieces between its "_", so that    *)
(* two queries share a file exactly when they do in the code.              *)
(***************************************************************************)
EXTENDS Requests, Naturals, Sequences, FiniteSets, TLC

CONSTANTS
    Src,            \* the sources a query can name, local paths and URLs
    NoSrc,          \* an empty src parameter
    ImageQuery,     \* the queries that are asked
    MaxVersion,     \* bound: the pictures a source holds one after another
    FirstSource,    \* the pictures that may be there in the beginning
    Undecodable,    \* the versions that are no picture
    Blocks          \* the length of a version's encoding

Missing == 0        \* the version of a source that is not there
SrcVersion == 0 .. MaxVersion

ASSUME ImageAssumption ==
    /\ NoSrc \notin Src
    /\ \A q \in ImageQuery : q.src \in Src \cup {NoSrc}
    /\ MaxVersion \in Nat
    /\ FirstSource \subseteq [Src -> SrcVersion]
    /\ Undecodable \subseteq SrcVersion
    /\ Blocks \in [SrcVersion -> Nat \ {0}]

VARIABLES
    source,     \* the version each source holds
    file,       \* the cached files: key -> content
    spoilt,     \* history: files cut short, or written by two at odds
    img         \* each image request

imageVars == <<source, file, spoilt, img>>

Quality(q) == IF q.quality \in 1 .. 100 THEN q.quality ELSE 90

Format(kind) == CASE kind = <<"png">> -> "png" [] kind = <<"webp">> -> "webp"
                  [] OTHER -> "jpeg"

\* The fields of q joined with "_".
Joined(q, kind) ==
    q.src \o <<ToString(q.w), ToString(q.h)>> \o kind \o <<ToString(Quality(q))>>

\* Mutant: the key leaves out the type, and all files have one extension.
KeyWithoutKind(q) == <<Joined(q, <<"any">>), "image">>

\* The name of the file: the digest of the joined text, and the extension.
\* The fields are joined as they are, so queries whose src and type complete
\* one another to the same text share a file.
Key(q) == <<Joined(q, q.kind), Format(q.kind)>>

FileKey == {Key(q) : q \in ImageQuery}

\* The encoding of a version of a source.  write_to takes no quality.
Rendering(v, q) ==
    [n \in 1 .. Blocks[v] |-> [src |-> q.src, version |-> v, size |-> <<q.w, q.h>>,
                               format |-> Format(q.kind), block |-> n]]

\* What a file holds below an offset that was written beyond its end.
Hole == [src |-> NoSrc, version |-> Missing, size |-> <<0, 0>>, format |-> "none",
         block |-> 0]

Renderings(q) == {Rendering(v, q) : v \in SrcVersion \ (Undecodable \cup {Missing})}

\* What the queries that share the file k are rendered to.
Encodings(k) == UNION {Renderings(q) : q \in {p \in ImageQuery : Key(p) = k}}

Bytes == {Hole} \cup UNION {{s[n] : n \in DOMAIN s} :
                            s \in UNION {Renderings(q) : q \in ImageQuery}}

NoImageQuery == [src |-> NoSrc, w |-> 0, h |-> 0, kind |-> <<"jpeg">>, quality |-> 0]

NoImage == [pc |-> "idle", query |-> NoImageQuery, version |-> Missing, at |-> 0,
         body |-> <<>>, hit |-> FALSE, raced |-> FALSE, seen |-> {}]

ImageInit ==
    /\ source \in FirstSource
    /\ file = [k \in {} |-> <<>>]
    /\ spoilt = {}
    /\ img = [r \in Request |-> NoImage]

ImageEnded == {"idle", "ok", "error", "gone"}

ImageRequest ==
    [pc : ImageEnded \cup {"look", "read", "fetch", "render", "store", "fill"},
     query : ImageQuery \cup {NoImageQuery}, version : SrcVersion, at : Nat,
     body : Seq(Bytes), hit : BOOLEAN, raced : BOOLEAN, seen : SUBSET SrcVersion]

ImageTypeOK ==
    /\ source \in [Src -> SrcVersion]
    /\ DOMAIN file \subseteq FileKey
    /\ \A k \in DOMAIN file : file[k] \in Seq(Bytes)
    /\ spoilt \subseteq FileKey
    /\ img \in [Request -> ImageRequest]

KeyOfRequest(r) == Key(img[r].query)

\* The requests that are writing the file k.
Writers(k) == {r \in Request : img[r].pc = "fill" /\ KeyOfRequest(r) = k}

Image(r, new) == img' = [img EXCEPT ![r] = new]

-----------------------------------------------------------------------------
(* One request. *)

AskImage(r, q) ==
    /\ img[r].pc = "idle"
    /\ Image(r, IF q.src = NoSrc THEN [img[r] EXCEPT !.pc = "error", !.query = q]
              ELSE [img[r] EXCEPT !.pc = "look", !.query = q, !.seen = {source[q.src]}])
    /\ UNCHANGED <<source, file, spoilt>>

\* The file is opened, if it is there.
Look(r) ==
    /\ img[r].pc = "look"
    /\ LET k == KeyOfRequest(r) IN
       Image(r, IF k \in DOMAIN file
              THEN [img[r] EXCEPT !.pc = "read", !.hit = TRUE,
                                  !.raced = Writers(k) # {} \/ k \in spoilt]
              ELSE [img[r] EXCEPT !.pc = "fetch"])
    /\ UNCHANGED <<source, file, spoilt>>

\* The next piece of the file, whatever it holds by now, or its end.
ReadBlock(r) ==
    /\ img[r].pc = "read"
    /\ LET content == file[KeyOfRequest(r)]
           next    == img[r].at + 1 IN
       Image(r, IF next \in DOMAIN content
              THEN [img[r] EXCEPT !.at = next, !.body = Append(@, content[next])]
              ELSE [img[r] EXCEPT !.pc = "ok"])
    /\ UNCHANGED <<source, file, spoilt>>

\* fetch_source.
Fetch(r) ==
    /\ img[r].pc = "fetch"
    /\ LET v == source[img[r].query.src] IN
       Image(r, IF v = Missing THEN [img[r] EXCEPT !.pc = "error"]
              ELSE [img[r] EXCEPT !.pc = "render", !.version = v])
    /\ UNCHANGED <<source, file, spoilt>>

\* Decoding, resizing and encoding.
Render(r) ==
    /\ img[r].pc = "render"
    /\ Image(r, IF img[r].version \in Undecodable THEN [img[r] EXCEPT !.pc = "error"]
              ELSE [img[r] EXCEPT !.pc = "store",
                                  !.body = Rendering(img[r].version, img[r].query)])
    /\ UNCHANGED <<source, file, spoilt>>

\* The write creates the file or truncates it.
OpenFile(r) ==
    /\ img[r].pc = "store"
    /\ LET k == KeyOfRequest(r) IN
       /\ file' = With(file, k, <<>>)
       /\ img' = [s \in Request |->
                    IF s = r THEN [img[s] EXCEPT !.pc = "fill", !.at = 0]
                    ELSE IF img[s].pc = "read" /\ KeyOfRequest(s) = k
                         THEN [img[s] EXCEPT !.raced = TRUE]
                    ELSE img[s]]
       /\ spoilt' = IF \A s \in Writers(k) : img[s].body = img[r].body
                    THEN spoilt ELSE spoilt \cup {k}
    /\ UNCHANGED source

\* content with a block written at offset n, beyond its end perhaps.
Overwritten(content, n, x) ==
    [m \in 1 .. (IF n > Len(content) THEN n ELSE Len(content)) |->
        IF m = n THEN x ELSE IF m \in DOMAIN content THEN content[m] ELSE Hole]

\* Each writer writes on from its own offset, whoever truncates meanwhile.
Fill(r) ==
    /\ img[r].pc = "fill" /\ img[r].at < Len(img[r].body)
    /\ LET k == KeyOfRequest(r)
           n == img[r].at + 1 IN
       /\ file' = [file EXCEPT ![k] = Overwritten(@, n, img[r].body[n])]
       /\ Image(r, [img[r] EXCEPT !.at = n])
    /\ UNCHANGED <<source, spoilt>>

\* Mutant: a short write is taken for the whole.
FilledAfterOne(r) ==
    /\ img[r].pc = "fill" /\ img[r].at >= 1
    /\ Image(r, [img[r] EXCEPT !.pc = "ok"])
    /\ UNCHANGED <<source, file, spoilt>>

Filled(r) ==
    /\ img[r].pc = "fill" /\ img[r].at = Len(img[r].body)
    /\ Image(r, [img[r] EXCEPT !.pc = "ok"])
    /\ UNCHANGED <<source, file, spoilt>>

-----------------------------------------------------------------------------
(* What goes wrong. *)

\* Mutant: an image that cannot be kept is not served.
StoreRefusedFails(r) ==
    /\ img[r].pc = "store"
    /\ Image(r, [img[r] EXCEPT !.pc = "ok", !.body = <<>>])
    /\ UNCHANGED <<source, file, spoilt>>

\* The directory or the file cannot be created: the image is served anyhow.
StoreRefused(r) ==
    /\ img[r].pc = "store"
    /\ Image(r, [img[r] EXCEPT !.pc = "ok"])
    /\ UNCHANGED <<source, file, spoilt>>

\* A write fails half-way: the image is served, the file stays as it is.
FillFails(r) ==
    /\ img[r].pc = "fill" /\ img[r].at < Len(img[r].body)
    /\ Image(r, [img[r] EXCEPT !.pc = "ok"])
    /\ spoilt' = spoilt \cup {KeyOfRequest(r)}
    /\ UNCHANGED <<source, file>>

\* The remote does not answer or breaks off, or the encoder gives up.
ImageFails(r) ==
    /\ img[r].pc \in {"fetch", "render"}
    /\ Image(r, [img[r] EXCEPT !.pc = "error"])
    /\ UNCHANGED <<source, file, spoilt>>

\* The server stops and comes back: the files are as they were left.
ImageCrash ==
    /\ img' = [r \in Request |-> IF img[r].pc \in ImageEnded THEN img[r]
                                 ELSE [img[r] EXCEPT !.pc = "gone"]]
    /\ spoilt' = spoilt \cup {k \in DOMAIN file : Writers(k) # {}}
    /\ UNCHANGED <<source, file>>

\* Somebody puts another picture where the source was.
Replace(src) ==
    /\ source[src] < MaxVersion
    /\ source' = [source EXCEPT ![src] = @ + 1]
    /\ img' = [r \in Request |->
                 IF img[r].pc \notin ImageEnded /\ img[r].query.src = src
                 THEN [img[r] EXCEPT !.seen = @ \cup {source[src] + 1}] ELSE img[r]]
    /\ UNCHANGED <<file, spoilt>>

ImageStep(r) == \/ Look(r) \/ ReadBlock(r) \/ Fetch(r) \/ Render(r)
                \/ OpenFile(r) \/ Fill(r) \/ Filled(r)

ImageFault(r) == StoreRefused(r) \/ FillFails(r) \/ ImageFails(r)

ImageNext ==
    \/ \E r \in Request : \/ \E q \in ImageQuery : AskImage(r, q)
                          \/ ImageStep(r) \/ ImageFault(r)
    \/ \E src \in Src : Replace(src)
    \/ ImageCrash

ImageSpec == ImageInit /\ [][ImageNext]_imageVars

-----------------------------------------------------------------------------
(* Properties. *)

\* A request that does not find its image in the cache answers with the whole
\* image, of the source as it was at some moment of the request, whatever
\* becomes of the cache file it writes.
OwnImageIsWhole ==
    \A r \in Request : img[r].pc = "ok" /\ ~img[r].hit =>
        \E v \in img[r].seen \ Undecodable : img[r].body = Rendering(v, img[r].query)

\* A cached file that nobody is writing is one whole encoding of what one of
\* its queries asks for, after any number of requests that missed it at the
\* same time, unless a write of it was cut short or two writers had different
\* encodings, of two pictures or of two queries that share the file.
SettledFileIsWhole ==
    \A k \in DOMAIN file \ spoilt : Writers(k) = {} =>
        \E q \in ImageQuery : Key(q) = k /\ file[k] \in Renderings(q)

\* What a cached answer holds was encoded for this query or for one whose
\* fields join to the same text, and in the format that the answer names; it
\* is whole unless the file was being written while it was read or its writer
\* was cut short.
CachedImageIsWhole ==
    \A r \in Request : img[r].pc = "ok" /\ img[r].hit =>
        /\ \A n \in DOMAIN img[r].body :
             \/ img[r].body[n] = Hole
             \/ /\ img[r].body[n].format = Format(img[r].query.kind)
                /\ \E s \in Encodings(KeyOfRequest(r)) :
                      n \in DOMAIN s /\ img[r].body[n] = s[n]
        /\ img[r].raced \/ img[r].body \in Encodings(KeyOfRequest(r))
=============================================================================
