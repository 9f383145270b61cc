---------------------------- MODULE PathSanitizer ----------------------------
(* Canonicalisation of request paths: sanitize_and_normalize_path of           *)
(* middleware/path_sanitizer.rs, which the PathSanitizer layer, the Inspection *)
(* layer and the router each apply to the path they see.                       *)
(*                                                                             *)
(* A path is what raw_path.split('/') yields: a sequence of segments, each a   *)
(* sequence of tokens.  "/a" is << <<>>, <<"a">> >>, "/" is << <<>>, <<>> >>,  *)
(* the empty path is << <<>> >>.  A token is a character or a whole percent    *)
(* escape; "%" stands for a percent sign that no two hex digits follow.        *)
EXTENDS Naturals, Sequences, SequencesExt

(* The escapes of unreserved characters, and what hex_digit_to_val and
   is_unreserved make of them; and the reserved escape whose hex digits the
   code turns to upper case. *)
Unreserved == [e \in {"%2e", "%61", "%32", "%65"} |->
                 CASE e = "%2e" -> "." [] e = "%61" -> "a"
                   [] e = "%32" -> "2" [] e = "%65" -> "e"]

NormalizeToken(t) == CASE t \in DOMAIN Unreserved -> Unreserved[t]
                       [] t = "%3a" -> "%3A"
                       [] OTHER -> t

NormalizeSegment(s) == [i \in DOMAIN s |-> NormalizeToken(s[i])]

EmptyPath == << <<>> >>
RootPath == << <<>>, <<>> >>

(* The token sequence `needle` occurs in a segment of p: no forbidden text
   contains a slash, so raw_path.contains never looks across one. *)
Occurs(p, needle) ==
    \E i \in DOMAIN p : \E j \in 0 .. (Len(p[i]) - Len(needle)) :
        SubSeq(p[i], j + 1, j + Len(needle)) = needle

NullBytes == {<<"NUL">>, <<"%00">>}
Backslashes == {<<"\\">>, <<"%5c">>}
DoubleEscapes == {<<"%25", "2", "e">>, <<"%25", "2", "f">>,
                  <<"%25", "0", "0">>, <<"%25", "5", "c">>}

OccursAny(p, needles) == \E n \in needles : Occurs(p, n)

(* normalized_segments after the first n segments: an empty one and "." are
   skipped, the others pushed. *)
Skipped(s) == NormalizeSegment(s) \in {<<>>, <<".">>}
Normalized(p) ==
    LET pushed[n \in 0 .. Len(p)] ==
          IF n = 0 THEN <<>>
          ELSE IF Skipped(p[n]) THEN pushed[n - 1]
          ELSE Append(pushed[n - 1], NormalizeSegment(p[n]))
    IN pushed[Len(p)]

Traverses(p) == \E i \in DOMAIN p : NormalizeSegment(p[i]) = <<".", ".">>

(* Whether the code refuses p; the variants of PathSanitizeError lead to the
   same answer and are not told apart. *)
Rejected(p) ==
    /\ p # EmptyPath
    /\ \/ p[1] # <<>>
       \/ OccursAny(p, NullBytes \cup Backslashes \cup {<<"%2f">>})
       \/ OccursAny(p, DoubleEscapes)
       \/ Occurs(p, <<"%">>)
       \/ Traverses(p)

(* A final "/" or "/." as it is written, before any escape is decoded. *)
HasTrailingSlash(p) == p # RootPath /\ Last(p) \in {<<>>, <<".">>}

(* The canonical path of a path that is not refused. *)
Canonical(p) ==
    LET segments == Normalized(p)
    IN IF segments = <<>>
       THEN RootPath
       ELSE <<<<>>>> \o segments \o (IF HasTrailingSlash(p) THEN <<<<>>>> ELSE <<>>)

(* path.starts_with(pre), on the strings the segments stand for. *)
StartsWith(p, pre) ==
    /\ Len(pre) <= Len(p)
    /\ \A i \in 1 .. (Len(pre) - 1) : pre[i] = p[i]
    /\ IsPrefix(Last(pre), p[Len(pre)])

(* The length of a path as a string, in tokens: what prefixes are sorted by. *)
PathLength(p) == FoldSeq(LAMBDA s, n : n + 1 + Len(s), 0, p)
=============================================================================
