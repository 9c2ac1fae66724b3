----------------------------- MODULE RoutePath -----------------------------
(***************************************************************************)
(* The text of a route: how RouteMethod::operator[] cuts a path into       *)
(* directories and turns the tags of a directory into a regular expression,*)
(* and how RouteMethod::find cuts the path of a request                    *)
(* (source/wepp/http/router.cpp).                                          *)
(*                                                                         *)
(* A text is a sequence of symbols, of which "/", "<", ">" and "\" mean    *)
(* something to the three expressions the code searches with; they are     *)
(* defined here by what their greedy and lazy parts do.  In a regular      *)
(* expression ".*" is one symbol.                                          *)
(***************************************************************************)
EXTENDS Integers, SequencesExt

-----------------------------------------------------------------------------
(* Cutting a path.                                                         *)

(* [^/]*: where a run of symbols other than "/" that begins at i ends.     *)
RunEnd(s, i) == Min({Len(s) + 1} \cup {j \in i .. Len(s) : s[j] = "/"})

(* (?:[^/]*<[^>]*>)*[^/]*: where a directory that begins at first ends.    *)
(* Greedy: a run reaches for its last "<" that a ">" follows somewhere,    *)
(* goes on behind the first such ">", and so on until no tag is left.      *)
DirEnd(s, first) ==
  LET Closed(j) == {k \in j + 1 .. Len(s) : s[k] = ">"}
      end[i \in 1 .. Len(s) + 1] ==
        LET open == {j \in i .. RunEnd(s, i) - 1 :
                       s[j] = "<" /\ Closed(j) # {}}
        IN IF open = {} THEN RunEnd(s, i) ELSE end[Min(Closed(Max(open))) + 1]
  IN end[first]

(* /?: the slash a directory may begin with.                               *)
SkipSlash(s, i) == IF s[i] = "/" THEN i + 1 ELSE i

(* Both loops over a path: one directory per iteration, empty ones too.    *)
Cut(s, End(_, _)) ==
  LET dirs[i \in 1 .. Len(s) + 1] ==
        IF i > Len(s) THEN <<>>
        ELSE LET first == SkipSlash(s, i)
                 end   == End(s, first)
             IN <<SubSeq(s, first, end - 1)>> \o dirs[end]
  IN dirs[1]

CutRoute(s) == Cut(s, DirEnd)

(* The path of a request has no tags.                                      *)
CutRequest(s) == Cut(s, RunEnd)

-----------------------------------------------------------------------------
(* Tags.                                                                   *)

(* (?:\\?.)*?>: where a tag that has opened before first closes, 0 if      *)
(* nowhere.  Lazy: as few symbols as possible, a "\" taking the next one   *)
(* with it if that leads to an end and standing for itself if not.         *)
TagEnd(s, first) ==
  LET end[i \in 1 .. Len(s) + 2] ==
        IF i > Len(s) THEN 0
        ELSE IF s[i] = ">" THEN i
        ELSE IF s[i] = "\\" /\ end[i + 2] # 0 THEN end[i + 2]
        ELSE end[i + 1]
  IN end[first]

(* Where findTagRegex, or findTagDataRegex, may match.                     *)
TagStarts(s) == {i \in DOMAIN s : s[i] = "<" /\ TagEnd(s, i + 1) # 0}

(* regex_search(dir, findTagRegex)                                         *)
HasTags(dir) == TagStarts(dir) # {}

(* groupedMatch: an empty tag stands for any text.                         *)
Group(data) ==
  <<"(">> \o (IF data = <<>> THEN <<".*">> ELSE data) \o <<")">>

(* std::string::replace, positions counted from 0.                         *)
Replace(s, position, length, by) ==
  SubSeq(s, 1, position) \o by \o SubSeq(s, position + length + 1, Len(s))

(* Faulty: the text before the tag is forgotten.                           *)
PastGroup(group, prefix) == group

(* What currSearchPos advances by: groupedMatch.length() +                 *)
(* match.prefix().length().                                                *)
PastReplacement(group, prefix) == group + prefix

(* One iteration of the loop over the tags: the next tag is searched in    *)
(* tagRegexDir and replaced in tagDir.                                     *)
ReplaceTag(loop) ==
  LET start == Min(TagStarts(loop.tagRegexDir))
      end   == TagEnd(loop.tagRegexDir, start + 1)
      group == Group(SubSeq(loop.tagRegexDir, start + 1, end - 1))
  IN [tagDir |-> Replace(loop.tagDir, loop.currSearchPos + start - 1,
                         end - start + 1, group),
      currSearchPos |-> loop.currSearchPos
                          + PastReplacement(Len(group), start - 1),
      tagRegexDir |-> SubSeq(loop.tagRegexDir, end + 1, Len(loop.tagRegexDir))]

(* The member dir of a new node: the directory, or its regular expression. *)
NodeDir(dir) ==
  LET loop[n \in 0 .. Len(dir)] ==
        IF n = 0
          THEN [tagDir |-> dir, currSearchPos |-> 0, tagRegexDir |-> dir]
        ELSE IF HasTags(loop[n - 1].tagRegexDir) THEN ReplaceTag(loop[n - 1])
        ELSE loop[n - 1]
  IN loop[Len(dir)].tagDir

-----------------------------------------------------------------------------
(* What the loops are for.                                                 *)

(* How many tags are open before position i, when none is escaped.         *)
Depth(s, i) ==
  Cardinality({j \in 1 .. i - 1 : s[j] = "<"})
    - Cardinality({j \in 1 .. i - 1 : s[j] = ">"})

(* "Directories and regex cannot constist of the characters  '<' and '>'." *)
(* (router.hpp:160): each of them opens or closes a tag, none is nested.   *)
WellFormed(s) ==
  /\ \A i \in DOMAIN s : s[i] # "\\"
  /\ \A i \in DOMAIN s : Depth(s, i) \in {0, 1}
  /\ Depth(s, Len(s) + 1) = 0

(* The slashes outside the tags.                                           *)
Slashes(s) == {i \in DOMAIN s : s[i] = "/" /\ Depth(s, i) = 0}

(* The n-th number of a set, the least first.                              *)
Nth(S, n) == CHOOSE x \in S : Cardinality({y \in S : y < x}) = n - 1

(* The directories of a path that is cut at the slashes outside its tags.  *)
OutsideTags(s) ==
  LET begins == IF s = <<>> THEN {}
                ELSE {i + 1 : i \in Slashes(s)} \cup {SkipSlash(s, 1)}
      End(b) == Min({Len(s)} \cup {c - 1 : c \in {d \in Slashes(s) : d >= b}})
  IN [n \in 1 .. Cardinality(begins) |->
        LET b == Nth(begins, n) IN SubSeq(s, b, End(b))]

(* A directory whose tags, as a reader from left to right meets them, are  *)
(* groups.                                                                 *)
Grouped(s) ==
  LET from[i \in 1 .. Len(s) + 1] ==
        IF i > Len(s) THEN <<>>
        ELSE IF i \in TagStarts(s)
          THEN Group(SubSeq(s, i + 1, TagEnd(s, i + 1) - 1))
                 \o from[TagEnd(s, i + 1) + 1]
        ELSE <<s[i]>> \o from[i + 1]
  IN from[1]

=============================================================================
