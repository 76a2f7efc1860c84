---------------------------------- MODULE Path ----------------------------------
(***************************************************************************)
(* Names of files (path.c, quickjs-path.c).                                *)
(*                                                                         *)
(* A path is a sequence of characters, since the functions work on it in   *)
(* place and count bytes; the separator is Slash.  Where the code counts   *)
(* below zero, and then reads or writes outside of its buffer, a result is *)
(* "astray".  The file system is a set of symbolic links, a function from  *)
(* where they are (a sequence of names, from the root) to their targets;   *)
(* every other place there is is a directory.                              *)
(***************************************************************************)
EXTENDS Integers, Sequences, SequencesExt

Slash == "/"
Period == "."
Nul == "nul"

Drop(t, n) == SubSeq(t, n + 1, Len(t))
Ends(t, c) == t # << >> /\ Last(t) = c

----------------------------------------------------------------------------
(* Separators and components.                                              *)

\* path_skip_separator and path_skip_component from the beginning of a text
SkipSeparator(t) == Min({n \in 0..Len(t) : n = Len(t) \/ t[n + 1] # Slash})
SkipComponent(t) == Min({n \in 0..Len(t) : n = Len(t) \/ t[n + 1] = Slash})

\* path_skip
Skip(t) == SkipSeparator(t) + SkipComponent(Drop(t, SkipSeparator(t)))

First(t) == SubSeq(t, 1, SkipComponent(t))

CurDir == << Period >>
DotDot == << Period, Period >>

\* path_isabs
IsAbsolute(t) == t # << >> /\ t[1] = Slash

Outside == -1

\* path_right: where the separator before the last component is, or Outside if
\* there is none
Right(t) ==
  LET end == Max({n \in 0..Len(t) : n = 0 \/ t[n] # Slash})
  IN  Max({n \in 0..end : n = 0 \/ t[n] = Slash}) - 1

\* path_components of at most n, which are one too few if n is not more than
\* there are
RECURSIVE Components(_, _)
Components(t, n) ==
  LET s == Drop(t, SkipSeparator(t))
  IN  IF s = << >> \/ n <= 1 THEN 0 ELSE 1 + Components(Drop(s, SkipComponent(s)), n - 1)

----------------------------------------------------------------------------
(* Paths put together and taken apart.                                     *)

\* path_append of x to the buffer db
Appended(db, x) ==
  (IF db # << >> /\ ~Ends(db, Slash) THEN Append(db, Slash) ELSE db)
    \o IF Len(x) > 2 /\ IsPrefix(<< Period, Slash >>, x) THEN Drop(x, 2) ELSE x

\* js_path_join
Join(args) == FoldLeft(Appended, << >>, args)

\* path_concat
Concat(a, b) ==
  LET both == Join(<< a, b >>)
  IN  IF Len(both) > 2 /\ IsPrefix(<< Period, Slash >>, both) THEN Drop(both, 2) ELSE both

\* path_absolute
Absolute(cwd, t) ==
  IF IsAbsolute(t) THEN t ELSE IF t = CurDir THEN cwd ELSE Append(cwd, Slash) \o t

\* basename (the one of string.h), str_rchrs and path_extname
Basename(t) == Drop(t, Max({n \in 0..Len(t) : n = 0 \/ t[n] = Slash}))
Dirname(t) ==
  IF Slash \in ToSet(t) THEN SubSeq(t, 1, Len(t) - Len(Basename(t)) - 1) ELSE CurDir
Extname(t) ==
  LET base == Basename(t)
      dots == {n \in DOMAIN base : base[n] = Period}
  IN  IF dots = {} THEN << >> ELSE Drop(base, Max(dots) - 1)

\* js_path_parse: a path without a separator has a directory of length -1
Parse(t) ==
  [root |-> SubSeq(t, 1, IF IsAbsolute(t) THEN 1 ELSE 0),
   dir  |-> IF Slash \in ToSet(t) THEN Dirname(t) ELSE << Nul >>,
   base |-> Basename(t), ext |-> Extname(t),
   name |-> SubSeq(Basename(t), 1, Len(Basename(t)) - Len(Extname(t)))]

\* js_path_format of what has a dir and a base
Format(parts) == (IF parts.dir # << >> THEN Append(parts.dir, Slash) ELSE << >>) \o parts.base

----------------------------------------------------------------------------
(* collapse                                                                *)

Astray(t) == [text |-> t, astray |-> TRUE]

RECURSIVE CollapsedFrom(_, _)

\* path_collapse when it has come to character i: a component and the ".." after
\* it are taken out, and the one before is looked at again.  Two dots at the very
\* end take the separator before them along.
CollapsedFrom(t, i) ==
  LET from == i + SkipSeparator(Drop(t, i))
      to   == from + SkipComponent(Drop(t, from))
      rest == Drop(t, to + 1)
      goes == SubSeq(t, 1, IF rest = DotDot THEN from - 1 ELSE from) \o Drop(rest, 3)
      back == {n \in 1..from : t[n] # Slash}
  IN  CASE i >= Len(t) -> [text |-> t, astray |-> FALSE]
        [] i < Len(t) /\ First(rest) # DotDot -> CollapsedFrom(t, to + 1)
        [] i < Len(t) /\ First(rest) = DotDot ->
             IF from = 0 \/ (rest # DotDot /\ back = {}) THEN Astray(goes)
             ELSE CollapsedFrom(goes, IF back = {} THEN 0 ELSE Right(SubSeq(t, 1, Max(back))) + 1)

Collapse(t) == CollapsedFrom(t, 0)

\* one round of js_path_resolve's loop: an argument that is empty without its
\* last separators leaves the byte that was there
Prefixed(t, arg) ==
  LET trimmed == SubSeq(arg, 1, Max({n \in 0..Len(arg) : n = 0 \/ arg[n] # Slash}))
  IN  (IF trimmed # << >> THEN Append(trimmed, Slash)
       ELSE IF t = << >> THEN << Nul >> ELSE << t[1] >>) \o t

\* js_path_resolve
Resolve(cwd, args) ==
  LET all  == FoldRight(LAMBDA arg, t : Prefixed(t, arg), args, << >>)
      full == Collapse(IF IsAbsolute(all) THEN all ELSE Prefixed(all, cwd))
  IN  [full EXCEPT !.text = SubSeq(@, 1, Max({n \in 0..Len(@) : n = 0 \/ @[n] # Slash}))]

----------------------------------------------------------------------------
(* relative                                                                *)

RECURSIVE CommonPrefix(_, _)

\* A mutant: the components are compared as far as the shorter one goes.
CommonPrefixText(s1, s2) ==
  LET same == {n \in 0..Min({Len(s1), Len(s2)}) : SubSeq(s1, 1, n) = SubSeq(s2, 1, n)}
  IN  << Max(same), Max(same) >>

\* path_common_prefix: what is skipped of each
CommonPrefix(s1, s2) ==
  LET i1 == SkipSeparator(s1)
      i2 == SkipSeparator(s2)
      c1 == First(Drop(s1, i1))
      c2 == First(Drop(s2, i2))
      more == CommonPrefix(Drop(s1, i1 + Len(c1)), Drop(s2, i2 + Len(c2)))
  IN  IF << >> \in {s1, s2} \/ (i1 = 0) # (i2 = 0) THEN << 0, 0 >>
      ELSE IF c1 # c2 THEN << i1, i2 >>
      ELSE << i1 + Len(c1) + more[1], i2 + Len(c2) + more[2] >>

\* the ".." for what is left of relative_to
RECURSIVE Ups(_)
Ups(t) == IF t = << >> THEN << >> ELSE Append(DotDot, Slash) \o Ups(Drop(t, Skip(t)))

\* path_relative_b
Relative(s1, s2) ==
  LET p    == CommonPrefix(s1, s2)
      down == Drop(s1, p[1])
      out  == Ups(Drop(s2, p[2])) \o Drop(down, SkipSeparator(down))
  IN  IF out = << >> THEN CurDir ELSE IF Ends(out, Slash) THEN Front(out) ELSE out

----------------------------------------------------------------------------
(* Properties.                                                             *)

\* Of two paths from the root, without "." or ".." in them, relative leads from
\* one to the other: resolve comes to a from b by it, by no more components than
\* it takes, and stays inside of its buffer if they have their first name in
\* common.  A path with more than one name is what its parts are put together to.
PathRelates(cwd, a, b) ==
  LET far       == Len(a) + Len(b) + 1
      way       == Relative(a, b)
      back      == Resolve(cwd, << b, way >>)
      names(t)  == Components(t, far)
      common    == Components(SubSeq(a, 1, CommonPrefix(a, b)[1]), far)
      together  == First(Tail(a)) = First(Tail(b))
  IN  /\ a # b => /\ back.text = a
                  /\ together => ~back.astray
                  /\ names(way) = names(a) + names(b) - 2 * common
      /\ names(a) > 1 <=> Format(Parse(a)) = a
      /\ Join(<< Dirname(a), Basename(a) >>) = IF names(a) > 1 THEN a ELSE Basename(a)
      /\ Concat(b, << Period, Slash >> \o Tail(a)) = Join(<< b, Tail(a) >>)
=============================================================================
