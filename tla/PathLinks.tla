------------------------------- MODULE PathLinks -------------------------------
(***************************************************************************)
(* path_normalize (path.c): a path without ".", ".." and symbolic links.   *)
(*                                                                         *)
(* A file system is [links |-> where the symbolic links are and what they  *)
(* say, cwd |-> the current directory, a sequence of names].               *)
(***************************************************************************)
EXTENDS Path

CONSTANT MaxLinks   \* the number of links the kernel, and a walk, follow

RECURSIVE Names(_)
Names(t) ==
  LET s == Drop(t, SkipSeparator(t))
  IN  IF s = << >> THEN << >> ELSE << First(s) >> \o Names(Drop(s, Len(First(s))))

Text(names) == FlattenSeq([i \in DOMAIN names |-> << Slash >> \o names[i]])

----------------------------------------------------------------------------
(* The kernel.                                                             *)

Base(fs, t) == IF IsAbsolute(t) THEN << >> ELSE fs.cwd

Stand(dir, step) == [dir |-> dir, step |-> step]

\* the directories one stands in on the way along the names, and how one came
\* there; too many links end in a step "loop"
RECURSIVE Trail(_, _, _, _)
Trail(fs, dir, names, left) ==
  IF names = << >> THEN << Stand(dir, "end") >>
  ELSE LET name == names[1]
           at   == Append(dir, name)
           up   == IF dir = << >> THEN dir ELSE Front(dir)
           on(d, ns, n) == Trail(fs, d, ns \o Tail(names), n)
       IN  CASE name = CurDir -> on(dir, << >>, left)
             [] name = DotDot -> << Stand(up, "up") >> \o on(up, << >>, left)
             [] name \notin {CurDir, DotDot} /\ at \notin DOMAIN fs.links ->
                  << Stand(at, "name") >> \o on(at, << >>, left)
             [] name \notin {CurDir, DotDot} /\ at \in DOMAIN fs.links ->
                  IF left = 0 THEN << Stand(dir, "loop") >>
                  ELSE IF IsAbsolute(fs.links[at])
                       THEN << Stand(<< >>, "root") >> \o on(<< >>, Names(fs.links[at]), left - 1)
                       ELSE << Stand(dir, "link") >> \o on(dir, Names(fs.links[at]), left - 1)

Arrives(fs, t) == Last(Trail(fs, Base(fs, t), Names(t), MaxLinks))

\* stat
Exists(fs, t) == Arrives(fs, t).step = "end"

\* where lstat and readlink look
Place(fs, t) ==
  Append(Last(Trail(fs, Base(fs, t), Front(Names(t)), MaxLinks)).dir, Last(Names(t)))

----------------------------------------------------------------------------
(* path_normalize.  A walk is what is left of the path, how much of buf was *)
(* before it (NotInBuf if it is not in there), the result so far, and how   *)
(* the walk ended.                                                          *)

NotInBuf == -1

Going(rest, used, out) == [rest |-> rest, used |-> used, out |-> out]

EndsIn(end, out) == [end |-> end, out |-> out]

\* the names put one behind the other
Added(out, name) == (IF out = << >> \/ Ends(out, Slash) THEN out ELSE Append(out, Slash)) \o name

\* a link read into buf goes over what is left there of the one before
Overwrites(s, to, rest) ==
  s.used # NotInBuf /\ (Len(to) > s.used \/ (Len(to) = s.used /\ ~IsAbsolute(to) /\ rest # << >>))

RECURSIVE Walk(_, _, _, _)

\* A mutant: the target is taken from the link, not from where it is.
LinkFollowedInside(fs, symbolic, s, to, left) ==
  IF IsAbsolute(to) THEN Walk(fs, symbolic, Going(to \o s.rest, 0, Append(s.out, Slash)), left)
  ELSE LET inner == Walk(fs, symbolic, Going(to, NotInBuf, s.out), left)
       IN  IF inner.end # "ok" THEN inner
           ELSE Walk(fs, symbolic, [s EXCEPT !.out = inner.out], left)

\* s.out leads to a link to "to".  An absolute target comes after s.out, which
\* dbuf_zero does not empty: it asks for no more room.
LinkFollowed(fs, symbolic, s, to, left) ==
  IF IsAbsolute(to) THEN Walk(fs, symbolic, Going(to \o s.rest, 0, Append(s.out, Slash)), left)
  ELSE IF Right(s.out) = Outside THEN EndsIn("astray", s.out)
  ELSE LET inner == Walk(fs, symbolic, Going(to, NotInBuf, SubSeq(s.out, 1, Right(s.out))), left)
       IN  IF inner.end # "ok" THEN inner
           ELSE Walk(fs, symbolic, [s EXCEPT !.out = inner.out], left)

\* the loop of path_normalize; symbolic makes it ask lstat whether there is
\* something, and not stat
Walk(fs, symbolic, s, left) ==
  LET skipped == SkipSeparator(s.rest)
      name    == First(Drop(s.rest, skipped))
      used    == IF s.used = NotInBuf THEN NotInBuf ELSE s.used + skipped + Len(name)
      on(out) == Going(Drop(s.rest, skipped + Len(name)), used, out)
      out     == Added(s.out, name)
      isLink  == (symbolic \/ Exists(fs, out)) /\ Place(fs, out) \in DOMAIN fs.links
      to      == fs.links[Place(fs, out)]
  IN  IF name = << >> THEN EndsIn("ok", IF s.out = << >> THEN << Slash >> ELSE s.out)
      ELSE IF name = CurDir THEN Walk(fs, symbolic, on(s.out), left)
      ELSE IF name = DotDot
           THEN IF Right(s.out) = Outside THEN EndsIn("astray", s.out)
                ELSE Walk(fs, symbolic, on(SubSeq(s.out, 1, Right(s.out))), left)
      ELSE IF ~isLink THEN Walk(fs, symbolic, on(out), left)
      ELSE IF left = 0 THEN EndsIn("endless", s.out)
      ELSE IF Overwrites(on(out), to, on(out).rest) THEN EndsIn("astray", out)
      ELSE LinkFollowed(fs, symbolic, on(out), to, left - 1)

Normalize(fs, path, symbolic) ==
  Walk(fs, symbolic,
       IF IsAbsolute(path) THEN Going(Tail(path), NotInBuf, << Slash >>)
       ELSE Going(path, NotInBuf, << >>), MaxLinks)

----------------------------------------------------------------------------
(* Properties.                                                             *)

\* A relative path that names nothing, or a path that is back where it started
\* after a ".." or for a link that is there.
ComesBack(fs, path) ==
  LET trail == Trail(fs, Base(fs, path), Names(path), MaxLinks)
  IN  \/ ~IsAbsolute(path) /\ Len(trail) = 1
      \/ \E i \in DOMAIN trail :
        /\ trail[i].step \in {"up", "link"}
        /\ LET start == IF \E j \in 1..i : trail[j].step = "root" THEN << >> ELSE Base(fs, path)
           IN  Len(trail[i].dir) <= Len(start) \/ ~IsPrefix(start, trail[i].dir)

\* A link to an absolute path is on the way.
OverRoot(fs, path) ==
  LET trail == Trail(fs, Base(fs, path), Names(path), MaxLinks)
  IN  \E i \in DOMAIN trail : trail[i].step = "root"

\* normalize gives the place the path leads to, by names that are no links, if
\* it never comes back to where it started and no link is to an absolute path.
\* Only where it comes back does it go on for ever, or where the links lead round
\* in a circle and are taken for what they are.
PathResolves(fs, path) ==
  LET there == Arrives(fs, path)
      ends(symbolic) == Normalize(fs, path, symbolic).end
  IN  ~ComesBack(fs, path) =>
        /\ there.step = "end" /\ ~OverRoot(fs, path) =>
             LET r == Normalize(fs, path, FALSE)
             IN  r.end = "ok" /\ Base(fs, r.out) \o Names(r.out) = there.dir
        /\ ends(FALSE) # "endless"
        /\ ends(TRUE) = "endless" => there.step = "loop"
=============================================================================
