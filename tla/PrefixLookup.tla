---------------------------- MODULE PrefixLookup ----------------------------
(***************************************************************************)
(* Which blocks of an input the cache groups keep, need and publish, and   *)
(* the lookup loop that finds where a request may start.  A block is a     *)
(* pair <<group, index>>; cached is a set of blocks.                       *)
(***************************************************************************)
EXTENDS Integers, Sequences, FiniteSetsExt

CONSTANTS
  Groups,     \* the cache groups of the profile, in order: records
              \* [kind, block, window, ratio], kind "dense" or "window"
  Alignment   \* the profile's alignment, a multiple of every block

GroupIds == DOMAIN Groups

ASSUME GroupsAssumption ==
  /\ Groups \in Seq({Groups[g] : g \in GroupIds})
  /\ Alignment \in Nat \ {0}
  /\ \A g \in GroupIds :
       /\ Groups[g].kind \in {"dense", "window"}
       /\ Groups[g].block \in Nat \ {0} /\ Alignment % Groups[g].block = 0
       /\ Groups[g].kind = "dense" =>
            Groups[g].ratio \in Nat \ {0} /\ Groups[g].block % Groups[g].ratio = 0
       /\ Groups[g].kind = "window" => Groups[g].window \in Nat \ {0}

Ceil(a, b) == (a + b - 1) \div b
AtLeast0(x) == IF x < 0 THEN 0 ELSE x

(* The full blocks of the first n tokens. *)
AllBlocks(n) == UNION {{g} \X (0 .. (n \div Groups[g].block) - 1) : g \in GroupIds}

(* The first block a window group still needs when start tokens are done. *)
FirstKept(g, start) == AtLeast0(start - Groups[g].window + 1) \div Groups[g].block

(* required_indices: dense groups divide progress by the ratio first. *)
Required(g, target, start) ==
  LET G == Groups[g]
  IN  IF G.kind = "dense"
      THEN 0 .. Ceil(target \div G.ratio, G.block \div G.ratio) - 1
      ELSE FirstKept(g, start) .. Ceil(target, G.block) - 1

(* Mutant of Need: the window counted without its own token. *)
NeedShort(g) == Ceil(Groups[g].window - 2, Groups[g].block)

(* Blocks before a boundary that a window group needs to continue there. *)
Need(g) == Ceil(Groups[g].window - 1, Groups[g].block)

(* The blocks of group g whose state a request needs to start at c. *)
Recovery(g, c) ==
  LET end == c \div Groups[g].block
  IN  (IF Groups[g].kind = "dense" THEN 0 ELSE AtLeast0(end - Need(g))) .. end - 1

(* Mutant of Retained: off by one at the first block a boundary needs. *)
RetainedShort(g, i) ==
  LET per == Alignment \div Groups[g].block
  IN  Groups[g].kind = "dense" \/ i % per > per - Need(g)

(* A committed block is published when some boundary needs it. *)
Retained(g, i) ==
  LET per == Alignment \div Groups[g].block
  IN  Groups[g].kind = "dense" \/ i % per >= per - Need(g)

Recoverable(cached, g, c) == {g} \X Recovery(g, c) \subseteq cached
Aligned(x) == (x \div Alignment) * Alignment
Boundaries(c) == {x \in 0 .. c : x % Alignment = 0}

(* One group lowers the candidate to what it can recover. *)
Lower(cached, g, c) ==
  LET b == Groups[g].block
      found == Min({c \div b} \cup {i \in 0 .. (c \div b) - 1 : <<g, i>> \notin cached})
  IN  IF Groups[g].kind = "dense" THEN Aligned(found * b)
      ELSE Max({x \in Boundaries(c) : x = 0 \/ Recoverable(cached, g, x)})

(* One round: every group in order. *)
Round(cached, c) ==
  LET low[g \in 0 .. Len(Groups)] == IF g = 0 THEN c ELSE Lower(cached, g, low[g - 1])
  IN  low[Len(Groups)]

(* Mutant of Hit: one round over the groups. *)
HitOnce(cached, n) == Round(cached, Aligned(n - 1))

(* All groups in order, again until a round leaves the candidate alone. *)
Hit(cached, n) ==
  LET settle[c \in Boundaries(n - 1)] ==
        IF Round(cached, c) = c THEN c ELSE settle[Round(cached, c)]
  IN  settle[Aligned(n - 1)]
=============================================================================
