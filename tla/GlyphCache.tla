----------------------------- MODULE GlyphCache -----------------------------
(***************************************************************************)
(* CharacterBasedFont: the glyphs of the characters shown, drawn into the  *)
(* slots of textures.  A slot nobody shows waits in the circular list      *)
(* m_slots, still holding its glyph, until the list's first slot is taken  *)
(* for another character; with an empty list a texture is added.  IPhoneFont draws *)
(* a character and may fail; so may the memory it is scaled in.            *)
(***************************************************************************)
EXTENDS Naturals, Sequences, FiniteSets, Functions

CONSTANTS
  Char,        \* WCHAR, without 0
  None,        \* the character 0, and NULL
  PerBlock,    \* SLOT_BLOCK_SIZE
  MaxBlocks,   \* bound: textures
  MaxLength,   \* bound: characters of a string
  MaxStrings   \* bound: strings shown at once

Slot == 1 .. PerBlock * MaxBlocks
Text == UNION {[1 .. n -> Char] : n \in 1 .. MaxLength}

VARIABLES
  font,    \* m_slots, m_charMap, the CharInfo of every slot, the textures
  strings  \* the strings shown: their text and the glyphs CreateString gave them

vars == <<font, strings>>

Empty == [m_slots |-> None, m_charMap |-> <<>>, blocks |-> 0,
          pNext |-> [s \in Slot |-> None], pPrev |-> [s \in Slot |-> None],
          refCount |-> [s \in Slot |-> 0], character |-> [s \in Slot |-> None]]

Init == font = Empty /\ strings = {}

-----------------------------------------------------------------------------
(* The list.                                                               *)

\* before the first slot, which is after the last
Linked(f, s) ==
  IF f.m_slots = None
  THEN [f EXCEPT !.m_slots = s, !.pNext[s] = s, !.pPrev[s] = s]
  ELSE LET last == f.pPrev[f.m_slots] IN
       [f EXCEPT !.pNext = [@ EXCEPT ![s] = f.m_slots, ![last] = s],
                 !.pPrev = [@ EXCEPT ![s] = last, ![f.m_slots] = s]]

AppendCharInfoBack(f, s) == Linked(f, s)
AppendCharInfoFront(f, s) == [Linked(f, s) EXCEPT !.m_slots = s]

\* the neighbours are those of when the slot was in the list
RemoveCharInfo(f, s) ==
  LET prev == [f.pPrev EXCEPT ![f.pNext[s]] = f.pPrev[s]]
      next == [f.pNext EXCEPT ![prev[s]] = f.pNext[s]]
  IN  [f EXCEPT !.pPrev = prev, !.pNext = next,
                !.m_slots = IF @ # s THEN @ ELSE IF next[s] = s THEN None ELSE next[s]]

-----------------------------------------------------------------------------
(* Strings.                                                                *)
Cached(f, c) == c \in DOMAIN f.m_charMap

EraseFromMap(f, c) == [f EXCEPT !.m_charMap = Restrict(@, DOMAIN @ \ {c})]

\* AppendRes, with a texture: its slots are all free
SlotFrom(f, i) == f.blocks * PerBlock + i
AppendRes(f) ==
  LET with[i \in 0 .. PerBlock] ==
        IF i = 0 THEN f ELSE AppendCharInfoFront(with[i - 1], SlotFrom(f, i))
  IN  [with[PerBlock] EXCEPT !.blocks = @ + 1]

\* a character that has a slot
Reused(f, c) ==
  LET s == f.m_charMap[c]
      unlinked == IF f.refCount[s] = 0 THEN RemoveCharInfo(f, s) ELSE f
  IN  [unlinked EXCEPT !.refCount[s] = @ + 1]

\* the first free slot, without its old glyph
Taken(f) ==
  LET s == f.m_slots
      removed == RemoveCharInfo(f, s)
  IN  IF f.character[s] = None THEN removed
      ELSE [EraseFromMap(removed, f.character[s]) EXCEPT !.character[s] = None]

\* the character is drawn; nothing counts the use of the slot
Drawn(f, s, c) == [f EXCEPT !.character[s] = c,
                            !.m_charMap = [d \in DOMAIN @ \cup {c} |-> IF d = c THEN s ELSE @[d]]]

Roomy(f) == IF f.m_slots = None THEN AppendRes(f) ELSE f
CanGrow(f) == f.m_slots # None \/ f.blocks < MaxBlocks

\* how CreateString goes on for one character: done, or what a failure leaves
Step(f, c) == IF Cached(f, c) THEN Reused(f, c)
              ELSE LET roomy == Roomy(f) IN Drawn(Taken(roomy), roomy.m_slots, c)

Failed(f) ==
  {f : x \in IF f.m_slots = None THEN {1} ELSE {}}
  \cup {AppendCharInfoFront(Taken(Roomy(f)), Roomy(f).m_slots) : x \in IF CanGrow(f) THEN {1} ELSE {}}

\* DestroyString: a character whose count is 0 already is not looked at
Released(f, c) ==
  IF ~Cached(f, c) THEN f
  ELSE LET s == f.m_charMap[c] IN
       IF f.refCount[s] = 0 THEN f
       ELSE LET less == [f EXCEPT !.refCount[s] = @ - 1]
            IN  IF less.refCount[s] = 0 THEN AppendCharInfoBack(less, s) ELSE less

After(f, text, n) ==
  LET step[i \in 0 .. n] == IF i = 0 THEN f ELSE Step(step[i - 1], text[i]) IN step[n]
Without(f, text, n) ==
  LET step[i \in 0 .. n] == IF i = 0 THEN f ELSE Released(step[i - 1], text[i]) IN step[n]

\* no step needs more textures than there may be
WithinBound(text) ==
  \A n \in 0 .. Len(text) - 1 : LET f == After(font, text, n) IN
    Cached(f, text[n + 1]) \/ CanGrow(f)

CreateString(text) ==
  /\ Cardinality(strings) < MaxStrings
  /\ ~\E s \in strings : s.text = text
  /\ WithinBound(text)
  /\ font' = After(font, text, Len(text))
  /\ strings' = strings \cup
       {[text |-> text,
         glyph |-> [i \in 1 .. Len(text) |-> After(font, text, i).m_charMap[text[i]]]]}

CreateStringFails(text) ==
  /\ WithinBound(text)
  /\ \E n \in 1 .. Len(text) : LET before == After(font, text, n - 1) IN
       /\ ~Cached(before, text[n])
       /\ \E f \in Failed(before) : font' = Without(f, text, n - 1)
  /\ UNCHANGED strings

DestroyString(s) == /\ font' = Without(font, s.text, Len(s.text))
                    /\ strings' = strings \ {s}

\* SetGraphicContext, between scenes: the strings are given up
SetGraphicContext == /\ strings # {}
                     /\ font' = Empty
                     /\ strings' = {}

Next == \/ \E text \in Text : CreateString(text) \/ CreateStringFails(text)
        \/ \E s \in strings : DestroyString(s)
        \/ SetGraphicContext

Spec == Init /\ [][Next]_vars

-----------------------------------------------------------------------------
\* The map and the slots name each other: a character that is found has its own
\* slot, with its glyph, whatever characters came, went and could not be drawn,
\* and a slot that may be taken or found has neighbours to be unlinked from.
MapAgrees ==
  /\ \A s \in Range(font.m_charMap) \cup ({font.m_slots} \ {None}) :
       font.pNext[s] # None /\ font.pPrev[s] # None
  /\ \A c \in DOMAIN font.m_charMap : font.character[font.m_charMap[c]] = c
  /\ \A s \in Slot : font.character[s] # None =>
       font.character[s] \in DOMAIN font.m_charMap /\ font.m_charMap[font.character[s]] = s

=============================================================================
