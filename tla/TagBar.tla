------------------------------- MODULE TagBar -------------------------------
(***************************************************************************)
(* The bar of tags above the pages of the console: the store multiTags and *)
(* lay-tag/index.vue.  A tag is the path it leads to.  Indexes are those   *)
(* of the code: from 0, and -1 for a path without a tag.                   *)
(***************************************************************************)
EXTENDS Integers, Sequences, SequencesExt

CONSTANTS Home,     \* the fixed tag, whose path has no route
          Top,      \* the first page of the menu
          Pages     \* the pages of the menu

ASSUME TagBarAssumption == Top \in Pages /\ Home \notin Pages

VARIABLES
    tags,       \* multiTags
    menu,       \* tagsViews: the commands hidden, the commands disabled
    select      \* currentSelect while the context menu is open, or NoTag

NoTag == "none"

\* The commands, by their key.
Refresh    == 0
CloseThis  == 1
CloseLeft  == 2
CloseRight == 3
CloseOther == 4
CloseAll   == 5
Commands == 0..5

HasTag(list, path) == path \in ToSet(list)

IndexOf(list, path) ==
    IF HasTag(list, path) THEN SelectInSeq(list, LAMBDA t : t = path) - 1 ELSE -1

\* Mutant of Push: nobody looks for the tag.
PushAgain(list, path) == Append(list, path)

\* handleTags("push").
Push(list, path) == IF HasTag(list, path) THEN list ELSE Append(list, path)

\* Array.prototype.splice: a negative start counts from the end, a negative
\* length removes nothing.
Splice(list, start, length) ==
    LET from == IF start < 0 THEN IF start + Len(list) < 0 THEN 0 ELSE start + Len(list)
                ELSE IF start > Len(list) THEN Len(list) ELSE start
        past == IF length < 0 THEN from
                ELSE IF from + length > Len(list) THEN Len(list) ELSE from + length
    IN  SubSeq(list, 1, from) \o SubSeq(list, past + 1, Len(list))

\* Mutant of Remaining: the tags left of the clicked one, the home tag too.
RemainingFrom0(list, path, how) ==
    LET i == IndexOf(list, path)
    IN  CASE how = CloseThis  -> Splice(list, i, 1)
          [] how = CloseLeft  -> Splice(list, 0, i)
          [] how = CloseRight -> Splice(list, i + 1, Len(list))
          [] how = CloseOther -> <<Home, path>>

\* deleteDynamicTag: what is left.  The one fixed tag is the home tag.
Remaining(list, path, how) ==
    LET i == IndexOf(list, path)
    IN  CASE how = CloseThis  -> Splice(list, i, 1)
          [] how = CloseLeft  -> Splice(list, 1, i - 1)
          [] how = CloseRight -> Splice(list, i + 1, Len(list))
          [] how = CloseOther -> <<Home, path>>

\* deleteDynamicTag: where it then goes, with the page `route` on the screen.
\* With no tag left and the page's own one closed it fails.
Leads(list, path, how, route) ==
    IF path = route
    THEN IF how = CloseLeft \/ list = <<>> THEN NoTag ELSE Last(list)
    ELSE IF list = <<>> \/ HasTag(list, route) THEN NoTag ELSE Last(list)

\* showMenuModel: the commands for the page or tag `path`.
MenuFor(list, path) ==
    LET i == IndexOf(list, path)
        n == Len(list)
    IN  IF i = 1 /\ n # 2 THEN [hidden |-> {CloseLeft}, disabled |-> {CloseLeft}]
        ELSE IF i = 1 THEN [hidden |-> {CloseLeft, CloseRight, CloseOther},
                            disabled |-> {CloseLeft, CloseRight, CloseOther}]
        ELSE IF i = n - 1 /\ i # 0 THEN [hidden |-> {CloseRight}, disabled |-> {CloseRight}]
        ELSE IF i = 0 THEN [hidden |-> {}, disabled |-> Commands \ {Refresh}]
        ELSE [hidden |-> {}, disabled |-> {}]

\* The bar is not on the screen.
NoMenu == [hidden |-> {}, disabled |-> {}]

\* It leaves alone whether "refresh" is hidden.
ShowMenu(list, path) ==
    [MenuFor(list, path) EXCEPT !.hidden = @ \cup (menu.hidden \cap {Refresh})]

\* openMenu, on `tag` with `route` on the screen.
ContextMenu(tag, route) ==
    IF tag = Top THEN [menu EXCEPT !.hidden = Commands \ {Refresh}]
    ELSE IF tag # route
         THEN [MenuFor(tags, tag) EXCEPT !.hidden = @ \cup {Refresh}]
         ELSE MenuFor(tags, tag)

=============================================================================
