----------------------------- MODULE ChannelMenu ----------------------------
(***************************************************************************)
(* The list of channels on the terminal (curses_app.py): which one is      *)
(* selected, and which part of the list is drawn.                          *)
(***************************************************************************)
EXTENDS Integers, Sequences

CONSTANTS Page,     \* how far the page keys go, 15 rows in the code
          Heights   \* the heights that the terminal can have

ASSUME MenuAssumption == Page \in Nat \ {0} /\ Heights \subseteq Nat \ {0}

VARIABLES channel_list, selected, scroll, height,
          resized   \* since the list was last drawn from its top

menu == <<channel_list, selected, scroll, height, resized>>

nelem == Len(channel_list)

\* Variant: a row too late.
BelowLate(s) == s > height - 1 + scroll
\* Whether row s lies below what is drawn; the last line is the status bar.
Below(s) == s >= height - 1 + scroll

KeyUp ==
    /\ selected' = IF selected > 0 THEN selected - 1 ELSE selected
    /\ scroll' = IF selected' > scroll THEN scroll
                 ELSE IF scroll > 1 THEN scroll - 1 ELSE 0
    /\ UNCHANGED <<channel_list, height, resized>>

KeyDown ==
    /\ selected' = IF selected < nelem - 1 THEN selected + 1 ELSE selected
    /\ scroll' = IF selected' = height - 1 + scroll THEN scroll + 1 ELSE scroll
    /\ UNCHANGED <<channel_list, height, resized>>

PageUp ==
    /\ selected' = IF selected >= Page THEN selected - Page ELSE 0
    /\ scroll' = IF selected' > height - 1 + scroll THEN scroll
                 ELSE IF scroll >= Page THEN scroll - Page ELSE 0
    /\ UNCHANGED <<channel_list, height, resized>>

PageDown ==
    /\ selected' = IF selected < nelem - Page THEN selected + Page ELSE nelem - 1
    /\ scroll' = IF Below(selected') THEN scroll + Page ELSE scroll
    /\ UNCHANGED <<channel_list, height, resized>>

\* Variant: the list ends at the bottom of the terminal, however short it is.
EndAlways ==
    /\ selected' = nelem - 1
    /\ scroll' = nelem - height + 1
    /\ UNCHANGED <<channel_list, height, resized>>
End ==
    /\ selected' = nelem - 1
    /\ scroll' = IF Below(selected') THEN nelem - height + 1 ELSE scroll
    /\ UNCHANGED <<channel_list, height, resized>>

Home ==
    /\ selected' = 0 /\ scroll' = 0 /\ resized' = FALSE
    /\ UNCHANGED <<channel_list, height>>

Resize ==
    /\ height' \in Heights \ {height}
    /\ resized' = TRUE
    /\ UNCHANGED <<channel_list, selected, scroll>>

MenuInit(lists) ==
    /\ channel_list \in lists /\ height \in Heights
    /\ selected = 0 /\ scroll = 0 /\ resized = FALSE

\* The rows that are drawn.
Rows == {r \in scroll..(nelem - 1) : r < scroll + height - 1}

MenuTypeOK ==
    /\ selected \in -1..nelem /\ (nelem > 0 => selected \in 0..(nelem - 1))
    /\ scroll \in Nat /\ height \in Heights /\ resized \in BOOLEAN

\* The selected channel can be seen, whatever keys were pressed, as long as a
\* page is not longer than what is drawn (the keys of draw_menu() change
\* `selected' and `scroll' by rules of their own, each key by another one).
SelectedVisible ==
    nelem > 0 /\ ~resized /\ height > Page /\ height > 2 => selected \in Rows
=============================================================================
