---------------------------- MODULE Customizations ----------------------------
(***************************************************************************)
(* The customization groups of a menu item and the choices they admit      *)
(* (backend/internal/checkout/service.go: validateCustomizations).         *)
(***************************************************************************)
EXTENDS Integers, SequencesExt

CONSTANTS
    Item,      \* menu item -> its columns
    Option,    \* option -> item, group, ...
    Group,     \* group -> item, single, min, required, max
    None

Selected(entry, g) == {o \in ToSet(entry.options) : Option[o].group = g}

\* validateCustomizations, and the option's item as Checkout checks it again
ValidCustomizations(entry) ==
    /\ IsInjective(entry.options)
    /\ \A o \in ToSet(entry.options) : Option[o].item = entry.item
    /\ \A g \in {g \in DOMAIN Group : Group[g].item = entry.item} :
          LET count == Cardinality(Selected(entry, g))
              least == IF Group[g].min = 0 /\ Group[g].required THEN 1 ELSE Group[g].min
          IN  /\ count >= least
              /\ Group[g].single => count <= 1
              /\ Group[g].max > 0 => count <= Group[g].max
===============================================================================
