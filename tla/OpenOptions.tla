----------------------------- MODULE OpenOptions -----------------------------
(* How f4kvs_engine_open_ex turns the caller's F4KvsOpenOptions into an    *)
(* engine configuration.  The caller may have been compiled against an     *)
(* older or a newer header: struct_size says how many bytes of the struct  *)
(* are there, and a first word below MinVersioned marks the layout that    *)
(* had no struct_size at all.                                              *)
EXTENDS Naturals

CONSTANTS
    Preset,     \* WalDurability::apply_to: durability -> the fields it sets
    Defaults,   \* LsmConfig::default(), as open_lsm_engine changes it
    None        \* no options; no idle flush

Fields == {"group_commit_enabled", "group_commit_max_wait_ms", "group_commit_max_batch_size",
           "group_commit_wait_durable", "wal_engine", "wal_durability",
           "group_commit_idle_flush_ms", "max_batch_size", "compaction_background",
           "max_sstables_per_level", "memtable_max_size", "sstable_target_size",
           "sstable_max_size"}

\* The first byte after each field in the #[repr(C)] layout, and its size.
EndOf == [group_commit_enabled |-> 5, group_commit_max_wait_ms |-> 12,
          group_commit_max_batch_size |-> 16, group_commit_wait_durable |-> 17,
          wal_engine |-> 18, wal_durability |-> 19, group_commit_idle_flush_ms |-> 24,
          max_batch_size |-> 28, compaction_background |-> 29, max_sstables_per_level |-> 36,
          memtable_max_size |-> 40, sstable_target_size |-> 44, sstable_max_size |-> 48]
SizeOf == 48
MinVersioned == 8

\* The fields of an engine configuration that options are about.
GroupFields == {"group_commit_enabled", "group_commit_max_wait", "group_commit_max_batch_size",
                "group_commit_wait_durable", "group_commit_idle_flush"}
TreeFields == {"wal_engine", "max_batch_size", "background_enabled", "max_sstables_per_level",
               "memtable_max_size", "sstable_target_size", "sstable_max_size"}

ASSUME OptionsAssumption ==
    /\ DOMAIN Preset = {"Strict", "Amortized", "Buffered"}
    /\ \A d \in DOMAIN Preset : DOMAIN Preset[d] \subseteq GroupFields
    /\ DOMAIN Defaults = GroupFields \cup TreeFields
    /\ Defaults.background_enabled = TRUE
    /\ Defaults.sstable_target_size \in Nat \ {0} /\ Defaults.sstable_max_size \in Nat
    /\ None \notin [Fields -> Nat] /\ None \notin [size : Nat, memory : [Fields -> Nat]]

-----------------------------------------------------------------------------
AtMost(a, b) == IF a <= b THEN a ELSE b

\* Mutant: the whole struct is copied, whatever the caller declared.
read_open_options_whole(p) == IF p = None THEN None ELSE p.memory

\* p is NULL, or what is at the pointer: the memory there, field by field,
\* and the declared size.  Fields behind that size read as zero.
read_open_options(p) ==
    IF p = None THEN None
    ELSE IF p.size < MinVersioned THEN p.memory
    ELSE [f \in Fields |-> IF EndOf[f] <= AtMost(p.size, SizeOf) THEN p.memory[f] ELSE 0]

WalDurability(byte) ==
    CASE byte = 1 -> "Amortized" [] byte = 2 -> "Buffered" [] OTHER -> "Strict"

WalEngine(byte) == CASE byte = 1 -> "Frame" [] byte = 2 -> "Indexed" [] OTHER -> "Segment"

\* A configuration with a field set unless the option is zero.
Set(c, field, option) == [c EXCEPT ![field] = IF option > 0 THEN option ELSE @]

\* The group commit options, applied on top of the preset.
GroupCommit(c, o, durability) ==
    LET c1 == [c EXCEPT !.group_commit_enabled = @ \/ o.group_commit_enabled # 0]
        c2 == Set(c1, "group_commit_max_wait", o.group_commit_max_wait_ms)
        c3 == Set(c2, "group_commit_max_batch_size", o.group_commit_max_batch_size)
        c4 == [c3 EXCEPT !.group_commit_wait_durable = @ \/ o.group_commit_wait_durable # 0]
        c5 == [c4 EXCEPT !.group_commit_idle_flush =
                  IF o.group_commit_idle_flush_ms > 0 THEN o.group_commit_idle_flush_ms
                  ELSE IF durability = "Amortized" /\ @ = None THEN 100 ELSE @]
    IN  [c5 EXCEPT !.group_commit_max_wait =
            IF durability = "Amortized" /\ o.group_commit_max_wait_ms = 0 THEN 50 ELSE @]

\* Mutant: the raised maximum is forgotten.
Sizing_unraised(c, o) ==
    LET c1 == Set(c, "memtable_max_size", o.memtable_max_size)
        c2 == Set(c1, "sstable_target_size", o.sstable_target_size)
    IN  Set(c2, "sstable_max_size", o.sstable_max_size)

Sizing(c, o) ==
    LET c1 == Set(c, "memtable_max_size", o.memtable_max_size)
        c2 == Set(c1, "sstable_target_size", o.sstable_target_size)
        c3 == Set(c2, "sstable_max_size", o.sstable_max_size)
    IN  [c3 EXCEPT !.sstable_max_size =
            IF @ < c3.sstable_target_size THEN c3.sstable_target_size ELSE @]

apply_to(c, durability) ==
    [f \in DOMAIN c |-> IF f \in DOMAIN Preset[durability] THEN Preset[durability][f] ELSE c[f]]

Applied(c, o) ==
    LET durability == WalDurability(o.wal_durability)
        c1 == GroupCommit(apply_to(c, durability), o, durability)
        c2 == [c1 EXCEPT !.wal_engine = WalEngine(o.wal_engine)]
        c3 == Set(c2, "max_batch_size", o.max_batch_size)
        c4 == [c3 EXCEPT !.background_enabled = CASE o.compaction_background = 2 -> FALSE
                                                  [] o.compaction_background = 1 -> TRUE
                                                  [] OTHER -> @]
        c5 == Set(c4, "max_sstables_per_level", o.max_sstables_per_level)
    IN  Sizing(c5, o)

apply_open_options(c, o) == IF o = None THEN c ELSE Applied(c, o)

-----------------------------------------------------------------------------
(* The options of the Go binding.                                          *)

Byte(b) == IF b THEN 1 ELSE 0

\* An OpenOptions of Go, its fields under their C names: the flags are
\* booleans there, the other fields have the width they have in C.
CopyOptions(o) ==
    IF o = None THEN None
    ELSE [size |-> SizeOf,
          memory |-> [o EXCEPT !.group_commit_enabled = Byte(@),
                               !.group_commit_wait_durable = Byte(@)]]

-----------------------------------------------------------------------------
(* What f4kvs.h says of the options.                                       *)

\* What the caller said: zero for a field its header did not have.
Said(p, f) == IF p.size = 0 \/ EndOf[f] <= p.size THEN p.memory[f] ELSE 0

\* The configuration c is the one the header describes for options p, field
\* by field and independently of the order of assignments: an option that is
\* not zero wins over the preset, the preset over the default.  One field is
\* not as f4kvs.h:84 has it ("0 = default 10 ms"): without a wait of the
\* caller's the amortized preset gets 50 ms, as the benchmark's main.go:260
\* says.
Documented(c, p) ==
    LET said(f) == Said(p, f)
        d == WalDurability(said("wal_durability"))
        base(f) == IF f \in DOMAIN Preset[d] THEN Preset[d][f] ELSE Defaults[f]
        or(f, default) == IF said(f) # 0 THEN said(f) ELSE default
    IN  /\ c.group_commit_enabled = (said("group_commit_enabled") # 0 \/ base("group_commit_enabled"))
        /\ c.group_commit_wait_durable =
               (said("group_commit_wait_durable") # 0 \/ base("group_commit_wait_durable"))
        /\ c.group_commit_max_batch_size =
               or("group_commit_max_batch_size", base("group_commit_max_batch_size"))
        /\ c.group_commit_idle_flush =
               or("group_commit_idle_flush_ms",
                  IF d = "Amortized" /\ base("group_commit_idle_flush") = None
                  THEN 100 ELSE base("group_commit_idle_flush"))
        /\ c.group_commit_max_wait =
               or("group_commit_max_wait_ms",
                  IF d = "Amortized" THEN 50 ELSE base("group_commit_max_wait"))
        /\ \A f \in {"max_batch_size", "max_sstables_per_level", "memtable_max_size",
                     "sstable_target_size"} : c[f] = or(f, Defaults[f])
        /\ c.background_enabled = (said("compaction_background") # 2)
        /\ c.wal_engine = WalEngine(said("wal_engine"))

\* sstable_max_size: "Raised automatically if below sstable_target_size", and
\* otherwise what the caller asked for, or without that the default.
Covers(c, p) ==
    LET said == Said(p, "sstable_max_size")
        asked == IF said # 0 THEN said ELSE Defaults.sstable_max_size
    IN  /\ asked >= c.sstable_target_size => c.sstable_max_size = asked
        /\ asked < c.sstable_target_size => c.sstable_max_size = c.sstable_target_size
=============================================================================
