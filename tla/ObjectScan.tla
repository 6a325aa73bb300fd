----------------------------- MODULE ObjectScan -----------------------------
(***************************************************************************)
(* Finding the references of an object: scan_object of                     *)
(* mmtk/src/object_scanning.rs, with the layout of objects that it relies  *)
(* on (mmtk/src/abi.rs): class flags, reference bitmaps, static fields     *)
(* behind the embedded vtable, arrays, and object sizes.  The object to    *)
(* scan is chosen in Init among the shapes ART builds (external); slots    *)
(* are byte offsets in the object.                                         *)
(***************************************************************************)
EXTENDS Integers, Sequences, FiniteSets, FiniteSetsExt

CONSTANTS
    WordBits,       \* bits of a word of the reference bitmap (32)
    MaxFields,      \* bound on the instance fields of an object
    MaxLength,      \* bound on the length of arrays and strings
    MaxStatics,     \* bound on each number of static fields
    MaxVTable,      \* bound on the length of the embedded vtable
    PointerSizes,   \* values of ART_POINTER_SIZE
    kVisitNativeRoots   \* const parameter of scan_object

ASSUME ShapesAssumption ==
    /\ WordBits \in Nat /\ WordBits > 1
    /\ {MaxFields, MaxLength, MaxStatics, MaxVTable} \subseteq Nat
    /\ PointerSizes \subseteq {4, 8}
    /\ kVisitNativeRoots \in BOOLEAN
    \* The number of bitmap words leaves the flag above it alone.
    /\ \A f \in 0 .. MaxFields + 7 : f \div WordBits + 1 < 2 ^ (WordBits - 1)

OBJECT_HEADER_SIZE == 8
ART_HEAP_REFERENCE_SIZE == 4
SizeOfClass == 120       \* size_of::<Class>()
FirstElement == 12       \* offset_of!(Array, first_element)
SizeOfString == 16       \* size_of::<ArtString>()
MIN_ALIGNMENT == 8

VARIABLES
    obj,           \* the object being scanned
    pc,            \* control of scan_object
    index,         \* bitmap word, static field or array element in hand
    field_offset, ref_offsets,  \* loop variables of visit_one_word
    visited,       \* slots given to the slot visitor so far, in order
    upcalls        \* calls of scan_native_roots and process_referent so far

vars == <<obj, pc, index, field_offset, ref_offsets, visited, upcalls>>

align_up(n, a) == ((n + a - 1) \div a) * a

(***************************************************************************)
(* The shapes of objects (external: what ART's class linker sets up)       *)
(***************************************************************************)
kClassFlagReference == {"SoftReference", "WeakReference",
                        "FinalizerReference", "PhantomReference"}

\* class_flags of the classes whose instances hold fields only.
FieldFlags == {{}, {"Record"}, {"DexCache"}, {"ClassLoader"}}
                \cup {{f} : f \in kClassFlagReference}

FewNulls(S) == {{}} \cup {{x} : x \in S}

\* Fields are numbered in words after the header.
FieldObjects ==
    UNION {{[flags |-> flags, refs |-> refs, nulls |-> nulls] :
              nulls \in FewNulls(refs)} :
           flags \in FieldFlags, refs \in (SUBSET (0 .. MaxFields - 1)) \ {{}}}

ArrayObjects ==
    (UNION {{[flags |-> {"ObjectArray"}, length |-> n, component |-> "Not",
              nulls |-> nulls] : nulls \in SUBSET (0 .. n - 1)} :
            n \in 0 .. MaxLength})
    \cup {[flags |-> {"NoReferenceFields", "PrimitiveArray"}, length |-> n,
           component |-> c, nulls |-> {}] :
             n \in 0 .. MaxLength, c \in {"Byte", "Char", "Int", "Double"}}

StringObjects ==
    {[flags |-> {"NoReferenceFields", "String"}, count |-> c, nulls |-> {}] :
       c \in 0 .. 2 * MaxLength + 1}

\* Values of class status that matter.
NotReady == 0
ErrorResolved == 2
Resolving == 6
Resolved == 7
VisiblyInitialized == 15
StaticKinds == {"ref", "n8", "n16", "n32", "n64"}

\* java.lang.Class objects: the eight reference fields of struct Class, and
\* the static fields of the class they stand for.  All layouts of a resolved
\* class, and one layout in every status.
ClassObject(kind, s, snulls, st, v, p, m) ==
    [flags |-> {"Class"}, refs |-> 0 .. 7, nulls |-> {},
     kind |-> kind, statics |-> s, static_nulls |-> snulls, status |-> st,
     vtable |-> v, ptr_size |-> p, bitmap |-> m]
ClassObjects ==
    {ClassObject("class", s, {}, Resolved, v, p, m) :
        s \in [StaticKinds -> 0 .. MaxStatics], v \in 0 .. MaxVTable,
        p \in PointerSizes, m \in 0 .. 1}
    \cup {ClassObject("interface", s, {}, Resolved, 0, p, 0) :
        s \in [StaticKinds -> 0 .. MaxStatics], p \in PointerSizes}
    \cup {ClassObject(kind, [k \in StaticKinds |-> 1], snulls, st, 0, p, 0) :
        kind \in {"class", "abstract", "interface", "array", "primitive"},
        snulls \in {{}, {0}}, st \in NotReady .. VisiblyInitialized,
        p \in PointerSizes}

\* reference_instance_offsets and the overflow bitmap at the end of the class.
NumWords(refs) == (Max(refs) \div WordBits) + 1
IsSlow(refs) == Max(refs) >= WordBits - 1
Bit(word, b) == (word \div 2 ^ b) % 2
BitmapWord(refs, i) ==
    CHOOSE word \in 0 .. 2 ^ WordBits - 1 :
        \A b \in 0 .. WordBits - 1 : Bit(word, b) = 1 <=> i * WordBits + b \in refs
reference_instance_offsets(refs) ==
    IF IsSlow(refs) THEN 2 ^ (WordBits - 1) + NumWords(refs)
                    ELSE BitmapWord(refs, 0)

(***************************************************************************)
(* Predicates on classes                                                   *)
(***************************************************************************)
\* access_flags and component_type of the kinds of classes (external).
is_abstract(c) == c.kind # "class"
is_interface(c) == c.kind = "interface"
is_primitive(c) == c.kind = "primitive"
is_array_class(c) == c.kind = "array"

is_instantiable(c) ==
    \/ ~is_primitive(c) /\ ~is_interface(c) /\ ~is_abstract(c)
    \/ is_abstract(c) /\ is_array_class(c)

should_have_embedded_vtable(c) == is_instantiable(c)

is_resolved(c) == c.status >= Resolved \/ c.status = ErrorResolved

is_temp(c) ==
    /\ c.status < Resolving
    /\ c.status # ErrorResolved
    /\ should_have_embedded_vtable(c)

(***************************************************************************)
(* Sizes and offsets                                                       *)
(***************************************************************************)
component_size_shift(type) ==
    CASE type = "Byte" -> 0
      [] type = "Char" -> 1
      [] type \in {"Int", "Not"} -> 2
      [] type = "Double" -> 3

\* Faulty: fields of two bytes are not moved into the gap.
ShuffleWide(gap, n32, n16, n8) ==
    LET m32 == Min({gap \div 4, n32})
        m8  == Min({gap - 4 * m32, n8})
    IN  <<m32, 0, m8>>

\* How many fields of 4, 2 and 1 bytes the loops move into the gap.
Shuffle(gap, n32, n16, n8) ==
    LET m32 == Min({gap \div 4, n32})
        m16 == Min({(gap - 4 * m32) \div 2, n16})
        m8  == Min({gap - 4 * m32 - 2 * m16, n8})
    IN  <<m32, m16, m8>>

\* Faulty: no room for the word that holds the vtable length.
VTableEndShort(vtable, ptr_size) ==
    align_up(SizeOfClass, ptr_size) + ptr_size + vtable * ptr_size

\* The class with its vtable length, IMT pointer and embedded vtable.
VTableEnd(vtable, ptr_size) ==
    align_up(SizeOfClass + 4, ptr_size) + ptr_size + vtable * ptr_size

compute_class_size(embedded, vtable, s, bitmap, ptr_size) ==
    LET base  == IF embedded THEN VTableEnd(vtable, ptr_size) ELSE SizeOfClass
        refs  == base + s["ref"] * ART_HEAP_REFERENCE_SIZE
        gap   == IF refs % 8 # 0 /\ s["n64"] > 0 THEN 8 - (refs % 8) ELSE 0
        moved == Shuffle(gap, s["n32"], s["n16"], s["n8"])
        size  == refs + gap + (s["n8"] - moved[3]) + 2 * (s["n16"] - moved[2])
                   + 4 * (s["n32"] - moved[1]) + 8 * s["n64"]
    IN  IF bitmap > 0 THEN align_up(size, 4) + 4 * bitmap ELSE size

NoStatics == [k \in StaticKinds |-> 0]

get_first_reference_static_fields_offset(o) ==
    IF should_have_embedded_vtable(o)
      THEN compute_class_size(TRUE, o.vtable, NoStatics, 0, o.ptr_size)
      ELSE SizeOfClass

data_offset(component_size) == align_up(FirstElement, component_size)

array_size_of(o) ==
    LET component_size == 2 ^ component_size_shift(o.component)
    IN  data_offset(component_size) + o.length * component_size

\* Bit 0 of count is clear in a compressed string.
string_size_of(o) ==
    align_up(SizeOfString + (IF o.count % 2 = 0 THEN 1 ELSE 2)
               * (o.count \div 2), MIN_ALIGNMENT)

\* class_size is what ART computed when it made the class; object_size ends
\* with the last reference field.
get_object_size(o) ==
    CASE o.flags \cap {"ObjectArray", "PrimitiveArray"} # {} -> array_size_of(o)
      [] "Class" \in o.flags ->
           compute_class_size(should_have_embedded_vtable(o), o.vtable, o.statics,
                              o.bitmap, o.ptr_size)
      [] "String" \in o.flags -> string_size_of(o)
      [] OTHER -> OBJECT_HEADER_SIZE + 4 * (Max(o.refs) + 1)

(***************************************************************************)
(* scan_object                                                             *)
(***************************************************************************)
Init ==
    /\ obj \in FieldObjects \cup ArrayObjects \cup StringObjects
                 \cup ClassObjects
    /\ pc = "klass" /\ index = 0 /\ field_offset = 0 /\ ref_offsets = 0
    /\ visited = <<>> /\ upcalls = <<>>

\* The klass slot is always visited.
VisitKlass ==
    /\ pc = "klass"
    /\ visited' = <<0>>
    /\ pc' = "dispatch"
    /\ UNCHANGED <<obj, index, field_offset, ref_offsets, upcalls>>

\* Faulty: records are forgotten.
RouteNoRecord(flags) ==
    CASE flags = {} -> "fields"
      [] "NoReferenceFields" \in flags -> "done"
      [] flags = {"Class"} -> "fields"
      [] "ObjectArray" \in flags -> "array"
      [] flags \cap (kClassFlagReference \cup {"DexCache", "ClassLoader"}) # {} ->
           "fields"
      [] OTHER -> "panic"

\* The tests on class_flags, in their order.
Route(flags) ==
    CASE flags = {} \/ flags = {"Record"} -> "fields"
      [] "NoReferenceFields" \in flags -> "done"
      [] flags = {"Class"} -> "fields"
      [] "ObjectArray" \in flags -> "array"
      [] flags \cap (kClassFlagReference \cup {"DexCache", "ClassLoader"}) # {} ->
           "fields"
      [] OTHER -> "panic"

Dispatch ==
    /\ pc = "dispatch"
    /\ pc' = Route(obj.flags)
    /\ UNCHANGED <<obj, index, field_offset, ref_offsets, visited, upcalls>>

\* A slot that holds null is not visited.
visit_slot(slot, is_null) ==
    visited' = IF is_null THEN visited ELSE Append(visited, slot)

\* visit_instance_fields_references: the top bit of reference_instance_offsets
\* says that the rest is the number of words of the overflow bitmap.
HasOverflowBitmap ==
    reference_instance_offsets(obj.refs) \div 2 ^ (WordBits - 1) = 1
bitmap_num_words ==
    IF HasOverflowBitmap
      THEN reference_instance_offsets(obj.refs) % 2 ^ (WordBits - 1) ELSE 1

\* Faulty: a word of the overflow bitmap covers one field less.
WordStartShort(i) ==
    OBJECT_HEADER_SIZE + i * ART_HEAP_REFERENCE_SIZE * (WordBits - 1)

WordStart(i) == OBJECT_HEADER_SIZE + i * ART_HEAP_REFERENCE_SIZE * WordBits

StartWord ==
    /\ pc = "fields" /\ index < bitmap_num_words
    /\ field_offset' = WordStart(index)
    /\ ref_offsets' = IF HasOverflowBitmap THEN BitmapWord(obj.refs, index)
                      ELSE reference_instance_offsets(obj.refs)
    /\ pc' = "bits"
    /\ UNCHANGED <<obj, index, visited, upcalls>>

\* visit_one_word, one bit at a time.
VisitBit ==
    /\ pc = "bits" /\ ref_offsets # 0
    /\ IF ref_offsets % 2 = 1
         THEN visit_slot(field_offset,
                (field_offset - OBJECT_HEADER_SIZE) \div 4 \in obj.nulls)
         ELSE UNCHANGED visited
    /\ ref_offsets' = ref_offsets \div 2
    /\ field_offset' = field_offset + ART_HEAP_REFERENCE_SIZE
    /\ UNCHANGED <<obj, pc, index, upcalls>>

NextWord ==
    /\ pc = "bits" /\ ref_offsets = 0
    /\ index' = index + 1 /\ pc' = "fields"
    /\ UNCHANGED <<obj, field_offset, ref_offsets, visited, upcalls>>

FieldsDone ==
    /\ pc = "fields" /\ index = bitmap_num_words
    /\ index' = 0
    /\ pc' = IF obj.flags = {"Class"} /\ is_resolved(obj)
               THEN "statics" ELSE "upcall"
    /\ UNCHANGED <<obj, field_offset, ref_offsets, visited, upcalls>>

\* visit_static_fields_references
VisitStatic ==
    /\ pc = "statics" /\ index < obj.statics["ref"]
    /\ visit_slot(get_first_reference_static_fields_offset(obj)
                    + index * ART_HEAP_REFERENCE_SIZE,
                  index \in obj.static_nulls)
    /\ index' = index + 1
    /\ UNCHANGED <<obj, pc, field_offset, ref_offsets, upcalls>>

StaticsDone ==
    /\ pc = "statics" /\ index = obj.statics["ref"]
    /\ pc' = "upcall"
    /\ UNCHANGED <<obj, index, field_offset, ref_offsets, visited, upcalls>>

\* What the runtime is asked to visit after the fields.
Upcall ==
    /\ pc = "upcall"
    /\ upcalls' =
         CASE obj.flags \cap kClassFlagReference # {} -> <<"process_referent">>
           [] /\ obj.flags \cap {"Class", "DexCache", "ClassLoader"} # {}
              /\ kVisitNativeRoots -> <<"scan_native_roots">>
           [] OTHER -> <<>>
    /\ pc' = "done"
    /\ UNCHANGED <<obj, index, field_offset, ref_offsets, visited>>

offset_of_element(i) ==
    data_offset(ART_HEAP_REFERENCE_SIZE) + i * ART_HEAP_REFERENCE_SIZE

VisitElement ==
    /\ pc = "array" /\ index < obj.length
    /\ visit_slot(offset_of_element(index), index \in obj.nulls)
    /\ index' = index + 1
    /\ UNCHANGED <<obj, pc, field_offset, ref_offsets, upcalls>>

EndOfArray ==
    /\ pc = "array" /\ index = obj.length
    /\ pc' = "done"
    /\ UNCHANGED <<obj, index, field_offset, ref_offsets, visited, upcalls>>

\* The scan has returned, or the process has aborted.
Terminated == pc \in {"done", "panic"} /\ UNCHANGED vars

Next ==
    \/ VisitKlass \/ Dispatch \/ StartWord \/ VisitBit \/ NextWord
    \/ FieldsDone \/ VisitStatic \/ StaticsDone \/ Upcall
    \/ VisitElement \/ EndOfArray \/ Terminated

Spec == Init /\ [][Next]_vars /\ WF_vars(Next)

(***************************************************************************)
(* Properties                                                              *)
(***************************************************************************)
\* What the object holds, from its shape alone.
FieldSlots == IF "refs" \in DOMAIN obj
                THEN {8 + 4 * f : f \in obj.refs \ obj.nulls} ELSE {}
ElementSlots == IF "ObjectArray" \in obj.flags
                  THEN {12 + 4 * i : i \in (0 .. obj.length - 1) \ obj.nulls}
                  ELSE {}
Linked == "Class" \in obj.flags /\ obj.status \in {2} \cup 7 .. 15
NumStatics ==
    IF Linked
      THEN Cardinality((0 .. obj.statics["ref"] - 1) \ obj.static_nulls) ELSE 0
Visited == {visited[i] : i \in 1 .. Len(visited)}
StaticSlots == {s \in Visited : "Class" \in obj.flags /\ s >= SizeOfClass}

\* A finished scan_object has reported every reference of the object once and
\* nothing else, whichever bitmap encodes its fields, wherever nulls are and
\* whatever the status of the class.
ScanIsExact ==
    pc = "done" =>
        /\ Cardinality(Visited) = Len(visited)
        /\ Visited \ StaticSlots = {0} \cup FieldSlots \cup ElementSlots
        /\ Cardinality(StaticSlots) = NumStatics

\* No slot that scan_object reports sticks out of the object, runs into the
\* vtable of a class (its length word, the IMT pointer and its entries) or
\* into the overflow bitmap at the end of a class: get_object_size,
\* compute_class_size and the field offsets agree.  Statics are read only in
\* the class that stays, never in the placeholder (is_temp) that one of the
\* right size replaces.
SlotsInside ==
    /\ \A s \in Visited : s + 4 <= get_object_size(obj)
    /\ \A s \in StaticSlots :
         /\ s + 4 <= get_object_size(obj) - 4 * obj.bitmap
         /\ is_instantiable(obj) =>
              s >= SizeOfClass + 4 + obj.ptr_size * (1 + obj.vtable)
    /\ pc = "statics" => ~is_temp(obj)

\* compute_class_size leaves as little unused in the gap before the 64-bit
\* statics as the best choice of smaller statics to put there could.
ClassSizeIsTight ==
    pc = "done" /\ "Class" \in obj.flags =>
        LET s     == obj.statics
            base  == compute_class_size(is_instantiable(obj), obj.vtable,
                                        NoStatics, 0, obj.ptr_size)
            refs  == base + 4 * s["ref"]
            gap   == IF s["n64"] > 0 THEN align_up(refs, 8) - refs ELSE 0
            fills == {t \in (0 .. s["n32"]) \X (0 .. s["n16"]) \X (0 .. s["n8"]) :
                        4 * t[1] + 2 * t[2] + t[3] <= gap}
            waste == Min({gap - (4 * t[1] + 2 * t[2] + t[3]) : t \in fills})
        IN  compute_class_size(is_instantiable(obj), obj.vtable, s, 0,
                               obj.ptr_size)
              = refs + waste + s["n8"] + 2 * s["n16"] + 4 * s["n32"]
                  + 8 * s["n64"]

\* Every scan comes to its end: no class_flags make it panic, and no bitmap
\* keeps it going.
ScanEnds == <>(pc = "done")
=============================================================================
