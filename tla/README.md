# A TLA+ verification of rust-to-prolog

rust-to-prolog compiles a subset of Prolog to the assembly of the LAM, a small
Warren-style machine, and runs it on a reference machine, `refvm`; a web page
does the same in the browser. This directory holds TLA+ modules for every stage
from the characters of a program to its output, and for the page; the TLC runs
that check them; and proofs checked by TLAPS. Paths below are relative to the
root of the repository.

## 1. The system

    source text --tokenize--> tokens --parse--> clauses --compile--> Instr
        --emit--> .lam text --asm--> 24-bit cells --refvm--> output + verdict

A run is sequential: there are no threads, nothing is persisted, and every
stage is a function of the one before, except the machine, which is a loop over
a mutable state. What makes the machine hard is not concurrency but *time*: it
goes back to earlier states of its memory, and three structures (heap and trail,
choice stack, environment frames) must agree on what earlier means. What makes
the other stages hard is that each of them learns the same thing twice in two
places (operators from calls and from single tokens ahead, sizes of
instructions from two tables, registers from two walks over a clause), and that
every table has an end. Only the page has events that can race.

| component | state | operations | correct when |
|---|---|---|---|
| store (`refvm/heap.rs`, `choice.rs`) | heap, trail, marks of choice points | push, bind, push_choice, restore_top, update_alt, pop | RETRY and TRUST restore exactly the memory of the TRY; the trail names bound cells only, once |
| machine (`refvm/dispatch.rs`, `mod.rs`) | pc, cp, 16 registers, store, frames and ep, stream, output, ticks | 30 opcodes, unify, 9 errors | a clause uses its own frame; frames outlive choice points that need them; run_vm returns; no index is out of bounds |
| write (`builtin.rs`) | the writer | write_term, write_nl | the output is that of the program, or a prefix when the writer refuses |
| compiler (`compile.rs`) | instruction buffer, register map of a clause | one function per construct | the machine code does what SLD resolution does |
| emitter (`emit.rs`) | text | one line per instruction | operands in the order the assembler reads them |
| assembler (`asm.rs`) | tables of atoms and labels, cells, line | pass 1, pass 2 | both passes agree on addresses; the first error is the one reported |
| tokenizer (`tokenize.rs`) | cursor, tokens | one function per class of token | tokens are the longest the lexical grammar allows; refusals are at the right place |
| parser (`parse.rs`) | cursor, atom table, arena, clauses | recursive descent | the clauses are a reading of the tokens; a limit is an error, and only past it |
| containers (`port/`) | fixed arrays | push, get | overflow is an error |
| web UI (`web-ui/src/`) | source, output, status, the file being read | update, one arm per message; view | what is shown belongs together; every request is answered; the last file chosen wins |
| `bin/prologc.rs`, `bin/lamasm.rs` | none | main | stages run in order, the first error ends |

Interactions: TRY/RETRY/TRUST/FAIL tie the registers, the store and the frames
together; CALL/EXECUTE/PROCEED and ALLOCATE/DEALLOCATE tie cp to the frames; the
compiler decides when frames exist and which registers survive a call, so that
the discipline of the machine is only as good as the code it is given; labels
and atom ids tie the compiler to the assembler by text; the parser interns atoms
(`[]`, `.`) which only the compiler uses.

The hard behaviours are listed with their lines in `PROJECT.json` ("hazards").

## 2. Modules

| module | what it is | models |
|---|---|---|
| `Heap` | cells, dereferencing, undoing, the tests of unify | `heap.rs` |
| `Code` | opcodes with their operands, and what the machine takes for granted of a program | `dispatch.rs` 22-51, `asm.rs` 303-315, 372-465 |
| `SnapshotStore` | **abstract**: a single-assignment memory and a stack of saved copies | - |
| `TrailStore` | heap, trail and marks; one action per call | `heap.rs`, `choice.rs` |
| `LamVM` | the machine: one action per opcode and per refusal | `dispatch.rs`, `mod.rs`, `builtin.rs` |
| `Discipline` | a condition on code (`EXTENDS LamVM`): what is read was written since the last call or return by backtracking | - |
| `Tokenize` | the cursor over characters; the lexical grammar it is checked against | `tokenize.rs` |
| `Descent`, `Parse` | the recursive descent as functions on a parser state; one action per clause | `parse.rs` |
| `Grammar` | **reference**: the readings of a token sequence, by any way to cut it | - |
| `Compile`, `Emit`, `Asm` | compiler, emitter, and assembler as operators on whole programs | `compile.rs`, `emit.rs`, `asm.rs` |
| `AsmPasses` | the assembler line by line; implements `Asm` | `asm.rs` |
| `Sld` | **reference**: depth-first SLD resolution with cut (of either scope), negation, integers | - |
| `Limits` | **reference**: which programs fit the tables, counted on the program | - |
| `Spell` | a program in tokens, the way an author writes it | - |
| `Prologc` | parse, compile, emit, assemble, run; the outcome against `Sld` and `Limits` | `bin/prologc.rs` |
| `Frames` | the machine (`EXTENDS LamVM`) beside the call-stack discipline of its frames | `dispatch.rs` 411-444 |
| `Examples`, `Family` | the programs of `examples/` and others; all small rule bodies | |
| `WebUi` | App, its messages, the handlers, the framework's scheduler, the file read | `web-ui/src/lib.rs`, `runner.rs`, `demos.rs` |
| `Editor` | **abstract**: a page with a text, an outcome, requests and uploads; no queue, no reader | - |
| `TrailStoreProofs`, `LamVMProofs`, `LamVMHeapProofs`, `DisciplineProofs`, `FramesProofs`, `TokenizeProofs`, `AsmPassesProofs`, `WebUiProofs` | theorems | |
| `MC*` | instances for TLC | |

**Machine.** The variables of `LamVM` are the fields of `Vm`, and `status`/`ticks`
the locals of `run_vm`. Heap and code addresses count from 1 where the code
counts from 0, so that they index sequences; registers and Y slots keep their
numbers. `ep` is the code's `ep`: `env[ep]` is the code's `env[ep - 1]`. A cell
is a tuple that starts with its tag. `TAG_LIST` is never built by the machine
and left out. `prog` and `code` are constant in a behaviour: they say which of
the `Programs` it runs. `At(op)` is the dispatch of `step`: in bounds, the
immediate present, the register operands valid. Each opcode is one action with
all the function does; `exec_fail` is `Backtrack`, `restore_top` is `Restore`.
Unify, a recursion inside one opcode, is unfolded: `todo` holds the pairs still
to be compared, in the order the recursion visits them, and nothing else moves
while `status` is `"unify"`. That makes each binding a step of its own, so that
a clash half way is a state one can look at. Three places where the code would
panic (binding a reference past the end of the heap) are the status `"panic"`.
`write_term` is the sequence of pieces it writes (`Text`): names, numbers,
parentheses, commas, brackets and bars; `out` holds them one after the other,
and the writer may refuse any of them, so that an `IoError` leaves a term half
written. The number behind the `_G` of an unbound variable is left out; constants
keep their 21 bits (`Encode`, `Wrap21`), functor cells five bits of their arity
(`Fun`), while GET_STRUCT compares what it finds with the arity of its own word
(`Wanted`): above 31 it never reads back what it wrote. Atom ids stay below the
sixteen bits a functor cell has for them.

**Tokenizer.** `pos` is `Cursor.pos`; each turn of a loop of the code is an
action: white space, each kind of comment, each scanner, each refusal. A
character outside the lexical grammar stands for every byte `tokenize` refuses.

**Parser.** Each function of `parse.rs` is an operator that maps a parser state
to the state after it; an error in the state is the `?` of the code: from then on
nothing is read. The arena is the number of its subterms, and a term holds its
subterms itself.

**Compiler.** `compile.rs` marks variables as seen while it walks a clause. The
module does the same in two stages: expand the clause into instructions that
name variables, then settle each occurrence from left to right. Labels are the
tuple of parts their text is made of: name, kind, clause number, and for a negation
its number among those of the clause, counted as `fresh_neg_label` counts them. The
texts are equal exactly when the tuples are, so predicates of one name do share
labels, those of their negations included, as in the code. (The counter of the code
stops at 255; the parser's tables end long before.)

**Assembler.** A line of `AsmPasses` has been classified and split at blanks,
colon and commas; what the pieces *are* (register, number, identifier,
`atom(..)`, `int(..)`, `t/n`) is in the text, whether they are what the operand
wants is decided as in the code. The name inside `atom(..)` and before the slash is a
text too, and looked up as it stands: `.atom 1 A1` declares what `atom(A1)` means. Its addresses count from 0, as in the code,
those of `Asm` from 1; `Stored` converts. Atom ids are below 2^21.

**Web UI.** A browser event (a click, a key, the end of a file read) puts
messages into `queue`; the scheduler delivers them one by one, each an arm of
`update`, and renders once at the end if one of them asked for it. The user's
hand changes the document without App: `page` is what the document shows, `App`'s
fields what it should. What `run_source` returns for a text is the constant
`Result`. The scheduler is Yew's and modelled from how the code uses it
(external in the map).

The operators named `Slip...` are mistakes one could plausibly make in the
definition that follows each of them. No specification uses them; they are kept
to see that every property notices one (`PROJECT.json`, "mutants").

## 3. Runs

| run | question | result |
|---|---|---|
| `store` (MCTrailStore) | do trail and marks recover every saved memory, whatever the order of calls? | holds, 171,634 states |
| `machine` (MCLamVM) | does the machine keep store and frames sound for code the compiler would not write, and always return? | holds, 32,874 states |
| `programs` (MCPrologc) | do the programs of `examples/` and all small rule bodies write and end as Prolog would, and where a cut meets clauses of a caller as the documentation says, without reading what backtracking made stale, which of them keep to the discipline, and is exactly what fits built? | holds, 8,666 states |
| `tokenize` (MCTokenize) | is every short text cut into the longest lexemes, or refused at the right place? | holds, 466,245 states |
| `parse` (MCParse) | is every short token sequence read as the grammar says, and are limits the only other reason to refuse it? | holds, 720,522 states |
| `assemble` (MCAsm) | do the two passes agree with each other and with `Asm`, and can the machine decode and load what they make? | holds, 564,601 states |
| `web_ui` (MCWebUi) | does the page implement the editor, in every order of events, reads and messages? | holds, 5,992 states |
| `hops` (MCHops) | may a rule call two rules with frames? | **no**: wrong answer |
| `call_first` (MCCallFirst) | may a rule without permanent variables call before its end? | **no**: runs to the tick limit |
| `negate_free` (MCNegateFree) | may a variable first occur under `\+`? | **no**: panic |
| `arities` (MCArities) | may p/1 and p/2 coexist? | **no**: wrong clause |
| `cyclic` (MCCyclic) | does unification end on terms that contain themselves? | **no** |

### Bounds

- `store`: three cells and two choice points are enough for a cell older than
  both marks, between them and newer than both, bound before or after either
  choice point, and for a retry of the newer with the older still there. The
  cells that can be stored are a reference or structure to any address, an atom
  and a functor cell. `MCSpec` disables what would exceed the bounds, so the run
  is the only one with `CHECK_DEADLOCK FALSE`.
- `machine`: the frame around three words out of thirteen is TRY, RETRY, TRUST,
  so each word runs before, between and after backtracking; one of the words is
  a nested TRY. `TickLimit = 40` is above what the straight-line programs need
  (so that they end by themselves) and below what loops need (so that they meet
  the limit).
- `programs`: 219 sources. Twenty-one programs, thirteen of them all of
  `examples/`; nine at a limit or one past it (clauses, labels, X registers
  with an equation or a list, permanent variables), five of which are refused; the 189
  rule bodies of `Family`. Two of the programs run a cut under clauses of a caller, one
unifies two lists that clash behind an element they bound. The caps have the values of the code. Runs are
  deterministic, one behaviour for each program and each place where the writer
  refuses. `TickLimit = 2000` and `Fuel = 1000` are above what any of them needs,
  which the equality of verdicts in `OutputIsSLD` confirms.
- `tokenize`: four characters of 17, one or two for each class, and six of those
  that make comments and numbers; `/*/`, `**/`, `-1` after anything, a comment
  that never ends, and one token too many are all within that. `MaxTokens = 4`,
  `AtomCap = 2` and `IntMax = 11` are reached and exceeded.
- `parse`: three small alphabets, for operators, for structures and lists, and
  for whole programs, up to five or six tokens of each, with chains of up to
  three operators. Every cap is small enough to be reached and exceeded.
- `assemble`: all texts of three lines out of 37 (each kind of line, each error),
  all of five out of the eight with labels, atoms and jumps (a jump forward, a
  label or an atom twice, both tables full), and one around each instruction.
  `AsmMaxAtoms = AsmMaxLabels = 2`, `MaxCells = 5`.
- `web_ui`: two demos, three files (one that cannot be read), four texts with
  every kind of outcome, five inputs of the user: enough for an upload, an edit
  and a run before it ends, a second upload, and the same file again.

### Fairness

- `LamVM`: `WF_vars(Step)`. `run_vm` is a loop that calls `step` until it returns,
  and nothing can suspend it. `Terminates` also needs the tick limit; a jump that
  took no tick would break it.
- `Tokenize`: `WF_vars(Step)`, the loop of `tokenize`.
- `WebUi`: `WF_vars(Scheduler)`, because Yew empties its queue before it returns
  to the browser, and `WF_vars(Reading)`, because the browser ends every read it
  was not told to abort, with success or an error. The user owes nothing.

### What the properties say

- `TrailSound`: `unwind_trail` indexes within the heap, resets only bound cells,
  none twice. `MarksNested`: an older choice point never remembers more than a
  newer one. `ImplementsSnapshots`: refinement of `SnapshotStore`, the copies
  computed from heap, trail and marks; an unsound trail shows as a copy that
  changes while nobody changed it.
- `FramesExist`, `FramesSurvive`: the comment at `src/refvm/mod.rs:93`, frames
  "aren't destroyed and come back into scope on backtrack". `OwnFrame`: the frame
  an instruction reads is the one its clause allocated, as long as at most one
  frame lies on top of it. `hops` shows what happens with two.
- `HeapClosed`: no cell of the heap refers out of it, in compiled programs.
  `NoStaleReads`: and no instruction reads a reference out of it from an X register
  or a Y slot, which backtracking does not put back. `NoColdReads`: nor unifies a
  register that was never written while the heap is empty; its cleared word is a
  reference to the first cell. `negate_free` is a program that does read a stale
  reference. `DerefEnds`: `deref`, a loop inside one instruction, ends. `NoPanic`:
  no cell outside the heap is bound.
- `CompilesDisciplined`: what the compiler emits for a program respects the
  `Discipline` exactly when the program holds no temporary variable over a `\+`. Of
  the 214 sources that are built, 172 are disciplined, every program of `examples/`
  among them; the 42 others are rule bodies of the family. `SlotsPoint`: a Y slot that
  is read holds no reference out of the heap. These two are what section 5 starts from.
- `OutputIsSLD`: verdict and output are those of `Sld`, or a prefix of the output
  when the writer refused, unless the search runs a cut while a caller has clauses
  left. There the CUT of the machine drops more than Prolog does
  (`docs/limitations.md:121`, "Cut is not scoped"), and `CutAsDocumented` compares with
  a search whose cut clears everything, as that section says. Every other source, the
  cuts of `max.pl` and of the family included, is held to the scoped cut.
  `BuildsWhatFits`: a program is refused exactly when it
  exceeds a limit; no stage has less room than the stages before it promise.
- `LongestLexemes`: when `tokenize` ends, its tokens, or its error and place, are
  those of a grammar that has no cursor. `Returns`: it does end.
- `ReadsTheGrammar`: what `parse` makes of the tokens is a reading of them, and
  the only one; a refusal has no reading or exceeds a limit. `InternsWhatIsUsed`:
  the table has the atoms the compiler will look up, and no others.
- `JumpsLand`: the address pass 1 bound a label to is where pass 2 is when it
  comes to it. `ImplementsAsm`: the same image, or the same first error, as `Asm`
  gives for the text as a whole. `CodeDecodes`: every cell is an instruction or the
  immediate the one before it reads, and a jump leads to an instruction or to the
  end of the code. `LoadsIntoMachine`: the words are such as `LamVM` assumes
  (`WellFormed` of `Code`, the machine's own tables), every opcode is supported, every
  register exists.
- `PageIsApp`, `InputEmpty`: between two events the document shows App, and the
  file input is empty. `ImplementsEditor`: refinement of `Editor`. `AnswersEditor`:
  each request is answered and the last upload ends.

## 4. Findings

1. *Frames are identified by position but never popped* (`hops`). ALLOCATE pushes
   at `env.len() + 1`; DEALLOCATE sets `ep - 1`. After a callee with a frame has
   returned, its dead frame stays between the caller's and the next callee's, and
   the next DEALLOCATE lands on it. `liar.pl` reads through dead frames too, and
   is right by luck (the `programs` run includes it); a rule that calls two rules
   with frames before its last goal is not.
2. *A call without a frame* (`call_first`). `has_env` looks at permanent variables
   only; the continuation needs a frame too.
3. *X registers across backtracking and `\+`* (`negate_free`).
4. *Predicates of one name* (`arities`).
5. *No occurs check, no limit inside unify* (`cyclic`). Two cyclic terms make
   `unify` and `unify_struct` call each other for ever; the tick limit, on which
   the page relies, counts instructions only.

Seen while modelling, without a run: `docs/limitations.md:216` says an atom may
begin with `_` and lists `_aux123` among those that parse; `src/tokenize.rs:157`
makes a variable of it. And `=` with a list on its right compares the list with
itself: `emit_eq` (`src/compile.rs:866`) keeps the left side in `scratch_x()`, the same
register in which `emit_build_list` (`src/compile.rs:992`) then keeps the list, so that
`X = [a]` succeeds without binding `X`, and `[a] = [b]` succeeds. `Equal` and
`BuildList` of `Compile` have the two registers as the code does; no document or test
has such a goal, and no program of the runs does. With the list on the left it works.

## 5. Proofs

**The store.** `TrailStoreProofs` proves of `TrailStore`, for every set of atoms
and with no bound on heap, trail or depth: `TypeCorrect`, `TrailIsSound`,
`MarksAreNested`, and `Refinement`, `Spec => ImplementsSnapshots`: each action
maps to a step of `SnapshotStore`, a push or a binding to `Work`, a choice point
to `Save`, a retry to `Restore`, and so on.

The inductive invariant is the conjunction of the three. They need each other:
that a binding leaves every recovered copy alone follows because the bound cell
is trailed above the marks of all choice points (marks in range), or lies
beyond their heap (nested marks); that a retry leaves the trail sound needs
that what was trailed below the mark lies below the heap mark (the last part of
`MarksNested`), and that no cell is trailed twice (so a kept entry is not one of
those that are reset). `Recovered` of older choice points after a retry is
unchanged by the nesting of marks: undoing in two steps is undoing in one.

**The machine.** `LamVMProofs` proves of `LamVM`, for every set of well-formed
programs, every set of atoms and every tick limit: `TypeCorrect`,
`FramesAlwaysExist`, `FramesAreKept` (the property `FramesSurvive`), and
`StoreRefinement`: seen through heap, trail and marks, the machine is a
`TrailStore`; from it and the theorems above, `TrailIsSound`, `MarksAreNested`
and `Refinement` (the property `ImplementsSnapshots`).

The assumptions are `TickAssumption` (the limit is a natural number) and
`CodeAssumption`: every program is a sequence of words in which the word after
a two-cell instruction is of the kind that instruction reads. The assembler
guarantees that of its output, whatever its input (`AssembledCodeLoads`, below);
nothing is assumed of jumps, registers, slots or the order of instructions, and
programs may contain an opcode the machine does not have (`STORE` stands for all of
them). TLC evaluates both in every run of the machine.

The invariant is `TypeOK`, `FramesExist` and the invariant of the store, and
none of the three is inductive alone: GET_Y_VAR and DEALLOCATE read a frame
that has its type only because it exists, and the heap RETRY restores is a
sequence of cells only because the mark is not above its end. The proof goes in
two parts. The first takes the instructions one by one and shows that each is one
call of the store, pushes, binds, or leaves the store alone; so heap and trail have
their types after every step. The second then shows the same of the other
variables, by kinds of instructions.

**Frames.** `FramesProofs` proves `FramesAreOwn`, `FramesSpec => []OwnFrame`, from
the same two assumptions: nothing about what the compiler emits is needed. The
invariant is `TypeOK`, `FramesExist`, that a frame is younger than the one it was
called from, and `Discipline`: as long as at most one frame lies on top of the
current one, `ep` is the current one, and the same of each choice point and the
`ep` it saved. That last part is what makes the property inductive, since a RETRY
brings back both; and frames are never popped, so `Len(env)` only grows and the
premise, once lost for a frame, stays lost.

**References.** `LamVMHeapProofs` proves three properties of the machine under
hypotheses about what it reads:

    HeapStaysClosed   Spec /\ []NoStaleReads => []HeapClosed
    ReferencesEnd     Spec /\ []NoStaleReads => []DerefEnds
    NoPanics          Spec /\ []NoStaleReads /\ []NoColdReads => []NoPanic

Without hypotheses they do not hold. A choice point saves the argument registers
and the marks; the other registers and the Y slots keep what was written after it,
references to what RETRY and TRUST cut off the heap included. Well-formed code can
read them: `negate_free` does and panics, the three programs `dangling_*` of
`machine` do, and UNIFY_VAL would write one into the heap. So this is a matter of
the compiler, and the theorems say that these reads are all it has to avoid. The next
paragraph replaces the hypotheses by a condition on the code it emits; and on every
source that is built, disciplined or not, TLC checks them in `programs`, as
invariants of their own.

`Live`, the invariant of the first, says of the heap, of what each choice point
would leave of it, of the argument registers, saved or not, and of the pairs
`unify` has still to compare, that no reference leads out. What a choice point
will leave is the difficult part: an old cell may be bound to a new one, and is
safe only because it is trailed.

The second adds `NoCycle`: among any cells of the heap there is one that leads to
none of the others. It is preserved since `unify` binds an unbound variable, an end
of every walk, to the end of another, and RETRY and TRUST only turn cells into
ends. `DerefEnds` follows by counting: the cells from which a walk of `n` steps does
not end would otherwise form a set as `NoCycle` forbids. It is about references
only: cyclic *terms*, through a structure, are possible, and `cyclic` is such a run.

The third follows from the two: since walks end, `deref` returns what its recursive
equation says (proved from the walks, because TLAPS has no recursion over data), so
that the variable `bind` gets is in the heap. It also needs that a cleared
register, which is a reference to the first cell, is not bound while there is no
first cell: `NoColdReads`, with the invariant `Warm` for the pairs of `unify`.

**Discipline.** The hypotheses above speak of what a run reads. `Discipline` is a
condition on code that is decided without running it. `Needed` gives each word the
registers that the code from there on reads before it writes them, the least solution
of the equations `Requires`; `Respects` says that nothing is needed at the start and
behind a CALL, that what an alternative needs is among the registers a choice point
saves, and that code needing something a choice point restores is come to by
backtracking only. `DisciplineProofs` proves, for every set of programs:

    DisciplineReadsNothingStale   Spec /\ Disciplined /\ []SlotsPoint => []NoStaleReads
    DisciplineReadsNothingCold    Spec /\ Disciplined /\ []SlotsPoint => []NoColdReads

and with the three theorems above, `DisciplineKeepsHeapClosed`,
`DisciplineEndsReferences` and `DisciplinePreventsPanics`: a disciplined program whose
Y slots are sound has a closed heap, references that end, and no panic.

The invariant (`Ready`) says of a running machine what `Respects` says of its code.
What the code at `pc` needs is in the registers and points into the heap
(`RegsReady`); what the alternative of a choice point needs, that choice point has
saved, and it points into what RETRY or TRUST will leave of the heap
(`ChoicesReady`); code at a RETRY or TRUST that needs saved registers was come to by
backtracking, so that they are those of the newest choice point (`CameBack`);
nothing is needed where a call returns, whether the address is in `cp`, in a choice
point or in a frame (`ReturnsClean`); and `unify` runs for an instruction at `pc`
that calls it (`CalledByUnifier`). It is proved together with `Live`: the discipline needs
that the cells an instruction puts into a register point into the heap, the heap that
no register holds a stale one. Nothing in the proof uses that `Needed` is the *least*
solution: `Respects` asks that it be large enough, which is why `Needed`, a function
defined by itself on sets that grow, needs no induction.

The hypotheses are met: by every program of `examples/` (`CompilesDisciplined` and
`SlotsPoint` in `programs`). Where they are not, the theorem says nothing, and rightly:
`negate_free` is not disciplined, and it panics. The Y slots remain a hypothesis about
the run, because no condition on code alone covers them: `liar.pl` reads its slots
through dead frames (finding 1), and which frame it finds there depends on the calls
before.

**The assembler.** `AsmPassesProofs` proves, for every text, every set of names that
are too long and every size of the tables, five theorems, from invariants that build
on each other.

- `PassesAgree`, `Spec => []JumpsLand`. Neither pass stores where a line begins, so
  `JumpsLand` says too little to be kept by a step. The invariant says that there is
  a *ruler*: addresses of all lines read so far, each the one before plus the size
  `width_of` gives the line, by which pass 1 has bound the labels and pass 2 has laid
  out its cells. The step of pass 2 that emits needs that what the shapes of `emit`
  push is as long as `width_of` says (`EmittedLength`, by cases over the
  instructions), which is where a mistake in one of the tables would show.
- `TypeCorrect`: tables and cells keep within their sizes, whichever check is first.
- `AssemblesTheText`, `Spec => []ImplementsAsm`: the assembler that reads line by line
  gives the cells, or the first error, that `Asm` defines for the whole text. Three
  more invariants: the tables list the atoms and labels of the lines read, in order
  (`Tabled`); each line pass 2 is through with lies at its place in the cells
  (`Laid`); and once the assembler has stopped, the line it is at gave the reason
  (`Told`). The rest translates the ruler into the
  sums of `Asm`, and first errors of a pass into the least line that has one.
- `AssembledCodeDecodes`, `Spec => []CodeDecodes`, from the ruler and `Laid`: a cell
  belongs to the line before whose end it lies, and a label is where a line begins.
- `AssembledCodeLoads`, `Spec => []LoadsIntoMachine`: what `CodeAssumption` assumes of
  a program is true of every assembled text, by the tables of the machine and not those
  of the assembler. One more invariant: an id in the table of atoms is that of a
  directive (`Declared`). The fields of each instruction are found by its sorts of
  operands (`FieldsType`), its immediate by its symbol (`ImmediateType`).

`AsmAssumption`: lines are lines, caps are natural numbers; `OperandAssumption`:
operands are sequences, the integers among them integers, and registers have the
numbers 0 to 7 (`parse_reg` takes one digit and refuses the others).

**The tokenizer.** `TokenizeProofs` proves, for every text and every limit, three
theorems. `TypeCorrect` (the cursor stays in the text, names fit their buffers, numbers an
`i32`, tokens the array). `EveryTurnReads`, `Spec => [][ReadOn]_vars`: a turn of
the loops that does not end `tokenize` reads at least one character. With the
cursor bounded by the text that is why `Returns` holds for every text; the last
step, from a bounded measure to termination, is liveness and not proved. The
invariant is `TypeOK` itself; the work is in `RunEnds`, what a scan over a run of
characters returns, from the well-foundedness of the natural numbers.
`LexemesAreLongest`, `Spec => []LongestLexemes`: what is returned, tokens or error and
place, is what the lexical grammar says of the text. The invariant (`Follows`) is
that the tokens pushed so far, followed by what the grammar says of the text after
the cursor, are what it says of the whole text; each turn of the loop takes one
lexeme, blank or comment off the one and adds it to the other. The grammar is a
function defined by itself at later places; that it satisfies its equation, which
TLAPS does not know of a function of this kind, is proved by looking at the last
place where it would not. `TokenizeAssumption`: texts are sequences, the limits are
numbers, those of tokens and names positive.

**The page.** `WebUiProofs` proves, for every set of demos, texts and files, every
`Result` and any number of inputs: `TypeCorrect`, `PageShowsApp`,
`InputStaysEmpty`, and `WebUiImplementsEditor` (the property `ImplementsEditor`).
The invariant (`IInv`) says, for each request that is open, which messages can
still be in the queue and what App shows once the first of them was handled, so
that the second report of a key press changes nothing; while none is open, App
and the document differ in what was just typed only; and there is at most one
reader. `UiAssumption` is the typing of the constants.

**Only model-checked.** What the compiler does with a program: `OutputIsSLD`,
`CutAsDocumented`, `BuildsWhatFits`, `CompilesDisciplined`; `SlotsPoint`; and `NoStaleReads` and
`NoColdReads` of programs that are not disciplined. What is about the parser:
`TypeOK`, `ReadsTheGrammar`, `InternsWhatIsUsed`. `Compile`, `Descent`, `Grammar` and
`Sld` are recursive over terms and tokens, with RECURSIVE operators, which the provers
do not take, and what they compute is a matter of induction over data, which they
cannot do. And all liveness: `Terminates`, `Returns`, `AnswersEditor`.

## 6. Not modelled, and why

- Cutting a `.lam` line into its pieces (blanks, commas, comments): pure string
  work without a state. `write_flat` and `dump_verbose` only print.
- `bin/lamasm.rs`, and the files and flags of `bin/prologc.rs`: I/O around the
  stages.
- The arrays behind the containers of `port/`; their users' tables, each with its
  limit, are modelled. Lengths of names are modelled in the tokenizer and the
  assembler only, which refuse them.
- The port audit, the scripts, the tests: no state of the program. The tests were
  read for what the program is meant to do.
- In the modules but in no run, because the documents exclude them or promise
  nothing: `\+` over several clauses (`docs/limitations.md:107`), clauses of a
  predicate separated by others (`asm.rs:125`), several `_` in one clause
  (`parse.rs:117`), and a cut inside a negated goal, which drops the choice point the
  negation itself needs (`docs/limitations.md:121`).
- `=` with a list on its right (end of section 4).
- That a cut keeps the clauses of its callers: `docs/limitations.md:121` says it does
  not. `OutputIsSLD` leaves such searches out and `CutAsDocumented` takes them.

## 7. Plan

Done: all components above.

Left, in this order:

1. The Y slots: `SlotsPoint` from a condition on programs. It needs the discipline of
   the frames (`FramesAreOwn`) and, because of dead frames, which calls a clause makes.
2. `Descent` as recursive functions, so that what `parse` does to its tables
   (`TypeOK` of `Parse`) can be proved; the readings themselves stay with TLC.
3. Runs for the exclusions at the end of section 6, as documented limits.
