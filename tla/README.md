# A formal model of smlisp

`smlisp` is a LISP interpreter in C: a parser, an evaluator made of C functions
that call each other through `sm_eval`, builtins, red-black trees for symbols
and variables, and a mark-and-sweep collector that finds objects by address in
an augmented AVL tree. Everything runs in one thread. What makes it hard is not
concurrency but the order of calls: any allocation may collect, any evaluation
may fail half-way, and two kinds of balanced trees move their nodes while others
hold pointers into them.

The modules here model the parts where that order matters, and the functional
part of the language, from characters to results, where different pieces of code
have to agree with each other. TLC checks them on small instances; TLAPS proves for
every instance the safety of the heap, that the object index implements a map
from addresses to objects, that the collector leaves exactly what the program can
name and is to its clients one step, that the evaluator restores its context and
loses no error but those it is known to lose, and that a trace tells the stack.

## The system

| Component | State | Operations | Works with |
|---|---|---|---|
| Object index (`heap.c`, first half) | `heap->objects`: parent, children, height, bounds, flags of every object | `object_insert`, `object_erase`, `object_from_pointer`, `object_first/next/succ` | called by the heap for every allocation, lookup and sweep |
| Heap and collector (`heap.c`, second half) | objects, root cells, object count, threshold, unreference count | `sm_heap_alloc_*`, `sm_heap_root*`, `sm_heap_*_drop`, `sm_heap_unref`, `sm_heap_gc`, `sm_heap_drop` | reads `ctx->scope`, `ctx->globals` and the frames when it collects |
| Red-black tree (`rbtree.c`) | root, nodes | insert, erase, find, first, next, size, clear | scopes, symbol set and table of externals are instances; the collector iterates over scopes |
| Keys (`util.c`, `util.h`) | none | comparison of texts and of addresses | the order of every red-black tree |
| Evaluator (`eval.c`, `function.c`, `args.c`, the builtins that evaluate) | the C stack, `ctx->scope`, `ctx->frame`, open root cells | `sm_eval`, `sm_function_invoke`, `sm_arg_pattern_eval/unpack`, one C function per builtin | mutually recursive; allocates and drops through the heap |
| Context (`context.c`) | globals, main frame, externals | create, drop, enter and exit frame | holds all of the above |
| Symbols (`symbol.c`) | the set of interned texts | `sm_symbol` | a red-black tree by text |
| Parser (`parser.c`) | position in the source | `sm_parser_parse_all`, `sm_parser_parse_form`, `build_template`, `lexer_next` | reads what the REPL or a file has, and must read what `value.c` prints |
| Values (`value.c`, `value.h`) | cells that lists share | print, copy, build; quotes and list walks | used by everything |
| Argument patterns (`args.c`) | none | validate, make, evaluate, unpack | two functions for one meaning: builtins get a list, lambdas a scope |
| Accessors, arithmetic, comparisons (`builtins.c`, `number.h`) | none | `car` to `cddddr`, `+ - * /`, `= != < <= > >=` | called by the evaluator with lists of values |
| Error reports (`error.c`) | a buffer of 1024 bytes | `sm_error` | walks the frames of the context |
| REPL (`main.c`) | the buffer of a text | read lines until `complete`, parse, evaluate | has rules of its own about what the parser will accept |

What makes each of them correct: the index must lead every address to the
object that contains it and no other; the collector must free what the program
cannot name and nothing else, and must end; a red-black tree must stay a
balanced search tree and look like a map; a call must leave scope, frames and
root cells as it found them on every one of its returns, and must not lose an
error; what is printed must read as what it was, and a template evaluate to what
it shows; builtins that write into cells must write only into their own; a
trace must stay in its buffer; the REPL must wait exactly while the parser would
ask for more. The hazards behind these, each at its line, are listed in `PROJECT.json`.

## The modules

- `ObjectTree` has the operators of the index on a tree value: rotations,
  insertion, erasure, lookup, walks. A block is the address of a possible
  object and `Size` its length, so that overlap, containment and gaps are those
  of memory. An assertion that fails in the code sets `panicked`.
  `ObjectIndex` is the life of one index (insert, erase, drop) and shows that it
  implements `PointerMap`, in which every byte just has an owner.
- `Heap` is what the collector promises its clients: one action per operation
  of `heap.h`, the frame operations of `context.h`, and what the program does
  between them (store an address it can name, link, unlink, name a variable,
  move `ctx->scope`). A collection is one step that keeps what is reachable.
  `heap.count`, `heap.threshold` and `heap.unref` are the fields of `heap->gc`.
  A string is marked like a symbol (`private/heap.h:35` keeps two bits of a type
  that needs three), so its bytes may spell an address: `bytes` in `Alloc`.
- `MarkSweep` composes the index with the heap: the marker takes one address per
  step from `pending` (its C recursion, flattened in the same order), prunes
  lookups by `all_marked`, and the sweep erases one object per step while it
  walks. It implements `Heap` under a refinement mapping that hides the garbage
  from the moment the collection starts.
- `Keys` and `RBTree` are the comparisons and the red-black tree; mirrored code
  is written once, with a side as parameter. Nodes are named by their keys.
  `KeyMap` is the map that it implements.
- `Evaluator` is the control of the evaluator. The C stack is a sequence of
  calls; every operator `Main`, `CallList`, `Invoke`, `Unpack`, `Args`, `Let`,
  `Progn`, ... has the steps of one C function, from one call to the next. Where
  the code looks at a value, all outcomes are possible; that loses values, and
  keeps every path. A call remembers the context it was entered with, which is
  what the properties compare with.
- `Values` has the data of the language as trees: quotes, walks along lists, the
  builders, and printing, to tokens. `Patterns` is `args.c` as functions of
  values, with the result of `sm_eval` for every form as a parameter, and
  `Numbers` the arithmetic and the comparisons. `Language` puts them together: the
  value of a form, for the functional part of the language (no variable is set
  and no macro expanded, so a scope is a function from names to values).
  `Evaluator` has the same C functions' control, `Language` their results.
- `Reader` is the recursive descent of the parser over tokens, templates
  included, and `Lexer` the characters: tokens, how symbols and strings are
  spelled, and `complete`.
- `Lists` has the memory behind the values: cells that variables share, and the
  builtins that make, copy, join and take lists apart. Its actions are calls
  `(setq r (f x y . z))` of each builtin.
- `Trace` is the loop of `sm_error`, one iteration a step; `Repl` the reading
  loop of the interactive session, one `fgets` a step.
- `Interpreter` sets these side by side. Each is a unit that is fed every input
  up to a bound, one character, token, parameter, cell or number after the
  other, or takes its own steps; the properties relate what two pieces of the
  program make of the same input.
- `HeapProofs` has the theorems about `Heap`, `EvaluatorProofs` those about
  `Evaluator`, `BufferProofs` those about `Trace` and `Repl`, `RBTreeProofs` those
  about `RBTree`, `ObjectIndexProofs` those about
  `ObjectIndex` and `MarkSweepProofs` those about `MarkSweep`. They rest
  on two modules of lemmas: `BinaryTree` (trees given by functions for left, right
  and parent, whose operators are in `Links`; and recursive functions whose calls
  have smaller ranks), for both trees and the trace, and `ObjectTreeProofs` (the
  operators of `ObjectTree`).
- `MC*` modules give instances for TLC. Operators marked "seeded fault" are used
  by no specification: each is a plausible bug of the operator that follows it,
  and `PROJECT.json` names the property that notices it.

## What is checked

| Run | Question | Bounds |
|---|---|---|
| `ObjectIndex` | Is the index a search tree with exact bounds, in-order walk, and a map from addresses? Does insertion keep it balanced? | 8 candidate blocks of 1 to 3 bytes, some overlapping, with and without gaps; up to 6 live at once; every order of insertions and erasures. Rotations of both kinds, swaps with adjacent and distant predecessors all occur |
| `ObjectIndexNoPanic` | Can an assertion of a rotation fail? (yes) | 12 one-byte objects inserted in one order, then anything: erasures, and an insertion that rotates twice |
| `ObjectIndexDrop` | Does `sm_heap_drop` free everything? (no) | as `ObjectIndex` |
| `Heap` | No use after free; consistent books | 3 objects, 1 root cell, frames 2 deep, 2 addresses in memory at once, threshold 1 doubling, unreference threshold 2: collections at every kind of call |
| `HeapIds` | Are names of variables kept? (no) | 3 objects |
| `MarkSweep` | Does step-by-step collection implement the atomic one? Does it end? | 3 blocks with one field each, cycles included, 1 root cell, frames 2 deep |
| `MarkSweepOrders` | Is pruning exact, is nothing forgotten, does the sweep leave what is accessible? | one collection of 6 objects with two fields, every order and every subset reachable, two shapes of the index |
| `RBTree` | Is it a balanced search tree, a complete iteration, a map? | 7 texts, among them the empty one, prefixes of each other and bytes above 127; explored up to the first operation that loses the root |
| `RBTreeLookup` | Is every present key found? (no) | 6 addresses |
| `Evaluator` | Is the context restored, do frames and scopes live, are errors reported? | calls nested 4 deep below `main`'s, 2 forms, arguments or bindings each |
| `EvaluatorErrors` | Does only `ignore-errors` turn errors into values? (no) | 2 deep, 1 form |
| `Language` | Do the parts of the interpreter agree about texts, forms, arguments, lists and numbers? Do the trace and the session keep to their buffers? | below |

`Language` checks, for every input up to the bound:

| Property | What it relates | Bounds |
|---|---|---|
| `CompleteReads` | `complete` in `main.c` and the errors the parser reports at the end of a text; strings and comments, which `complete` does not know, excepted | texts of 4 of 16 characters |
| `SpellingReads` | the spelling of symbols and strings and the lexer; it names the characters for which they disagree | the same |
| `PrintedReadsBack` | `sm_print_value` and the parser, for forms, quoted and dotted values, functions and integers; it names what cannot be read: a string after a dot, and the smallest integer | forms of 7 tokens, values 4 deep with shared and quoted parts, patterns of 2 parameters, integers up to 12, so that literals overflow at the second digit, before it is added and with it |
| `TemplatesExpand` | the code a backquote becomes, evaluated, and the meaning of the template | forms of 7 tokens |
| `SameArguments` | the loop of `sm_arg_pattern_eval` and the two of `sm_arg_pattern_unpack`, which are operators of their own (what comes before them is one, `Arguments`); and the first with itself when the dotted part is written out | 2 parameters, 2 arguments, 6 dotted ends |
| `AccessorsFollow` | the names of the 28 accessors and their bodies; builtins called by name and as values | values 4 deep; as values with arguments up to one cell |
| `ListsRight` | the builtins on shared cells and on trees: result, error, undefined behaviour | 2 variables that lead to 3 cells at most between two calls, 1 quote, calls of 2 arguments and a dotted one; a call makes as many cells as it needs, and those that no variable leads to afterwards are dropped |
| `ListsKept` | a call and the values of all variables but the one it sets | the same |
| `ComparisonsAgree` | the six comparisons (one operator for six copies of a loop), one order, and exact arithmetic | all pairs of 12 arguments around 0, the rounding limit and both ends of the range |
| `ArithmeticExact` | the loops over integers and floats and exact sums, products and quotients | lists of 3 of the same; overflow is left out |
| `InBuffer`, `TraceTells` | the trace and the stack: never outside the buffer, and exactly as many names as fit | a buffer of 12, names of 1, 3 and 5, 4 frames |
| `LinesRead` | the texts evaluated and those in the input; and the end of the session | a buffer of 5, 3 lines of up to 5 |

Two of these say what the code does not do. Where an incomplete text fills the
buffer, the session reads nothing for ever (`LinesRead`): the buffer grows only
when `length == buf_size`, which cannot be, as `fgets` leaves one byte free
(`main.c:94`); called with a size of 1 it returns an empty text, at the end of the
input too (`ReadNothing`). So the session comes to its end where every text fits,
and where one that the end of the input cuts off leaves a byte more. Where a
builtin is passed as a value, the arguments of its call are evaluated in the
scope where it was named (`AccessorsFollow`, `eval.c:57`).

`TemplatesExpand` is about templates that are lists. A template that is an atom
loses its quotes, the one that the backquote gives it and its own, and one that
is a comma's form loses those of the form: `sm_parser_parse_form` replaces them by
the quotes before the backquote (`parser.c:717`). An atom after a dot that follows
a comma is evaluated (`parser.c:491`). Both are left out, and so are a comma at the
head of the template and templates in templates.

The bounds are small because each part is local: an index operation touches a
node, its parent, its children and the two subtrees below, and the double
rotations and swaps that involve the most nodes occur with five; the repairs of
the red-black tree reach their deepest case, a red sibling followed by a
straightening, with seven keys; a call of the evaluator can disturb only its
caller, and four levels put every function both above and below every other.
In `Language` each property looks at one or two neighbours: a template's loop at
a cell, the one before and the one after, so that seven tokens hold a splice
with something on both sides, a dot, and a list inside; a text of four
characters holds an escape inside a string; the loops of `args.c` have three
boundaries (parameters and rest, list and dotted part, the end), which two
parameters and two arguments put in every order. What is printed and read is
bounded by depth and not by kind.

`ObjectIndex` has no deadlock check because the dropped heap takes no step, nor
has `Evaluator`, because `main` returns after an error.

### Fairness

Safety properties assume none. `GcEnds` assumes weak fairness of `Collect`, the
steps of a collection: `sm_heap_gc` runs in its caller's thread and nothing
suspends it, so it takes its next step. `LinesRead` assumes weak fairness of
`ReadInput`, the steps of the session: its input is there, as from a file, and
the loop that reads it is the only thing that runs.

`Language` has no deadlock check because every input ends at its bound, and the
trace and the session come to their end.

### Five disagreements with the code's own words

Each of the runs that end in a violation checks a sentence of the repository:

1. `object_erase` chooses between single and double rotations by the wrong
   heights (`heap.c:248`, `255`). "Objects implement an AVL augmented tree"
   (`private/heap.h:27`) is then no longer true. `object_erase` itself always rotates
   towards a child that is there; but a later insertion, which chooses between
   one rotation and two as in an AVL tree (`heap.c:169`, `176`), rotates at a child
   that has nothing to rotate up, and its assertion fails (`heap.c:76`, `105`).
2. `sm_heap_drop` skips the right child of the first node ("suitable for
   dropping the whole tree", `heap.c:302`).
3. Marking a scope marks the values of its variables, not their names: a
   `gensym` used as a name is freed ("Ensure current and global scope are
   marked", `heap.c:589`).
4. `repair_after_erase` sets `tree->root` to the wrong node after rotating a red
   sibling (`rbtree.c:211`); present keys are then not found
   (`rbtree_test.c:260`). The run `RBTree` therefore states its properties up to
   the first such loss.
5. `let` and `let*` lose the error of a binding (`builtins.c:317`, `394`), and a
   call of a macro that of its body (`function.c:49`).

## What is proved

`HeapProofs` proves, for any set of objects, any number of root cells, frames
and variables, and any configuration with a positive threshold, factor and
unreference threshold:

- `TypeCorrect`: `Spec => []TypeOK`;
- `NothingDangles`: `Spec => []NoDangling`;
- `BooksBalance`: `Spec => []Accounting`.

The invariants are not inductive as they stand. `NoDangling` needs that root
cells, open or not, hold live objects, and that only strings hold addresses of
freed ones (`Sound`, `RootsLive`, `ScopesLive`). `Accounting` needs to know which
values the threshold can take: dividing by the factor stays above the configured
threshold only because every threshold is that one times a power of the factor
(`Levels`). `IInv` adds finiteness of the live objects, without which their
number is no number. The parts are predicates of a heap, so that the lemmas
about a collection (what `Collected` keeps, that it preserves each part) apply
both to `Gc` and to the collection inside an allocation or a drop. The
assumptions are those of `Heap`: names are distinct, the configuration is
positive, bounds are natural numbers.

`EvaluatorProofs` proves, for a C stack of any depth and lists of any length:

- `EvaluationRestores`: `Spec => Restores`;
- `FramesStayAlive`: `Spec => []FramesAlive`;
- `ScopesStayHeld`: `Spec => []ScopeHeld`;
- `ErrorsPassOn`: `Spec => ErrorsReported`;
- `Typed`: `Spec => []TypeOK`.

That a call leaves the context it found cannot be shown from the call on top
alone: what it finds on a return is what its own callee left. The induction is
on the C stack. `Inside(c, a, i)` says what the context is, in terms of the one
the call `a` was entered with, wherever in its function `a` may be: which scope
it has set (`OwnScope`), whether it has entered a frame (`OwnFrame`), which root
cells it has open (`OwnRoot`). The invariant `IInv` links the entry of every call
with the inside of its caller, and the current context with the inside of the
call on top; so a return, which restores the entry of the call on top, lands
inside its caller. `Held`, `Framed` and `Below` pass from an entry to the inside
of a call (`InsideGood`), which gives the two invariants about frames and scopes.
There is one lemma for each way a C function goes on (`ContinueKeeps`,
`CallKeeps`, `EvalKeeps`, `ReturnKeeps`) and one for each function. The proofs
use that `MaxForms` is a natural number, and never `MaxDepth`.

For `ErrorsPassOn` the invariant (`Reported`) is about every call of the stack: it
has seen no failure, or it is of a function that forgives one, or it is the call
on top and the result it has just been given is the error. From there each
function has to return at once; that it does, and never calls anything else
first, is what the lemmas show. One lemma for each function (`ArgsReports`, `InvokeReports`, ...) follows it to
its returns; `let`, `let*` and the expansion of a macro are the functions that
forgive without being asked to, which is the fifth disagreement above.

`ObjectIndexProofs` proves, for any set of blocks, of whatever sizes, any of
which may overlap as long as they are not live at once, and any history of
insertions, erasures and drops:

- `TypesCorrect`: `Spec => []TypeOK`;
- `OrderKept`: `Spec => []SearchTree`;
- `BoundsKept`: `Spec => []BoundsExact`;
- `WalkInOrder`: `Spec => []SuccInOrder`;
- `InsertionBalances`: `Spec => InsertBalances`, an action property;
- `IndexImplementsMap`: `Spec => ImplementsPointerMap`, the refinement: an
  insertion, an erasure or a drop of the index is that of `PointerMap`, and every
  state of the index answers every address as the map does.

All of these follow from one inductive invariant (`Invariance`): the tree is `Sound`,
and no two live objects share a byte, which is `malloc`'s promise and a guard of
`Insert`. `Sound` has two halves. `Shape(t, sub)` says that the links form a
binary search tree, `sub` giving the nodes of every subtree; the code has no
such value, so it is a witness that every operation moves along. `Tight(t, n)`
says that the bounds of a node agree with those of its children, which is local
where "the bounds are exact" is not: of a whole tree the one implies the other.

- A rotation is proved once, in `BinaryTree`, and used for both sides by
  exchanging left and right (`Turn`, `Mirror`). It rearranges the tree: same
  nodes, same order, same bounds of the subtree (`Rearranged`), so that whatever
  sequence of rotations the code chooses is harmless. This is why the theorems
  need no balance, and hold where `object_erase` has lost it (first disagreement)
  and where an assertion has failed.
- An insertion widens the bounds on its way down before the node is there;
  `BoundsCover`, `WidenFields` and `AttachSound` say that what is widened is
  exactly the path the new node hangs from.
- An erasure with two children first exchanges the node with its predecessor,
  next to it or far away (`SwapAndCut`), and then leaves all bounds from the cut
  to the root too wide. The invariant of the loop that climbs leaves out the
  nodes still ahead of it (`EraseStepRepairs`, `RebalanceAfterEraseSound`).
- Lookup: bounds and order leave one way down for an address, and it ends at the
  object that contains it or at none (`FromPointerExact`).
- The sweep's walk: the successor of an object is the least one above it, found
  below its right child or by climbing (`SuccNext`); a walk along such successors
  rises and leaves nothing out (`TrailRises`).
- Balance: where an AVL tree was, the new leaf leaves one whose only flaw is above
  it. The invariant of the climb (`Growing`) says that the subtree it has come
  through may have grown by one, that its parent is level over what that subtree
  was, and that a subtree that has grown leans towards the new node. The last part
  is what makes comparing addresses, instead of heights, choose the right
  rotations (`GrowthStep`); a rotation, single or double, then gives the subtree
  the height it had before, and the loop may stop (`SingleLevels`, `DoubleLevels`,
  `RebalanceLevels`). Since erasures do not keep the tree balanced, the theorem is
  about the step and not about the states reached.

The walks of `ObjectTree` are recursive functions of the nodes. That such a
function exists and is determined is not free: `BinaryTree.RecursionWorks` shows it
for every recursion that goes to smaller ranks, and the number of nodes below or
above a node are the ranks (`DownRecursion`, `UpRecursion`, and `DownInduction`,
`UpInduction` for what is proved along them). The one assumption is that blocks
are numbers above 0 and sizes are positive.

`RBTreeProofs` proves, for any keys and values, and any history of insertions,
replacements, erasures and drops up to the first erasure that loses the root:

- `TypesCorrect`, `OrderKept`, `BalanceKept`, `LookupsExact`, `IterationComplete`:
  `IntactSpec => []P` for `TypeOK`, `SearchTree`, `RedBlack`, `LookupExact` and
  `Iterates`;
- `TreeImplementsMap`: `IntactSpec => ImplementsKeyMap`, the refinement.

Each has the hypothesis `CompareOrder`: the comparison is 0 for equal keys only,
changes its sign when its arguments change places, and is transitive. That is so
of texts, and of addresses closer than the range of `int`. It is no assumption of
`RBTree`, because it is not so of all addresses: what the code does with those is
in `Keys`.

The invariant (`TreeKept`) is `Sound`: the types, one search tree linked both
ways (`Shaped`), and red-black (`Balanced`). It says nothing of `tree.root`, which
an erasure may set below the top (fourth disagreement); the last operation that
`IntactSpec` allows is the one that loses it, and of the tree it leaves `TypeOK`,
`SearchTree` and `RedBlack` still hold.

- Shape and balance are separate. Rotations, exchanges and cuts are facts of
  `BinaryTree` about links, and the colours are no matter to them
  (`RotateShape`, `ExchangeDetaches`, `UnlinkShape`).
- Balance is stated by `H`, the number of black nodes on every way down from a
  node, as a witness that the repairs move along, like `sub`. What is wrong with
  the tree while it is repaired has a name: `Clash`, two red nodes, one above the
  other, and nothing else; `Light`, one side of one node one black node short.
  Each case of a repair takes one to the other at a higher node, or to none.
- The loops of the repairs do not rotate on their way up: they only paint, and
  paint no node that they have still to look at. So `RBTree` states them as the
  set of the nodes they pass (`Risen`, `Lifted`) and one repainting of those, and
  that all heights fit afterwards is shown node by node instead of by an invariant
  of a loop.
- `SearchTree`, `RedBlack` and the refinement's view are recursions and choices
  of the whole tree. `DownInduction` shows that they say what the local statements
  say (`MembersExact`, `DepthsEven`, `FindExact`).
- Iteration: `next` goes to the first node on the right, or climbs; in either case
  to the least element above (`AfterAdvances`). A walk along such successors leaves
  nothing out (`BinaryTree.TrailSteps`), as in the sweep of the index.

`MarkSweepProofs` proves, for any finite set of blocks and of root cells, any
structures the program builds, cyclic ones included, and any order in which they
are marked:

- `TypesCorrect`, `PruningExact`, `NothingForgotten`, `NoFlagLeft`:
  `Spec => []P` for `TypeOK`, `AllMarkedExact`, `Frontier` and `FlagsCleared`;
- `CollectsGarbage`: `Spec => LeavesAccessible`;
- `BooksBalance`: `Spec => []Budget`: the count never passes the threshold, and an
  allocation that has just collected does not find that it should collect again;
- `CollectorImplementsHeap`: `Spec => ImplementsHeap`, the refinement of `Heap`.

The inductive invariant (`Invariance`) is `Steady`, which always holds (types, a
`Sound` index, no shared byte, a true count, closed cells and free blocks that
hold nothing), and one part for each phase. They share a notion: a set of objects
`Covers` if whoever starts from the sources of a collection and follows addresses
stays in it.

- `Marking`: the live objects cover; every covering set has all that is marked
  and all that is pending (`Needed`); nothing is forgotten (`Frontier`); pruning is
  exact. The four need each other. A lookup that is pruned may miss an object
  only because it is marked already, which is `AllMarkedExact`; and that all
  flags above a mark are updated by climbing while both subtrees are whole
  (`PropagatedExact`) is an induction along the parent links. When nothing is
  pending, what is marked covers (`MarkedCovers`), and by `Needed` nothing less
  does.
- `Sweeping` keeps exactly that, of the objects the sweep has passed or will
  leave (`Survivors`): they cover, and no smaller set of them does. What the sweep
  erases is in neither. It erases one node and goes on to the next, found before
  the erasure moves anything; that the cursor then still separates what was
  passed from what is ahead is `SuccNext`, and that the tree is still an index is
  `EraseSound`, both of `ObjectTreeProofs`.
- `Resting`: no flag is left, and the live objects cover.

`LeavesAccessible` compares the end with `Accessible`, which is defined by steps
from the handles, as many as there are blocks; `AccessibleSpans` shows that this
is the least closed set, by counting: a set of objects that grows with every step
has stopped growing by then.

For the refinement the collection is the moment it starts: the mapping shows a
collecting heap as what it keeps (`HeapView`), so that its first step is `Heap`'s
whole collection (`StartImplements`) and all others are stutters
(`CollectStutters`), because what the sweep will leave does not change on the way
(`SpansOnce`). Every action of the clients is then `Heap`'s of the same name
(`AllocImplements`, `DropImplements`, ...), for which the two models' notions of
address, reachability, count and unreference are shown to be one
(`ReachesAlike`, `UnrefsAlike`, `CountsAlike`). `Heap` states no fairness, so
this is all of `ImplementsHeap`. The assumptions are those of the modules:
blocks are numbers above 0 and longer than an object's header, the global scope
is inside none, `Nil` is no block and no cell, and the configuration is positive.

`BufferProofs` proves about the trace, for any size of the buffer of at least 4, any word larger
than it, any non-empty names and any number of frames:

- `TraceInBuffer`: `TraceSpec => []InBuffer`;
- `TraceTellsStack`: `TraceSpec => []TraceTells`.

`InBuffer` says that the position is in the buffer and, while the loop goes on,
that three characters are left; the second part is why the unsigned difference
(`RoomExact`) is the one that is meant. `TraceInv` adds the types, and that a
loop that goes on has a frame left. `TraceTells` is inductive together with it:
the position is what the names written so far leave of the buffer, so the test
of one iteration decides whether all names up to this one fit (`NeededExact`).
That the sum of a stack's names is a recursion that means what it says is again
`RecursionWorks` (`TakenByFrames`).

About the session it proves, for any size of the buffer of at least 2, any lines
that are not empty and any number of them:

- `SessionReads`: `ReplSpec => []EvaluatesTexts`, the part of `LinesRead` that is
  not liveness.

`EvaluatesTexts` is not inductive: it has nothing about the text that is being
read. `ReplInv` relates what has been evaluated, what is in the buffer and what
has been read of the current line to the texts of the lines before it
(`TextsUpTo`), at every phase: while a text is read, the buffer has what these
lines leave unfinished and what `fgets` has taken of the next (`Reading`), and at
the evaluation it is the next text (`Whole`), or the last, which the input cuts
off. One lemma does for both calls of `fgets`, however much of a line they get
(`FgetsReads`). The buffer never has more than one character less than its
size, so that `Size` is always `LineBuf`: the branch that makes it larger is
never taken, which is why `LinesRead` can promise an end only where texts fit.

## What is only checked

- All of `Language` but `InBuffer`, `TraceTells` and the first part of
  `LinesRead`: the rest relates recursive operators
  on sequences and trees of values, and the prover cannot reason in a module that
  declares one. The induction theorems of the library, too, take an operator as
  a parameter, which no installed prover can be given.
- `GcEnds` and the last part of `LinesRead` are liveness, out of the prover's reach.

## What is abstracted, and what is not modelled

- Characters without a meaning are one letter, digits one digit; exponents,
  escapes other than `\\`, `\"` and `\n`, UTF-8 and locations in messages are left
  out. Names are atoms in `Reader` and sequences of characters in `Lexer`.
- A float is a quotient and exact, but for the rounding of large integers;
  what it prints as, and reads as, is left out. Overflow of integers, division
  by zero and a call of `append` that treats a number as a list have the outcome
  "undefined", which the properties accept: that the code does not test for them
  is stated, not checked.
- `Language` has no assignment, `let`, macro or `print`: their control, with every
  failure, is `Evaluator`'s. `Lists` drops, at the end of
  a call, the cells that no variable leads to, which make no difference to any
  call after it (`cons` and `list*` always leave one), and numbers the others anew;
  the collector is `Heap`'s. That
  a builtin's new cells are held by a root cell while it evaluates further
  arguments is in `Heap` an assumption about its clients.
- Reading files, the command line, and output: they keep no state that the rest
  depends on. `exit`, which drops the context and ends the process from inside a
  call. Memory exhaustion, which aborts. Overflow of the C stack by deep
  data. `sm_rbtree_clone` and the hash function, which nothing calls. Comparison
  results wider than `int` are modelled in `Keys`, but the instances stay within
  the range.

## Plan

1. Done: index, heap, collector, red-black tree, evaluator; values, patterns,
   numbers, reader, lexer, lists, trace and session; the proofs about the heap,
   the evaluator, the trace and the session, the index, the collector and the
   red-black tree, each with its refinement.
2. `ignore-errors` and `cdr` over the heap, without the assumption that an
   address is put in a root cell before the next allocation.
