# hmesh in TLA+

A verification development of hmesh, a half-edge mesh library in C with a C99
front end beside it. It holds TLA+ modules of the parts that keep state, TLC
configurations that check them on small instances, and TLAPS proofs for every
size of the index stacks, the tree pool, the arrays and cells, the parser's
memory, its symbol table and its scopes.

The program is sequential. It has no threads, callbacks or messages
(`include/tree-pool.h` lists thread safety as something to do), and it persists
nothing. What makes it hard is long sequences of legal calls over linked
structures that live inside the memory they manage, growth and rounding at the
limits of 16-bit indices, operations that fail half way through, and passes over
a structure that change it under their own feet. Two parts run on their own
until they are done, remeshing and the traversals of the grammar tool; for these
there are liveness properties. The other parts only answer calls, and nothing in
them has to happen eventually.

## The system

Paths are relative to `src/`.

| Component | Source | State | Operations |
|---|---|---|---|
| Index stacks | `include/common.h` 79-274 | `info[]` with four interleaved lists, `n`, `nfree`, `max`, `limit`, `increment`; a client's array of attributes | create, expand, free head (peek or pop), allocate, deallocate, destroy |
| Error reports | `src/common.c` | one growing character array, a status | `hmesh_error`, `hmesh_error_flush` |
| Tree pool | `src/tree-pool.c` | up to 8 mappings, one flag byte per node in the first page of each, a free list per level linked through the free blocks themselves | allocate 1, 2, 4 or 8 pages, deallocate, add a mapping, destroy |
| Attribute arrays | `src/hmesh.c` 1-133 | an index stack of blocks, `blockID[]`, and the caller's `mem[]` | create, add, remove, destroy |
| Cells | `src/hmesh.c` 135-483 | an index stack of attributes, one array each; node counts per block; the tail block | create, expand, destroy, new and removed scalars, new and removed nodes |
| Mesh object | `src/hmesh.c` 485-547 | four pointers to cells | create, destroy |
| Parser memory | `syntax/ast/memory.c` | `malloc` blocks cut from the top, pools with free lists, a string page | allocate, pool, node from and to a pool, strdup, deallocate all |
| Symbol table | `syntax/ast/hash.c` | buckets, count, threshold | init, lookup, insert (may double), reset, free |
| Scopes | `syntax/ast/scope.c`, `ast.c`, `check_type ()` in `lexer.l` | a chain of scopes, a table each, the current one, a flag `cleared` | push, pop, clear, declare, ask for a name, free |
| Syntax tree, lexer, parser | `syntax/ast/ast.c`, `syntax/lexer.l`, `syntax/parser.y` | the tree | scan, parse, print |
| Grammar tools | `syntax/grammar/` | rules with flags, a stack of frames | read a grammar, traverse it, print it |
| Former memory pool | `src/mempool.c` | trees and free lists | not built |
| Half-edge surface | `src/backup/hmesh.h`, `src/backup/hmesh-remesh.h` | half-edges with `next`, `flip`, vertex and flags (first or second of its edge, place in the face, regrid status); a 4-bit valence per vertex | make from a triangulation, split edges and faces, mark and collapse edges, sweep, remesh |

How they interact: cells own an index stack of attributes and, for each, an
attribute array; an attribute array owns an index stack of blocks and takes the
blocks from the tree pool, which is one for the whole program; the map of the
cells (attribute 0) lends its index stack to the cells as the list of blocks.
The symbol table takes nodes and key copies from the parser memory; the scopes
hold one table each, the lexer asks them for each identifier and the parser
declares in the current one. Every failure is reported to the error buffer and
returned.

Parts of the repository do not compile at this commit: `src/hmesh.c` lacks a
semicolon at line 208, has an empty condition at 455, calls
`hmesh_cells_expand ()` without its argument at 442, and reads a field
`cells->last` that the struct calls `tail`. Where the intent is plain (the
semicolon, the argument, the field) the module models that and says so.
`hmesh_node_remove ()`, where it is not, is left out. The half-edge files are
written for the Basilisk preprocessor and no Makefile builds them.

What makes each component correct:

- **Index stacks.** Each index below `max` is in use or free, never both; the
  four lists stay mutually inverse; no index outside `in_use` carries an
  attribute; destroy leaves exactly the indices that carry one.
- **Tree pool.** Blocks handed out never overlap; the free lists hold exactly
  the blocks flagged free; buddies coalesce; a request fails only when nothing
  fits; a block that is not out is refused.
- **Attribute arrays.** `mem[i]` is a block exactly when `i` is in use; a block
  has one owner; destroying an array gives all of its blocks back. (The last is
  what `hmesh.c:97` says; `hmesh_array_destroy` shows that it is not so.)
- **Cells.** Every attribute has memory for every block the nodes live in; a
  node is handed out once, and the counts of nodes only grow; names are distinct;
  the defaults stay in front; every index in use has its attribute. (The last is
  not so, and for k > 0 neither is the one before it, see "Disagreements".)
- **Parser memory.** What is handed out lies in a block and overlaps nothing.
- **Symbol table.** A map, whatever doubles or collides.
- **Error reports.** Each message is printed once, in order.
- **Half-edges.** Twins stay twins and `next` closes triangles; the stored
  valences are the real ones; no valence falls below four; each step does to
  the surface what its name says; remeshing ends with nothing half done, and no
  assertion fails. (Three of these are not so:
  the valences, the contraction at a waist, the assertions; see "Disagreements".)
- **Scopes.** A name means its declaration in the innermost open scope; nothing
  declared in a scope that ended comes back when its table is used again.
- **Grammar tools.** A flag reaches exactly the rules it belongs to, the
  traversal ends, whatever cycles the grammar has, and its stack suffices.

## The modules

| Module | Models | Composes |
|---|---|---|
| `IndexStackOps` | the stack as a value; its operations as operators | |
| `IndexPool` | abstract: used, free and held indices | |
| `IndexStack` | one stack and the attributes beside it, one action per call, destroy one iteration at a time | `IndexStackOps`; implements `IndexPool` |
| `IndexStackLoops` | the growth loops iteration by iteration | `IndexStack` |
| `IndexStackOpsProofs`, `IndexStackProofs` | the proofs of the stack's operators, of `IndexStack` and of its loops | |
| `PagePool` | abstract: disjoint aligned extents of pages | |
| `TreePool` | the buddy allocator | implements `PagePool` |
| `TreePoolLoops` | its loops iteration by iteration | `TreePool` |
| `TreePoolProofs` | the proofs of `TreePool`, the refinement among them, and of its loops | |
| `HmeshArray` | arrays of blocks over one pool | `IndexStackOps`; the pool as `PagePool` promises it |
| `HmeshArrayProofs` | its proofs | `IndexStackOpsProofs` |
| `HmeshCells` | attributes, blocks and nodes of one set of cells | `IndexStackOps`, twice |
| `HmeshCellsProofs` | its proofs | `IndexStackOpsProofs` |
| `SymbolMap` | abstract: a map from keys to symbols | |
| `HashTable` | one symbol table | implements `SymbolMap` |
| `HashTableProofs` | its proofs, the refinement among them | |
| `AstMemory` | the parser's allocator | |
| `AstMemoryProofs` | its proofs | |
| `MessageLog` | abstract: messages pending and printed | |
| `ErrorBuffer` | the error buffer | implements `MessageLog` |
| `Surface` | abstract: a closed surface of polygons that changes by halving edges, cutting polygons and contracting edges that lie apart | |
| `HedgeOps` | the half-edge mesh as a value; `hmesh_init ()`, `hmesh_valid ()` and the operations of the remeshing as operators | |
| `HalfEdge` | `hmesh_remesh ()`, a step per hedge a loop changes | `HedgeOps`; implements `Surface` |
| `Nest` | abstract: nested scopes that are new each time they are entered | |
| `Scopes` | the chain of reused scopes; a table is the map of `SymbolMap` | implements `Nest` |
| `ScopesProofs` | the proofs | |
| `RuleFlags` | the three traversals of a grammar, a step per rule taken | |

`MCTreePool`, `MCHmeshArray`, `MCHashTable`, `MCErrorBuffer` and `MCHalfEdge` give
their modules the bound on blocks, the symmetry, the hash function, the message
sizes and the fronts that a configuration cannot write; `MCParserFlags` has the
grammar of C, and `MCRuleFlags` extends it with small grammars. `MCTreePool`
extends `TreePoolLoops`, and `MCIndexStack.cfg` is of `IndexStackLoops`, so that
loops and closed forms are compared in every state. The other configurations
name the modules themselves. Operators with the comment
*mutant* are plausible mistakes in the code next to which they stand. No
specification uses them: each is substituted for the operator it stands next
to in order to see that a property notices.

### How state and actions correspond to the code

*Index stacks.* The C struct interleaves four arrays in `info`; the module has
one function each. Entries the code never reads are `NIL`, which is the value
`UINT16_MAX` in the code too. A variable `attribute` is the client's array,
reduced to "NULL or not". The client sets an attribute only at an index in use,
as the header asks. The loop of `index_stack_allocate ()` that expands until
the index fits, and the one in `index_stack_expand ()`, are given in closed
form (`ExpandUntil`, `Extend`), because the proofs need them so;
`IndexStackLoops` has the loops, and the two are proved to agree. The sum
`max + increment` is taken modulo `IndexMax + 1`, as the 16 bits of the code
do. When it wraps the stack is "faulted": what the code does afterwards
is outside what C defines. `index_stack_deallocate ()` reads the attribute of
the index before it knows that the index is below `max` (`common.h:200`): with
an index past it the call is refused in order (`DeallocateRefused`) or the read
past the end stops the program (`DeallocateCrashes`).

*Tree pool.* A `blockID` is a pair of tree and node. `flags` has the three
fields of the flag byte. A `FreeTBlock` lies in the first page of its
block, so `hdr` is indexed by page address, and a header that was unlinked is
`NoHeader`: whoever gets the page may write over it. Node numbers are the
code's, a slot per chunk unused. Clients may pass any block they were ever
given, also one that was freed, merged or divided since. The loops are given in
closed form (`Split`, `Coalesce`, `AddTree`, `BestLevel`, `LowestBit`);
`TreePoolLoops` has them iteration by iteration, as recursive functions of how
often the body has run, and the two are proved to agree.

*Attribute arrays.* `mem[i]` and `blockID[i]` are written together, so one
field `block[i]` stands for both. `Garbage` is what `malloc ()` left there;
`RemoveGarbage` chooses over what such an entry may read as. `misread` is a
history variable: it says whether a block was freed on the strength of such an
entry, and the client goes on all the same. The pool gives any block that is
not out, or none: that is `PagePool` with its extents made opaque. A block that
destroy has passed over is out and in no array.
`hmesh_array_destroy ()` takes one step per iteration.

*Cells.* Attributes other than the map are a name and a set of blocks. Each
block addition may fail. `Stops` are the positions at which
`hmesh_cells_expand ()` can give up, from the last attribute down to the map.
Searches follow a null attribute into the phase "faulted". `ScalarRemoveFails`
is the removal that reports an error because the array could not be destroyed
cleanly: the array is freed, and index and pointer stay; whoever follows the
pointer is in the phase "faulted" too.

*Symbol table.* A bucket is a sequence. A key longer than 4095 characters is
kept as `Absent`, because `ast_strdup ()` returns NULL for it. The field `of` of
a node is a ghost: the key the node was made for, which no search reads. It is
how the refinement knows the entry of a long key, whose node no longer tells.
`Rehashed` says where the doubling leaves the nodes, each bucket `Backwards`,
in closed form; the proofs need it so. A doubling that is due may also not
happen, since `realloc ()` may fail.

*Parser memory.* Sizes are in words of 8 bytes. `given` is a ghost: the ranges
clients own; it is a set, so one range granted twice to the same kind of client
would show in the free nodes only. A block may come out as half, a quarter, ... of the size asked,
down to a page, as in the loop of `ast_memory_block ()`.

*Error buffer.* The text is a sequence of pieces with sizes; `len` and `max` are
the code's numbers. `realloc ()` is taken to succeed.

*Half-edges.* A mesh is a record: `hedge[h]` has the fields of the struct that
are read, `val[v]` the four bits of the valence. Ids grow, as the code's do
until memory is reused; `hcompare ()` compares them. Which edges are long or
short, and which of two halved sides is the longer, is geometry, and hence any
choice, as often as a budget allows; so every order and every neighbourhood of
splits and collapses occurs, those that no real lengths would give included. A
`foreach` loop visits the hedges that exist when it starts in the order of
their ids. The iterations that change nothing are skipped, the others are one
step each, but for `hface_collapse ()` of all marked edges and the sweep after
it, which no choice separates: they are one step (`Merge`), computed edge by
edge in the loop's order; of the two faces of an edge the second is bridged
over what the first has left. The fan of a point is walked as the iterator
walks it, 15 hedges at most: a walk that is back at the 15th fails its
assertion (`FanFails`), one that is not goes on with a part of the fan
(`FanIsCut`). Where `hmesh_valid ()` is asserted the program goes on or stops
in the phase "aborted". The walks in `hedge_collapse ()` could abort as well;
that no fan of 15 gets that far is part of `MeshValid`.

Two history variables are for the properties. `simple` is true as long as only
edges were collapsed that can be contracted on a surface (`Contracts`: the ends
have two neighbours in common, the corners of the edge's faces).
`surface` holds the polygons of the mesh as long as it is simple; it
is what `ImplementsSurface` maps to the abstract surface.

*Scopes.* Scope i + 1 is the child of scope i, for each scope has one child
and keeps it. `Enter` is `scope_push ()` that returns the child there is,
`Grow` the one that makes a new one. No grammar rule pushes a scope yet, so
what the parser will do is an assumption, `MayLeave`: a scope left uncleared
(as the parameters of a function are, until its body is entered) is entered
again or cleared before the scope around it is left. Without it the property
is false: `scope.c` clears one level, and the symbols of a scope two levels
down come back; none of the runs covers such a history.

*Grammar tool.* A grammar maps names of rules to chains of names; other names
are tokens, `Code` any source code in braces. A frame of `stack` has the
position the code's `i` and `j` have. `push ()` is `SkipCode`, `Descend`,
`Revisit` (a push and a pop at once) and `NextChain`. The flags are sets of
bits. The history variable `back` has the references that were found on the
stack. `MCParserFlags` is all of the rules of `grammar/parser.y`, with the
names that `get_token ()` gives to characters, rules of one shape written by
one operator (`OneOf`, `List`, `Run`, `Binary`).

## The runs

| Run | Module, configuration | Shows | Bounds |
|---|---|---|---|
| `index_stack` | `IndexStackLoops`, `MCIndexStack` | the lists stay inverse, attributes stay in use, destroy keeps what is held, and the stack implements `IndexPool`, until it has provided more than limit - increment indices and a sum wraps; closed forms = loops, and the wrap is foreseen exactly | indices 0 to 4, limits 3 and 4 = `UINT16_MAX`, increments 0 (taken as 1), 2 and 3 |
| `tree_pool` | `MCTreePool`, `MCTreePool` | sound free lists, partitioned pages, full coalescing; two pools serve as one; `PagePool`; division, coalescing, requests and a new pool = the loops | Depth 2; one pool of two chunks in every state; a pool of four chunks, and two pools, with at most two blocks out |
| `hmesh_array` | `MCHmeshArray`, `MCHmeshArray` | mem follows a sound stack, one owner per block, only a misread lets a block stray | two arrays, three indices, three blocks |
| `hmesh_array_destroy` | `MCHmeshArray`, `MCHmeshArrayDestroy` | *violated:* destroy gives all blocks back | as above |
| `hmesh_cells` | `HmeshCells`, `MCHmeshCells` | attributes cover the map, nodes are never shared and counts only grow, defaults stay in front and names are distinct | 3 defaults, 3 scalars, 6 blocks of 2 nodes and the wrap that refuses a seventh |
| `hash_table` | `MCHashTable`, `MCHashTable` | nodes in their buckets; `SymbolMap` | 2 to 8 buckets, 4 keys, 3 of one hash, 4 insertions between creation and the end |
| `ast_memory` | `AstMemory`, `MCAstMemory` | parts lie in blocks and overlap nothing, nodes are free once | two blocks, pages of 5 words, two pools |
| `error_buffer` | `MCErrorBuffer`, `MCErrorBuffer` | room for every write; `MessageLog` | 110 characters, growth by 37 |
| `half_edge` | `MCHalfEdge`, `MCHalfEdge` | while only edges are collapsed that can be contracted, a valid mesh after every pass and `Surface`, and the asserts fail for fans of 15 only; no collapse takes a hedge too many from a bystander, and a merged point keeps two; remeshing ends with nothing half done, or in an assertion for one of these two reasons | seven fronts, see below; one repeated pass |
| `half_edge_waist` | `MCHalfEdge`, `MCHalfEdgeWaist` | *violated:* the assertion after a pass holds unless a fan has 15 hedges | a surface of 17 points |
| `scopes` | `Scopes`, `MCScopes` | in the histories that obey `MayLeave`: what is reused is empty, each table freed once, `Nest` | four scopes, two names, two types |
| `rule_flags` | `MCRuleFlags`, `MCRuleFlags` | flags come from below only; two traversals bring them everywhere but for two grammars of the run; 128 frames suffice for `grammar/parser.y`; the traversals end with the lookups that are due | 2401 grammars of two rules besides `root`, `type_name` and `type_specifier`, 625 of three rules, and all 83 rules of `grammar/parser.y` |

The runs marked *violated* check one property each that a comment or an
assertion of the repository states, and that the code does not have. TLC's
counterexamples are the behaviours told under "Disagreements" below.
The type invariants of stacks, cells, half-edges, scopes and rules are among what
the runs check; those of the tree pool, the arrays and the parser's memory are
proved (`TypeCorrect`) and not run.

### Why the bounds are enough

Index stacks compare indices with `max`, `limit` and each other only, so a few
indices show every order; the bounds have an increment that meets the limit
exactly, one that is cut by it, and one that overshoots the type. In the tree
pool two chunks give a chunk with the page of flags and one without it; Depth 2
has a level with neither roots nor single pages, so merges of zero, one and two
levels and divisions by one and two occur. The code's Depth is 3: it adds
levels of the same kind. `mmap ()` may grant four chunks, or refuse them and
grant two. A larger pool and a second one are there to see requests served by
either, frees that find their own tree, and lists that run through both; for
these a few blocks are enough (`FewBlocks`). The variables that keep the last
call and its answer are not part of the view: no step reads them. In the arrays
three indices give a first, a middle and a last for the swaps, and the stack
grows once after its creation. In the cells the first scalar makes the stack of attributes grow, and the fourth block the
stack of blocks; the seventh block would make it grow again, and the sum
wraps. The hash table passes its first and second threshold
with and without a doubling. In the parser memory a page holds one or two nodes
and a remainder, and a block of one page and one of two pages occur.

The fronts of `half_edge` are the small closed surfaces on which the cases of
the code meet. On a tetrahedron with all six edges free to split, faces have
one, two and three halved sides, in every order and beside each other. On a
tetrahedron and an octahedron two edges are split or collapsed over two
rounds, so that what splitting made is collapsed, and most collapses are
abandoned. On an icosahedron with one edge divided valences are 4 to 6, two
edges may collapse in one pass or spoil each other, and what was abandoned is
tried again in a second pass. Three fronts are there for what the asserts
exclude. `Waist` and `LongWaist` have a triangle of edges that is no face; any
edge of the first may collapse. Of the second, four edges may, in any order over
four rounds: one on either side of the waist, which takes a hedge off its third
corner, and two of the waist itself, so that the merged points stay within the
valences of the guard and an edge of length zero can come about. `Bipyramid(9)`
has two points of nine hedges, and six edges of its ring may split. `Limits` is
1 instead of 5 and rounds are at most 4 instead of 6: further ones start in
states of the same kind. The properties that are relative to `simple` are not
weaker for it elsewhere: on the first four fronts no edge that cannot be
contracted passes the guards of `hedge_collapse ()`.

Four scopes have a current one with scopes before it, a child, and scopes
behind the child. The small grammars of `rule_flags` combine every pair of chains
that refer upwards, downwards, to themselves, to a type name, to source code
or to tokens; in `Loops` three rules refer to each other in every way; `parser`
is `grammar/parser.y` as it stands. Two traversals do not bring the flags
everywhere in every grammar: with `root : a`, `a : b new_identifier`, `b : NAME
c | NAME a`, `c : NAME b`, the rule `c` misses one, for on its way up are two
references, from `c` to `b` and from `b` to `a`, that are found on the stack.
One such reference on the way is made up for by the second traversal in every
grammar, which is part of `FlagsFromBelow`. `ShortOnlyTwiceBack` says that of the
3026 small grammars two fall short, the one above and one of its shape, and that
`grammar/parser.y` does not; with one traversal it does. The stack is 31
frames deep there at most. The flags of the 83 rules are those that the
compiled tool prints.

### Fairness

`HalfEdge` has `WF_control(Moves)` and `RuleFlags` `WF_vars(Next)`. Both say one
thing: the program is sequential, and runs on until it returns. `Moves` is the
disjunction of the steps without what they do to the mesh, so that it
is enabled exactly when a step is; `control` are the variables it changes.
Nothing is assumed of which edges are long or short, and a failing assertion is
an end: `Completes` says "done with nothing half done, or aborted at a fan of 15 or
after an edge was collapsed that cannot be contracted". That a mesh
always finds a long edge is excluded by the rounds, in the code (6) as in the model; a pass has
finitely many hedges, and passes repeat at most five times.

`CHECK_DEADLOCK FALSE` stands where the system really stops: after a fault or a
crash, when remeshing or the traversals are done, at the end of the program
(`AstMemory`), or, in `HmeshArray`, when the operands are used up inside the
bounds.

### Disagreements and abstractions to keep in mind

Where the code does not do what a comment, a test or the code around it says;
the models do what the code does:

- `hmesh_array_remove ()` of an index below `max` that was never added reads
  memory nobody wrote (`hmesh.c:52`) and may give back somebody else's block;
  `tests/attr.c:29` expects an error. `OnlyMisreadsStray` shows that this is the
  only way for a block to go astray.
- `hmesh_array_destroy ()` walks upwards a list that its own removals
  rearrange (`hmesh.c:107`) and leaves about half of the blocks allocated;
  `hmesh.c:97` says that it deallocates all of them. Run `hmesh_array_destroy`.
- For k > 0 the default attributes of cells are stored at k + 3 and k + 4
  (`hmesh.c:254`) while the indices up to `min` are claimed;
  `tests/edge-cells.c:27` asserts all of them. With `k = 1`, `K = 1` and
  `HMESH_MAX_NVARS = 7`, `Increment = 2` in `MCHmeshCells`, `NamesDistinct` is
  false as soon as the cells are created; the other properties are true, since
  the third attribute is missing and no block is ever opened.
- A stack with limit `UINT16_MAX` and increment 8, which is every stack of
  blocks, shrinks to nothing when 65528 + 8 wraps (`common.h:149`), although
  `common.h:80` says that each index in `[0, max)` is in use or free.
  `index_stack` reaches that fault and shows that nothing goes wrong before it
  (`WrapOnlyAtTheEnd`).
- An expansion of cells that fails half way is not undone (`hmesh.c:153`),
  so attributes may have different blocks, and later expansions fail too.
- A scalar that cannot get its blocks leaves its index in use with no array
  (`hmesh.c:386`); `tests/cells.c:35` asserts that there is one. The
  histories of `hmesh_cells` have such scalars; `AttributesCoverMap` and
  `NamesDistinct` leave them out, as there is nothing to cover or to name.
- A scalar whose array cannot be destroyed cleanly keeps its index and a
  pointer to the freed array (`hmesh.c:416`), which the next search follows.
- `index_stack_deallocate ()` reads `(*att)[index]` before the test that refuses
  an index past `max` (`common.h:200`).
- `syntax/doc/lookup.md:5` calls it an error when a name is declared that exists in the
  scope; the code keeps the first declaration and reports nothing.
- `hash_table_reset ()` keeps the count (`hash.c:137`), so an almost empty table
  doubles, unlike what `hash.h:8` says.
- A request above one page may meet a block that `malloc ()` granted at less
  than that, and is then placed below it (`memory.c:98`). `memory.c:81` allows
  four pages. `MCAstMemory` asks for less than a page at a time; with `Requests
  = {8}`, `NodeSizes = {2}`, `PageWords = 2` and `BlockWords = 8` instead,
  `PartsSound` fails at the first request.
- `hedge_collapse ()` is to abandon "in case of low valence. (v<4)", but tests
  v0 + v1 - 2 (`hmesh-remesh.h:187`), and the merged point keeps v0 + v1 - 4
  hedges: two or three pass. `LowValenceGuarded` says two and no fewer.
  `hmesh_valid ()` calls that an error of the kind (1) that the assertions in
  `hmesh_split ()` and `hmesh_collapse ()` let pass, and so does `MeshValid`.
- `hedge_collapse ()` does not look whether the ends of the edge have a third
  neighbour in common; `hfaces_share ()` is commented out at
  `hmesh-remesh.h:198`. Collapsing an edge of a waist of three leaves two edges
  with the same ends, and collapsing one of these gives the other length zero,
  which the assertion at `hmesh-remesh.h:421` does not let pass. Run
  `half_edge_waist`.
- `hedge_valence_end ()` aborts for a point of 15 hedges (`hmesh.h:152`), and 16
  do not fit into the four bits of the valence; splitting has no guard against
  either. The front `Bipyramid(9)` gets there, and `MeshValid` says that nothing
  else makes the assertions fail while edges can be contracted.
- `traverse ()` passes flags up twice, which does not make them the maximum that
  `rules.h:330` speaks of in every grammar. `ShortOnlyTwiceBack` shows where they
  fall short, and that `grammar/parser.y` is not such a grammar.
- The pointer `halfedges` that `HMESH_ENVIRONMENT` sets is used after `add_obj
  ()` (`hmesh-remesh.h:26`), which may move what it points to. The model has
  ids instead of pointers.
- `ast_push_scope ()` reads `ast->cleared` (`ast.c:217`), which is not a field
  of the tree, so it does not compile; nothing calls it.
- `push ()` asserts `*level < 128` (`rules.h:268`) before it writes
  `stack[level + 1]`, of 128 frames: a path of 129 rules is written past the
  end. The grammar of the repository needs 31 (`StackFits`).

## The proofs

All of them are for every value of the constants that the modules' assumptions
allow; these say no more than the C types and the asserts do (16 bits,
`limit > 1`, a chunk has at least two pages, a mapping at least two chunks and
there is a largest one, an `_AstPool` fits into a page, a NULL is no symbol). Where a
theorem has a hypothesis besides, it is named below with the reason.

| Theorem | Proves | Hypothesis |
|---|---|---|
| `IndexStackProofs.TypeCorrect` | `TypeOK` | |
| `IndexStackProofs.SoundUntilTheEnd` | `WrapOnlyAtTheEnd` | |
| `IndexStackProofs.DestroyKeepsHeld` | `SweepKeepsHeld` | |
| `IndexStackProofs.GrowthIsTheLoop` | `GrowthAgrees` | |
| `IndexStackProofs.EveryIndexUsedOrFree` | `InUseOrFree`, `ListsAreInverse` | |
| `IndexStackProofs.AttributesOnlyInUse` | `AttributesInUse` | |
| `IndexStackProofs.Implementation` | `ImplementsPool` | |
| `IndexStackProofs.NoFault` | `NeverFaults` | `NoWrap` |
| `IndexStackProofs.ImplementationForEver` | `Pool!Spec` | `NoWrap` |
| `TreePoolProofs.TypeCorrect` | `TypeOK` | |
| `TreePoolProofs.FreeLists` | `FreeListsSound` | |
| `TreePoolProofs.EveryPageOnce` | `PagesPartitioned` | |
| `TreePoolProofs.BuddiesMerged` | `Coalesced` | |
| `TreePoolProofs.Implementation` | `ImplementsPagePool` | |
| `TreePoolProofs.LoopsAreTheOperators` | `LoopsAgree` | |
| `TreePoolProofs.AddingIsTheLoop` | `AddAgrees` | |
| `HmeshArrayProofs.TypeCorrect` | `TypeOK` | |
| `HmeshArrayProofs.MemNeverBehind` | `MemFollowsStack` | |
| `HmeshArrayProofs.OneOwner` | `BlocksHaveOneOwner` | |
| `HmeshArrayProofs.StraysOnlyByMisreading` | `OnlyMisreadsStray` | |
| `HmeshCellsProofs.TypeCorrect` | `TypeOK` | |
| `HmeshCellsProofs.MapCovered` | `AttributesCoverMap` | |
| `HmeshCellsProofs.NodesOnce` | `NodesNeverShared` | |
| `HmeshCellsProofs.CountsOnlyGrow` | `NodesAdvance` | |
| `HmeshCellsProofs.NamesOfPointsDistinct` | `NamesDistinct` | `k = 0` |
| `AstMemoryProofs.TypeCorrect` | `TypeOK` | |
| `AstMemoryProofs.PartsApart` | `PartsSound` | `RequestsFit` |
| `AstMemoryProofs.NodesOwnedOrFree` | `NodesFreeOnce` | `RequestsFit` |
| `HashTableProofs.NodesFound` | `NodesInTheirBuckets` | |
| `HashTableProofs.Implementation` | `ImplementsMap` | |
| `ScopesProofs.TypeCorrect` | `TypeOK` | |
| `ScopesProofs.Reuse` | `ReusedEmpty` | |
| `ScopesProofs.Implementation` | `ImplementsNest` | |

Every module also has a theorem `Invariance`: the inductive invariant of the
component, `IInv` or, in `TreePoolProofs`, `Inv`, holds (of the parser's memory
under `RequestsFit`). TLC
checked each of them on the bounds of the runs before it was proved.

### Index stacks

`NoWrap` says that no sum `max + increment` leaves the type. The stack of
attributes (limit 64, increment 8) satisfies it; the stack of blocks (limit
`UINT16_MAX`, increment 8) does not. Two theorems assume it, that a stack never
faults and that it is a pool of indices for ever; the faulted states of
`index_stack` show that they would be false without it. All the others are of
every stack: it is sound, and implements the pool, until a sum wraps, and that
is not before it has provided more than limit - increment indices.

None of the properties is inductive on its own. That an index is in one
list only does not survive a swap unless `loc` and `loc_free` are known to be
the inverses of the lists; that destroy keeps what is held needs in addition
that the positions it has passed do not move, and that nobody sets attributes
meanwhile. `IInv` is the conjunction of these, for states before a fault. The
argument has two layers. `IndexStackOpsProofs` has one lemma per operator: what
it needs of a well-formed stack, and that it returns one, with its counters and
lists described (`NewStackWellFormed`, `ExtendWellFormed`, `ClaimWellFormed`,
`ReleaseWellFormed`, and `PopIsClaim`, by which popping is claiming the head).
`IndexStackProofs` has one lemma per action that cites those, and combines them
in `NextIInv`. For the refinement each call is mapped to the call of `IndexPool`
that returns the same; an iteration of destroy is a stutter until it returns.

`GrowthIsTheLoop` is about the code's two nested loops, which
`IndexStackLoops` has as recursive functions of the number of iterations. What
such a function is everywhere is shown without induction over it: a closed
form is exhibited that satisfies its equation, so the function, which is chosen
to satisfy it, does so too; and there is no least argument at which two
functions that do could differ. The closed form of the inner loop says that
iteration i has appended index i to the free list (`ProvideFromIs`,
`ExpandLoopIs`); that of the outer one says how far `max` has come (`GrownNext`,
`ReachLoopIs`), until the index fits, the limit is met, or a sum wraps
(`GrownLast`).

### Tree pool

The four loops of the pool (split, merge, unlink, link) all run along the nodes
over one page. So the proof leaves node numbers behind first: `N (j, l, i)` is
node i of level l in chunk j, `Up (l, q)` is the i of the node over page q, and
`NumberOf`, `OneNumber`, `AddressIs`, `SiblingIs`, `AncestorIs` and
`DescendantIs` translate what the code computes with shifts. Powers of two are
numbers of subsets (`TwoToThe`), and what a recursion over data would do is done
by a least or a greatest element (`Least`, `Greatest`, `Branch`).

`Inv` has three parts.

- `Kept` and `Numbered`: the page of flags of each tree is in use, and the trees
  that are mapped are the first ones.
- `Forest`, in `Listed`: over every page exactly one node is a *leaf*, that is,
  free or not inner. This is `PagesPartitioned` in a form that is inductive: it
  also covers the nodes below a leaf, whose flags are left from before and must
  not look like leaves. With it go the depths, and that no two buddies are free.
- `Lists` and `Named`, in `Listed`: each level's list is linked both ways, holds
  exactly the free nodes of the level, and their headers name them. That no
  elements form a ring beside the list is said without counting: every
  nonempty set of elements has one whose predecessor is outside. The property
  `FreeListsSound` says so too. Without that clause a list could have no head
  although the level has free blocks, and a request would be refused wrongly.

What an operation does to the flags is `Divided` or `Coalescing` along one path,
and `DividedTree` and `CoalescedTree` say that these keep a `Forest` and which
nodes they free. What it does to the headers is `PopEach` and `PushEach`, at most
one block per level; `PopEachGood` and `PushEachGood` say that these keep lists.
`SplitGood`, `CoalesceGood` and `AddTreeGood` put the two together, and there is
one lemma per action above them. The page of flags stays in use
(`KeptCoalesced`) since it is never given back and, not being free, never
merged with its buddy.

For the refinement, `Held` is the set of extents in use as the flags tell it. A
division adds one (`HeldDivided`), a coalescing takes one away
(`HeldCoalesced`), a new tree changes nothing (`HeldFresh`). That the extent
handed out overlaps none in use follows from the one leaf over each page
(`Grantable`). The hard direction is that a refusal is right (`NoneFree`): if the
lists of the level asked for and above are empty, every extent of that size
meets one in use. Otherwise the free leaves below the extent would cover it, and
two of those at the deepest level would be buddies.

That the operators are what the code's loops leave is proved last, in the same
way as for the stacks (`Alike` and `Stepwise` are the principle): each loop has
a closed form of the state before every iteration, and a lemma that an iteration
leads from one to the next.

- Dividing (`HalvesNext`): at level l the right halves down to l have been
  pushed one by one. The operator pushes them at once, which is the same because
  no list has two of them and none begins at another's address (`PushMore`,
  `RightsApart`). `SplitFlags`, but for the node the loop stands on, is the flags
  (`MarkedNext`).
- Coalescing (`JoinsNext`, `JoinsStop`): at level a the buddies below have been
  unlinked one by one, which is unlinking them at once because the lists they
  leave have nothing in common (`PopMore`, `BuddiesListed`). The loop marks
  before it unlinks and the operator after, which is the same (`FlagsApart`).
  Once it cannot merge the closed form stays as it is.
- Adding (`WideNext`, `WideLast`): the roots from chunk k on are linked, first
  through pages of the pool and last through a header outside it. Besides `Inv`
  this needs `Unmapped`: trees not mapped yet have zero flags. The loop leaves
  the unused slot of a chunk as it is, where `AddTree` says `ZeroFlag`, and no
  other property would notice a stray flag there. TLC checked that
  `Unmapped` is invariant; with `Inv` it is inductive (`UnmappedStep`).
- Requests (`SizeLoopStops`, `LevelLoopChooses`): a positive size is 2^k times
  an odd number (`OddPart`), the loop stops after k + 1 shifts, and the size is
  valid when nothing is left then.

Two definitions changed on the way, for they could not be reasoned about as
they stood: `LowestBit` chose any bit that is set, where it is only ever asked
for the lowest, and the assumption now says that there is a size of mapping to
try first.

### Arrays and cells

Both use the lemmas of `IndexStackOpsProofs` and nothing below them. In
`HmeshArray` the hard cases are those where stack and `mem` part: an addition
that grows the stack and then gets no block, and a destroy that removes from
the list it walks. `IInv` says for every array that `mem` covers the indices in
use, although the stack may be larger, and, until memory is misread, that no
two places hold a block and that a block held is out of the pool.

In `HmeshCells` a call goes through several values of the struct, so the
invariant is stated of a value and each operator has a lemma. The reason why
an expansion that fails half way does no harm is the order: the map takes the
block last, so `Covered` holds at whichever attribute it stops. `NodesOnce`
needs that the head of the free list is no block of the map, and
`NamesOfPointsDistinct` that an index not in use has no attribute
(`FreeAreNull`) and that removals never move the first `min` places.
`NamesOfPointsDistinct` is for points: for k > 0 the code stores the defaults
elsewhere (see above).

### Memory of the parser

`RequestsFit`: no request is larger than the smallest block `malloc ()` may
grant. Without it `PartsSound` is false (see `memory.c:98` above). The
lemmas `FitWhenGranted` and `FitInAPage` say when it holds: whenever `malloc ()`
grants what it is asked for, since a block has 256 pages and a request four at
most; and, whatever it grants, when requests stay below a page.
What is cut lies below `head` and what there was lies at or above it, in the
last block; in other blocks nothing is cut any more. That is `PartsSound`
itself, but for what a string leaves of its page and the page's nodes, whose
pairwise distance is arithmetic on multiples of the node size. A node that
returns is disjoint from the free ones because it was disjoint as given; that
its size is its pool's is the part of `IInv` on `from`.

### Symbol table

The map depends only on which nodes the table holds. So for each operation
there is a lemma on which nodes it holds afterwards (`PushGood`, `RehashGood`:
the same ones, `RetagGood`, `EmptyGood`), and one (`Search`) that the search
meets the node of its key, for which the node must be in its bucket.
`RehashGood` rests on `TwiceTheBuckets`: the remainder by 2n determines the
one by n, and on `Kept`: what is selected `Backwards` is what was at the places.
`TwoToThe` gives powers of two, as the number of subsets.
The refinement needs that no two different nodes are of one key. A long key
may be inserted, and faults the next time its hash is looked for; until then
the map has it.

### Scopes

The theorems rest on `ScopesAssumption` (`Absent` is not a type) and the
client's rule `MayLeave`, which is part of the specification. The inductive
invariant is `IInv == TypeOK /\ ReusedEmpty`. The
refinement is not provable from the types alone: entering the child must show
what `Nest` set aside or nothing, and that is what `ReusedEmpty` says of the
child's table, which in turn survives only because it says the same of all the
tables behind it. `ReusedEmpty` is preserved by leaving a scope because of
`MayLeave`, and by nothing else. `ReleasedEach` is the arithmetic of the two
loops of `ast_free ()`; `TypeOK` includes that it frees each table once.
`NestInit` and `NestStep` map initial states and each step; `Free` and the steps
after it are stutters.

### Only model-checked

- The half-edges, whose operators walk fans and faces by recursive functions and
  folds: induction over data.
- The flags of rules, where what is to be shown is a reachability.
- The error buffer, whose content is a fold over pieces.
- Liveness under fairness: `Completes` of `HalfEdge` and of `RuleFlags`.

## What is not modelled

- `hmesh_tpool_destroy ()`, `hash_table_free ()`: ends of lives, after which the
  state is stale and nothing may be called.
- `hmesh_node_remove ()`: does not compile, see above.
- `hmesh ()` and `hmesh_destroy ()`: a loop over cells.
- `array_shrink ()`, `array_new ()`, `array_free ()`: no caller.
- The contents of the maps and of the mesh data; the wording of messages;
  MurmurHash3, which is a constant function.
- Syntax tree, lexer and parser, but for what they do to scopes; the text that
  the grammar tools read and print; the former memory pool, which is not
  built.
- `scope_id`, see above.
- Geometry: lengths, normals, the positions of midpoints, smoothing
  (`hmesh_smooth ()` moves points and changes no link). `hedge_swap ()` returns
  without an effect in any case, `hfaces_share ()` is commented out where it was
  called, and `prev` is set and never read.
- `include/_hmesh.h` and `include/_hmesh.c`: earlier copies of
  `backup/hmesh.h`, which differ in names of types. `backup.c` and
  `backup/data-structure.c`: drafts of cells and nodes that do not compile.
  `backup/hmesh-surface.h` and `backup/hmesh-utils.h`: geometry.
- The object stacks that hold the half-edges (`foreach_object`, `add_obj`,
  `delete_obj`): a library that is not in the repository. That ids grow, and
  that a loop visits in the order of ids the half-edges that are there when it
  starts, are assumptions about it.
- Failures of `malloc ()` and `realloc ()` that the code does not look at: they
  end the program at the next access.

## Plan

In this order, the most important first.

1. Done: index stacks with their abstract pool and proofs; the tree pool with
   its abstract page pool; arrays and cells on top; the symbol table, the parser
   memory and the error buffer.
2. Done: scopes with the abstract nest and the proof that they implement it; the
   half-edge operations with the abstract surface; the flags of the grammar
   tool.
3. The former memory pool; `ast_deallocate_all ()` with the static pool of
   `hash.c`.
4. Composition: `HmeshArray` over `TreePool` itself instead of what `PagePool`
   promises, on the smallest pool; `HmeshCells` over `HmeshArray`.
5. Done: proofs about index stacks, the tree pool, arrays, cells, the parser's
   memory and the symbol table, with the refinements of `IndexPool`, `PagePool`
   and `SymbolMap`; that the closed forms of index stacks and of the tree pool are
   their loops.
6. Proofs, next: the types and the flags of `RuleFlags`, and the room of
   `ErrorBuffer`, as far as they need no induction over data.
