# A TLA+ model of mini-Amazon

mini-Amazon is a web shop: a Django front end (`front-end/miniAmazon`) takes orders, a
C++ server (`back-end`) fulfils them with the help of two outside systems, the *world
simulator* (warehouses that buy, pack and load) and *UPS* (trucks that pick up and
deliver). This directory models the server and the pages of the front end that change what
they share, checks them with TLC and proves much of it with TLAPS.

## Inventory

| component | state | operations | modelled in |
| --- | --- | --- | --- |
| Package fulfilment: `handleCustomer.cpp`, `handleWorld.cpp`, `handleUPS.cpp`, the threads of `Server.cpp` | `SeqNum`, `package_id`, the three sets of sequence numbers, two send queues, `amazonSite_package`, the connection, the position of each thread | placing a package, retry loops, the handlers of `ready`, `loaded`, `truckArr`, `delivered`, the sending threads | `Shipping`, `Fulfilment` |
| Send queues: `threadsafe_queue.h` | queue, mutex, condition variable | `push`, `wait_and_pop`, `try_pop` | `ThreadSafeQueue`, `FifoQueue` |
| Stock: `match_inventory`, `handleOrder`, `initProductsAmount`, `processPurchaseMore` | `amazonSite_inventory`, the order in hand | start-up purchases, matching, purchases for want of stock, arrivals | `Ordering` |
| Database layer: `Database.cpp` | one connection for all threads | `executeSQL` and the statements built on it | part of `Shipping`, `Ordering`, `Binding` |
| Binding of UPS accounts: `handleBind`, `processbindUPSResponse`, `views.userProfile` | `amazonSite_user_ups` | request, status from UPS, save of the page | `Binding` |
| Cart and orders of the front end: `views.cart`, `views.shopping_mall`, `utils.add_to_cart`, `utils.try_place_order`, the reply of `handleOrder` | `amazonSite_cart`, the page of each tab, the connection to the server | add, cancel, clear, order | `Cart`, `Request` |
| Accounts: `views.register`, `login`, `logout` | users | register, log in and out | no |
| Start-up: `startRun`, `initUPS`, `initWorld`, `initWareHouse` | world id, the connections | handshake with UPS, connection to the world, purchases | `Startup`, `Ordering` |
| Sockets, framing, parsing: `sendAllData`, `recvData`, `ServerRequest.cpp`, `handleProto.hpp` | buffers | send, receive, parse | partly: the text protocol in `Request` and `Cart`, lost connections of the start in `Startup` |
| Other pages, templates, generated protobuf code, bootstrap | none of their own | | no |

How they interact. The front end sends one text request per TCP connection to the main
thread of the server and waits for one line of reply; it shares the database with the
server. In the server the **main** thread accepts requests one at a time (the comment about
a new thread per order at `handleCustomer.cpp:248` describes no code) and runs the order to
the acknowledgement of its last command. Two threads **receive**, one from the world and one
from UPS, and run each response to the end inside the receiving loop. Two threads **send**
what the others push to the queues. All share the counter of sequence numbers (mutex), the
set of acknowledged numbers (no mutex) and one libpqxx connection.

What makes it hard:

* *One connection.* libpqxx lets one transaction be open at a time. The statement of a
  second thread throws inside `executeSQL`, which prints and returns an empty result; the
  callers go on. `README.md:5` of the repository mentions the exception. Every statement of
  the models may be *dropped* in this way.
* *Blocking handlers.* The handlers of `loaded` and `truckArr` wait for acknowledgements (and
  the latter polls a row) inside the threads that receive.
* *Unreliable peers.* The simulator drops requests at random
  (`world_simulator_exec/README.md:10`); the server pushes a command once a second until its
  number is acknowledged, the peers repeat responses until theirs are.
* *Two writers of a row.* Both receiving threads write `package_status`.

Per component, what makes it correct: a package gets one command of each kind, each after
what it depends on, its row follows the responses, and it is delivered in the end
(fulfilment); first in, first out, no lost wake-up (queue); no unit of stock is made or lost,
customers are told what happens (stock); the stored UPS account and its status belong
together (binding); no addition to a cart is lost and the page says of an order what the
server did with it (cart); everybody is in the same world (start-up).

Beyond the threads of the server, two more sources of difficulty lie in the front end and on
its wire:

* *Read, then write.* Every page is a request of its own; `add_to_cart` reads a row and saves
  it in two statements, an order clears the cart as it is after the reply, not as it was shown.
* *One `recv`, one `send`.* `recvData` does not read on to the end of a request, and the loop
  of `sendAllData` compares the bytes of all turns with those that one turn may send.

## Modules

### Shipping

The core. A state has, for each thread, a program counter (`pc`: a statement it is about to
execute, a kind of command it is retrying, or a point in between), the package it works on
(`ship`) and the number of its command (`seq_num`); the rest is named after the code.

| action | code |
| --- | --- |
| `PlaceOrder`, `InsertPackage`, `InsertOrder` | `handleOrder` from `getPackageID`, `generate_insert_order_package` |
| `SendToWorldPack`, `PackAcknowledged`, `DrawPickup`, `SendToUPSPack`, `PickupAcknowledged` | `send_to_world_pack`, `send_to_ups_pack` |
| `BeginWork`, `executeSQL` | the two ends of a transaction; in between the connection is taken |
| `PushAgain`, `Acknowledged` | the loops of `trySendMsgToWorld`, `trySendMsgToUPS` |
| `Receive` (`Handle`) | the constructors `HandleWorld`, `HandleUPS`, and `all_acks` |
| `Dispatch` | the loops of `handleWorldResponse`, `handleUPSResponse` with the test for repetitions |
| `SetLoadeded`, `SendUPSReqDelivery`, `DeliveryAcknowledged` | `processLoaded`, `sendUPSReqDelivery` |
| `CheckPackageIsPacked`, `SendLoad`, `LoadAcknowledged` | `processUAtruckArrived` |
| `FinishHandler` | the statement at the end of `processPacked`, `processUAdelivered`, `processUAtruckArrived`, `sendUPSReqDelivery` |
| `SendMsgTo` | `sendMsgToWorld`, `sendMsgToUPS`, and what becomes of the message |
| `Progress`, `Started`, `Emitted`, `InOrder` | external: the world and UPS |

Abstractions. A queue holds the commands that can still be news to the peer: further copies
change nothing there, and the order of the queue is not observable because a peer may drop
any copy. Responses are their kind and package, which stands for their sequence number. An
order is one package: an order over several warehouses runs the same steps once for each, one
after the other. Quantities, addresses and the UPS account are data without influence on the
control. A thread may also wait for the connection instead of dropping its statement, because
whether the other's transaction is still open is a matter of time; with `MaxLost = 0` nothing
is ever dropped. Insertion into and lookup in the set of acknowledged numbers are atomic
(see the hazards).

Assumptions on the peers: the world acknowledges a command no later than it reports the result
and reports `ready` no later than `loaded`; it loads only what it has packed and answers other
requests with an `AErr`, which `handleWorldResponse` does not read; UPS delivers only with a
truck that has arrived. UPS is not assumed to acknowledge in any order.

### Fulfilment

What the server promises for a package, without threads, numbers, queues or a database: which
commands were issued and which responses handled, each once and after what it needs.
`Shipping` without dropped statements implements it (`AsPromised`), with `issued` mapped to the
commands anywhere in the system and `handled` to the sets of handled numbers.

### ThreadSafeQueue and FifoQueue

The queue class at the level of mutex and condition variable: threads compete for the mutex,
`cv.wait` releases it and falls asleep in one step, `notify_one` wakes one sleeper which has to
get the mutex again, sleepers may wake spuriously. A pop of an empty queue is undefined
behaviour in C++; the model gives the caller a value that is no message. `FifoQueue` is the
queue its users see. `Shipping` uses the queues only through what `FifoQueue` promises.

### Ordering

The stock. The main thread opens with one purchase per warehouse (acknowledged, but perhaps not
yet arrived, when the first order comes), then matches the lines of an order one by one; the
thread of the world adds arrivals. `BeginMatch` and `BeginAdd` open the transactions,
`OtherStatement` is any other use of the connection. A form has one field per product, so an order
names no product twice. The purchase for want of stock names warehouse -100 (`handleCustomer.cpp:181`); it is
assumed to be acknowledged and answered with an `AErr`, like any request the simulator cannot serve, so that
a product out of stock stays so.

A transaction that was opened may end in each of the ways `match_inventory` does not tell apart: the
row is updated; the commit fails, which `update_commit` swallows, and the warehouse is returned all
the same (`Take`); the UPDATE fails and the line is passed over (-200); the SELECT fails and its empty
result counts as out of stock (-100), or there is no row (`Match`). Quantities are what the customer
typed, a `size_t`; the comparison and the subtraction use the `int` of it (`ToInt`, two's complement
over `IntMax`), and the column refuses what is negative or no int (`FitsColumn`). An arrival is added, or
its statement fails (`AddToInventory`).

After an arrival the thread of the world may be away with the rest of a response (`OtherResponse`) for
as long as it likes: `Shipping` shows that it can be for ever. The variables `packaged`, `kept`,
`lost_lines`, `lost_arrivals` and `astray` (rows whose stock was not reduced by what was matched from
them) are history.

`Ordering` ends where an order is placed and `Shipping` begins there, with the stock already
taken.

### Startup

What comes before `Ordering`, and the composition of the two. UPS names a world (`UPSNames`), the
main thread reads it (`RecvInitWorld`, `initUPS`), asks the simulator for it (`SendAConnect`,
`RecvAConnected`, `initWorld`) and tells UPS (`SendConnectedWorld`, the end of the loop of
`startRun`); the two repeat this until a connection succeeds. The simulator may refuse, UPS may close
its connection, a message that cannot be read or a write to a closed socket ends the process
(`StartFails`, `Ended`). The actions of the handshake leave the variables of `Ordering` alone
(`Starting`), those of `Ordering` need the handshake to be over and leave its variables alone
(`Running`). Only one message of each kind can be on its way, so that a variable stands for each.

### Request

An order as text. A message is a sequence of fields, the lines `key:value` of
`construct_order_message`; `Cuts` is what a single `recv` may return of it (`recvData`), from nothing to
all but the last character, numerals of up to ten digits included; `headerMap` and `get_products_order` are `ServerRequest` and the function of
that name, with the exceptions of `std::stoul` and `.at()` that `handleOrder` catches. A cut may shorten
the last numeral. Names and user are data of one digit; the number of the product stands for its name.

### Cart

The rows of one user and the `Tabs` in which that user has pages open; Django serves each request in a
thread of its own.

| action | code |
| --- | --- |
| `AddToCart`, `Get`, `Update`, `Insert` | `shopping_mall` (post), `add_to_cart`: the row is read, or there is none, or two (`MultipleObjectsReturned`); the save is an UPDATE, or an INSERT when the row is new or gone |
| `Cancel`, `ClearCart` | `cart` (post), the two kinds of deletion |
| `ShowCart`, `SubmitOrder`, `OrderFromMall` | `cart` (get), and the two pages that call `try_place_order` |
| `Accept`, `handleOrder` | `listenFrontEndRequest`, `handleOrder` up to the reply, of the text that was read: none of its lines is matched, some are and the others are passed over, or one is out of stock |
| `Purchased` | the purchase of an order out of stock is over: `send_to_user_no_stock` |
| `AcceptBind`, `Bound` | a bind request occupies the main thread (`Binding` has it in detail) |
| `sendAllData`, `SendFails`, `OverrunFails` | the loop of `sendAllData`, turn by turn |
| `Fulfilled` | the rest of `handleOrder`, which `Shipping` has in detail |
| `Receive`, `ConnectionBreaks`, `ClearOrdered` | `try_place_order` from `recv`, or with a socket error once the order is on its way, and what `cart` does with its result |

Of the reply the model has the number of bytes (`ReplySize`) and what the first `recv` of the page makes
of it: the whole text, or a part, which is no success. `sendAllData` sends `ReplySize` bytes from the
middle of the buffer after a partial send, that is, past its end; reading there is undefined, and ends in
an error or in more bytes (`OverrunFails`). The quantities of the cart page can be edited: submitted is,
per product, the quantity shown or one of `Entries`. Which lines are matched, and how long an order, a
purchase or a bind keeps the main thread, is left open, as `Ordering`, `Binding` and `Shipping` have it.

History variables: `overlapped` (products whose rows another statement changed between the two steps of
an addition), `disturbed` (pages whose cart was changed by another since it was shown), `edited`
(products for which another quantity was submitted than shown), `cut` (messages read in part),
`skipped` (orders placed without some of their lines), `split` (replies sent in parts), `broken`
(connections that broke before the reply), `added` and `removed` (units). As in `Binding` they name the
ways in which things go wrong, and the properties say that there are no others.

### Binding

The row of `amazonSite_user_ups` of each user and its three writers. A profile page is a request in
one of the `Workers` of the web server, with the steps of `userProfile`: `ReadProfile` (the row is
read), `CheckUPS` (the filter over the other users), `try_bind_ups` (the message goes to the back
end or the connection fails; the page goes on either way) and `Save` (every column, as read, with the
new account). The main thread takes messages in the order of the connections (`handleBind`), the
thread of UPS handles answers in any order (`processbindUPSResponse`). `update_bind_status` has no
effect without a row of that user *and* account, and may be dropped; `Shipping` has the connection and
the loop of `trySendMsgToUPS` in detail, so that here a statement is one step. The main thread may be
away with an order and the thread of UPS with a package (`OtherWork`), for ever where `Shipping` waits
for ever; the loop of a bind ends when the thread of UPS has received the acknowledgement
(`ReceiveAck`). The ups_id field is
part of every form; an empty one fails in the filter before anything is sent. Password and e-mail are
left out.

Four history variables name the ways in which a row goes wrong, and the properties say that there
are no others: `carried` (a page saves the success of the former account with the new one, which
then counts as bound at once, `views.py:218`), `stale` (a page brings back a status that was
overwritten in between), `missed` (a statement of the back end found the row with another account,
above all because the message is sent before the page is saved, `views.py:213`), `raced` (two
pages passed the filter for one account before either was saved).

## Runs

| run | bounds | shows |
| --- | --- | --- |
| `shipping_two` | 2 packages, nothing dropped | types, `AckMeansReceived`, `OneCommandPerStep`, `AcknowledgedIsKept`, refinement of `Fulfilment`, a circular wait is for ever |
| `shipping_loss` | 2 packages, 1 statement dropped, 1 response per message | no delivery of what is not loaded; an early load only where a statement was dropped; the row is never behind the responses and never goes back from delivery to warehouse; a circular wait takes two packages (of one order or of two) |
| `shipping_live` | 2 packages, up to the first dropped statement, no repeated response | delivery, unless a statement is dropped or a circular wait is reached |
| `queue` | 2 producers, 2 consumers, 2 messages, length 2 | types, no lost wake-up, test and pop are atomic, FIFO, every message is taken |
| `startup` | 2 worlds, 2 warehouses with 2 units, 2 orders of up to 2 lines of 2 or 7 units, ints up to 3 | from the handshake on: the back end runs in the world UPS named last, and every world UPS names is settled; types (the stock fits its column); accounting of every unit, confirmed orders are complete and every order is answered, each but for the statements that fail and a thread of the world that never comes back |
| `binding` | 2 users, 2 accounts, 2 workers, 2 pages, 1 statement dropped | an account is bound only if UPS confirmed it, shared only after a race of two pages, and every bind settles, each but for the named races and a thread that never comes back |
| `cart` | 2 products, 2 tabs, 3 pages, or 2 with up to 2 faults, a reply of 3 bytes, forms of 12 units of the first product, alone or with 3 of the second, entries 0 and 2 | every unit added is in the cart or was deleted; one row per product; what is placed is what was submitted, or the part of it that was matched or read; the page says what the server did; a page clears what was ordered; every page is answered, unless the main thread stays with something for ever; each but for the named races |

Why the bounds are enough. Two packages are the least with which the two receiving threads can
work on different packages while the main thread waits for a third command, which is what the
circular wait and every mixture of responses need; a third package adds no new pair. One
dropped statement shows each statement missing once. Two orders of two lines exhaust a stock of
two, take from two warehouses and meet arrivals late and repeated; of ints up to 3, 2 is one and 7 becomes
-1, which every row has, adds a unit to a stock of 2, and overflows the one of 3 that is left then. Two worlds are one that is refused
and another. Two pages are two users with one account, or one user who changes
the account while the answer to the first bind is on its way. Two consumers and two
producers are the least with which a notification can go to the wrong consumer. In `cart`, two tabs are
two additions, an addition and an order, or two orders at a time, and the third page meets what they
leave behind, such as two rows of a product; a numeral of two digits can be cut in its middle, and a
form of two lines between its lines; a reply of three bytes can be sent in two parts that still leave
the loop a turn, or none. Entry 0 leaves a product out, entry 2 is less than
any quantity shown. Two faults are a cut message behind a broken
connection, or one of either and a reply in parts.

Names of the bounds: `MaxPackages`, `MaxLost` (Shipping), `MaxLen` (ThreadSafeQueue),
`Quantities`, `IntMax`, `MaxLines`, `MaxOrders` (Ordering), `Worlds` (Startup), `MaxRequests`, `MaxLost`
(Binding), `Forms`, `Entries`, `MaxPages`, `MaxFaults`, `ReplySize` (Cart). When the pages of Binding or Cart are used
up the system stops, so deadlock is not checked there. `TwoPagesWithFaults` in `MCCart` leaves the third page to
behaviours without a fault in which nothing was typed over; pages, faults and entries are steps nobody is
obliged to, so that it takes nothing from the fair behaviours that are left. Three constraints cut states in `MCShipping`;
`shipping_two` has none. `OneItem` limits a message to one response in
`shipping_loss`. `BeforeLoss` ends a behaviour of `shipping_live` and `shipping_wait` where a
statement is dropped, at which point both properties hold for it; a bound of 0 instead would make a
thread wait for a connection that another keeps taking, which the code does not do. `NewsOnly`
leaves messages that repeat a handled response out of these two runs; the fair steps
(`ReceiveNews`) never repeat one. `OrdersOfUPS` in `MCStartup` lets orders begin after UPS has read
that the back end is connected, which `UPSIsTold` makes it do without any influence on them.

Runs that end in a violation, each a disagreement between the code and what is said of it:

* `shipping_wait`: the thread of the world waits in `sendUPSReqDelivery` for an acknowledgement
  of UPS, the thread of UPS in `processUAtruckArrived` for the world; neither can receive.
  `danger_log.txt:22` expects a longer wait only, and only when packets are lost.
* `shipping_early_load`: the row was not inserted, or the SELECT of the poll was dropped, and
  `checkPackageIsPacked` says that the package is packed (`handleUPS.cpp:107`).
* `shipping_delivered`: UPS acknowledges a delivery and reports it done before the thread of the
  world writes `delivering`, which stays.
* `ordering_placed`: a line whose match failed (-200) is skipped and the order confirmed.
* `ordering_wrap`: a quantity that is no int is negative for `match_inventory`: every row of the product
  has that many, and gains units (`handleCustomer.cpp:186` says that there is enough stock).

### Fairness

Weak fairness of each thread: the operating system schedules it. Weak fairness of `Progress`:
the peers finish what they have begun. Strong fairness of the delivery of a command that is
sent over and over, and of a message with all that is new whenever a thread is ready to receive
it again and again: the peers are lossy but not deaf, which is what the retries are built for.
In the queue, strong fairness of getting the mutex: the producers leave it for a second between
two pushes. In the start-up, weak fairness of the process, of the answers of the world and of UPS
reading what it is told, but not of UPS naming another world.

`shipping_wait` shows that the receiving threads, and the main thread behind them, may never come
back from a handler. The other modules assume no more: nothing makes `OtherResponse` (Ordering),
`OtherWork` (Binding), `Fulfilled`, `Purchased` and `Bound` (Cart) end, and each liveness property names
that case as an exception (`[]world_busy`, `[]main_busy`, `[]ups_busy`, `[](main \in {...})`). What a thread
does when it comes back again and again is strongly fair: it receives what the peer repeats
(`ReceiveNews`, `UPSStep`, `AckStep`), and it accepts the next connection (`handleBind`, `Accept`), because
the backlog is served in order and only finitely many connections are before one. The tabs of the cart
and the workers of the web server are threads, weakly fair. No fairness is assumed of customers, of spurious
wake-ups or of dropped statements.

## Proofs

All hold for every number of packages, warehouses, dropped statements, threads, messages, worlds,
users, accounts, tabs, products, quantities and faults. A theorem of a safety property rests on an inductive
invariant, which is the types, the property and what is named here.

Fulfilment (`ShippingProofs`, and upon it `FulfilmentProofs`):

* `ShippingTypes`: `Spec => []TypeOK`.
* `AckTheorem`: `Spec => []AckMeansReceived`. Not inductive as it stands. `IInv` adds that the
  numbers in use are below `SeqNum`, that two commands with one number are the same command, and
  that an acknowledged number is one of a start-up purchase or of a command a peer has received; the
  step that needs it is an acknowledgement by one peer of a number drawn by a thread that waits for
  the other.
* `CircularWaitTheorem`: `Spec => CircularWaitIsForever`. In a circular wait neither thread
  receives, so no acknowledgement of either peer is recorded by any step. That is the deadlock of
  `shipping_wait`, for any number of packages.
* `OneCommandTheorem`: `Spec => []OneCommandPerStep`, no package ever gets two commands of a kind. By
  `CommandInv`: each kind is sent by one thread (`LabelInv`), at most one number was drawn for a
  package (`OnceInv`), and a thread that has yet to draw one handles a response that was not handled
  before, hence no such command exists (`Due`).
* `DeliverTheorem`: `Spec => []DeliverOnlyLoaded`, also from `ResponseInv` (the world reports
  loaded what it has loaded). `TwoPackagesTheorem`: `Spec => []CircularWaitTakesTwo`: the two threads
  of a circular wait work on different packages, which may be of one order over two warehouses, because the delivery of one follows the
  acknowledgement of its own load. `KeptTheorem`: `Spec => []AcknowledgedIsKept`.
* `ReadyTheorem`: `Spec => []LoadAfterReadyUnlessLost`. `ReadyInv` follows the excuse for a load
  (`Good`: the world was ready, or one of two statements was dropped) through the row, the threads,
  the queues and the peers (`GoodInv`); a truck was asked for before it arrives (`PickupInv`), hence
  after the row was inserted or its INSERT dropped (`InsertedInv`).
* `PromiseTheorem`: `MaxLost = 0 /\ Spec => AsPromised`, the refinement of `Fulfilment`. The commands
  issued are those received and those being retried, what is left in a queue is a copy of one of
  them (`QueueInv`); a pickup follows a received pack (`PackInv`) and a peer responds to what it has
  received (`CauseInv`). From that every step issues one command that is due (`IssueImplements`),
  handles one response that was asked for (`HandleImplements`), or changes neither.
* `NeverBackTheorem`: `Spec => NeverBackInWarehouse`, with any number of dropped statements. Of a
  package on its way nothing else is left to be written (`WayInv`), because a package is handled as
  ready before it is as loaded (`ReadyFirst`) and because the thread of the world does not pass
  its wait for UPS while the thread of UPS is still at that package (`AwaitInv`): nobody receives
  the acknowledgement meanwhile.
* `RowTheorem`: `Spec => []RowFollowsResponses`. What was handled was asked for (`AnsweredInv`), hence the
  package has its row, and a handler that ends has written its status unless its statement was
  dropped.

Queue (`ThreadSafeQueueProofs`):

* `QueueTypes`, `TestTheorem`, `QueueSafe`: types, `TestStillHolds` and `NoLostWakeup`. The last counts
  messages against consumers that are awake; `MutexInv` says who holds the mutex.
* `QueueIsFifo`: `Spec => IsFifo`, a step of the class is a step of the queue or none.

Start-up and stock (`OrderingProofs`):

* `OneWorldTheorem`: `StartSpec => []OneWorld`. `HandshakeInv` says for each point of the main
  thread what can be on its way there, and which of the four places that hold a world agree.
* `StartThenOrdering`: `StartSpec => Spec` of `Ordering`: behind the handshake the composition behaves
  as `Ordering` alone, so that what is proved there holds here.
* `OrderingTypes`, `StartTypes`: types of both. `StockInv` adds that the line in hand is one of the order and that
  what is bought, on its way or being added is for a warehouse there is. That the stock fits its column
  rests on the constraint of the column alone: the subtraction may yield any int.
* `AccountingTheorem`, `StartAccounting`: `[]Accounting`, of `Ordering` and of the composition, for any
  quantities. It is inductive with `StockInv` and `ArrivalsInv`: the arrival in hand and the arrivals that were lost have
  been handled, none is both. A match of a quantity that is an int (`ToInt(n) = n`) and is committed moves units from the
  stock to the order, any other is recorded in `astray`; the end of an order moves them to the
  packages or to what is kept; the one step that adds a unit adds those of an arrival that was not
  among the ones summed.
* `PlacedTheorem`, `StartPlaced`: `[]PlacedUnlessLost`. `MatchedInv` says that during the match the order
  has the units of the lines up to the current one, product by product, while no match failed;
  at the last line those are all its units. What happens to the stock is of no influence.

Binding (`BindingProofs`):

* `BindingTypes`; `ConfirmedTheorem`: `Spec => []BoundIsConfirmed`, where `ReadConfirmed` carries the
  claim over to the rows that pages have read and not yet saved; `SharedTheorem`:
  `Spec => []SharedOnlyIfRaced`, where `PassedAlone` says that no other row or page has the account
  that a page has passed through the filter.

Sums and texts (`SumProofs`, `RequestProofs`):

* `SumProofs`: `SumFunctionOnSet` of the community modules takes the elements of a set one by one.
  What a theorem about stock or cart needs of it, that an element more adds its value and that
  one changed value changes the sum by as much, follows by induction: `Numbers` for a set of natural
  numbers, `Sizes` for the subsets of a finite set, both from the least element of what is left
  over. Induction is over sets here and not over predicates, which the provers cannot instantiate.
* `WholeMessage`: `get_products_order(construct_order_message(lines)) = lines` for every sequence of lines,
  by induction over their number: one line more adds three fields at the end of the message and
  one product at the end of what is read (`OneMore`).
* `PartOfMessage`: what is read from any of the `Cuts` of a message is nothing, or the first of its lines, of
  which the last may have lost digits of its quantity. A cut lies within what the shorter
  message has, or within the fields of the last line (`CutsAppend`, `PartOfLine`).

Cart (`CartProofs`):

* `CartTypes`.
* `OneRow`: `Spec => []OneRowUnlessOverlapped`. `NumberInv` says that a number belongs to one product, in the rows
  and in those about to be saved, and is one that was given out, `ReadStillHolds` that what an addition has read of a product
  that is not `overlapped` is still so.
* `Kept`: `Spec => []AddedIsKept`. Beside the sum itself (`SumInv`) `KeptInv` needs that an addition about to save
  has in hand the units of the rows as they are, plus its own (`SaveInv`): a save of anything else
  is a lost or repeated addition.
* `Placed`: `Spec => []PlacedAsSubmitted`. `PlacedInv` carries what was placed (`PlacedFrom`): some lines of
  what `WholeMessage` or `PartOfMessage` says was read (`PlacedSome`), for which a form has to be a sequence
  of lines: the page, the products in ascending order, exists for every finite set of numbers
  (`AscendingExists`).
* `Truth`: `Spec => []ToldTheTruth`. `BacklogInv` says that the tabs in the backlog are different,
  have no reply and no order yet, and wait unless their connection broke; `ServedInv` and `PageTruth` that the reply and what
  was placed agree along the way, from the main thread over the wire to the page.
* `Cleared`: `Spec => ClearedWasOrdered`, an action property. A page clears only after it was told that its
  order is placed (`ClearInv`, from what `Truth` rests on), until somebody else changes the cart the
  form has the units of the rows, except of the products that were edited (`FormInv`), and what is placed in
  full has a line for each product of the form.

The assumptions are those named in the modules: the bounds are natural numbers, a package, a
purchase, an item, a number or a thread that stands for none is none, the consumers are finitely many and
none is a producer, products are finitely many numbers and the forms quantities of them.

With that every safety invariant and every action property of the passing runs is a theorem, and so are
both refinements. The invariants the proofs add were model-checked before. Only model-checked is liveness
(`DeliveredUnlessStuck`, `Served`, `AnsweredUnlessLost`, `NamedSettles`, `BindSettles`, `PageAnswered`): the prover
reasons neither about fairness nor about ENABLED.

## Not modelled

* Crashes: a restart of the server deletes orders, packages and stock (`Database::initialize`) and
  begins anew, there is nothing to recover. A connection to a peer that breaks after the
  start is not repaired: the receiving thread goes round its loop without receiving (`Server.cpp:165-168`,
  `197-200`), and what waits for it waits for ever; a sending thread that notices it throws, which ends
  the process.
* Below the level of single operations: the race on `global_finished_SeqNum_set`, the bytes of the
  protobuf framing (`handleProto.hpp` uses the coded streams of the library), the set-up of sockets.
* `UAchangeResp` and `Err`, which the code ignores.
* A bind message that arrives in part, after which `handleBind` goes on with variables that were never
  set; `Binding` has whole messages. Order messages in part are in `Request`.
* Accounts (`register`, `login`, `logout`): one statement after a check, with no state that another
  step reads. The other pages show what is in the database and change nothing.
* Generated protobuf code and the vendored bootstrap files. Nearly all of the JavaScript in the
  repository is the latter: the program itself is C++ and Python, and that is what the models map.

## Plan

1. `Shipping`, `Fulfilment`, `ThreadSafeQueue`, `FifoQueue`, `Ordering` with their runs and proofs (done).
2. `Binding` with its run and proofs (done); left: the order that uses the account (`check_ups_id`),
   which `Shipping` has as a statement without a result.
3. `Request` and `Cart` with their run and proofs, `Startup` with its composition and proofs (done).
4. Left: bind messages in part.
5. Left to prove: the safety half of what liveness rests on, such as that a thread that retries has
   its command in a queue, on its way, or with a peer that has not acknowledged it.
