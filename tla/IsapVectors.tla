---------------------------- MODULE IsapVectors ----------------------------
(***************************************************************************)
(* Known answers from the repository's own test data                       *)
(* (src/isap_tests/test_data_128.c and test_data_128a.c), chosen and       *)
(* written as in AsconVectors.                                             *)
(***************************************************************************)
EXTENDS Integers

Vectors128 == {
  [msglen |-> 0, adlen |-> 0, ct |->
    <<>>,
   tag |->
    <<121, 160, 141, 77, 139, 159, 35, 211, 105, 156, 187, 145, 23, 77,
      214, 123>>],
  [msglen |-> 0, adlen |-> 8, ct |->
    <<>>,
   tag |->
    <<108, 161, 120, 40, 102, 227, 163, 192, 42, 105, 128, 138, 205,
      144, 225, 22>>],
  [msglen |-> 1, adlen |-> 0, ct |->
    <<184>>,
   tag |->
    <<104, 27, 34, 26, 109, 174, 75, 253, 150, 232, 252, 200, 251, 111,
      248, 28>>],
  [msglen |-> 7, adlen |-> 1, ct |->
    <<184, 82, 155, 206, 27, 63, 157>>,
   tag |->
    <<9, 123, 17, 97, 116, 249, 42, 15, 130, 209, 188, 186, 213, 188,
      66, 2>>],
  [msglen |-> 8, adlen |-> 7, ct |->
    <<184, 82, 155, 206, 27, 63, 157, 13>>,
   tag |->
    <<67, 245, 4, 99, 140, 166, 27, 138, 24, 73, 140, 10, 19, 25, 227,
      81>>],
  [msglen |-> 9, adlen |-> 9, ct |->
    <<184, 82, 155, 206, 27, 63, 157, 13, 183>>,
   tag |->
    <<110, 202, 158, 0, 175, 239, 61, 106, 131, 231, 220, 175, 22, 39,
      91, 115>>],
  [msglen |-> 17, adlen |-> 16, ct |->
    <<184, 82, 155, 206, 27, 63, 157, 13, 183, 169, 200, 221, 67, 221,
      53, 209, 142>>,
   tag |->
    <<140, 10, 74, 217, 204, 90, 87, 79, 107, 49, 73, 135, 48, 16, 14,
      239>>]}

Vectors128a == {
  [msglen |-> 0, adlen |-> 0, ct |->
    <<>>,
   tag |->
    <<123, 148, 239, 53, 174, 85, 171, 39, 44, 156, 68, 214, 193, 207,
      1, 2>>],
  [msglen |-> 0, adlen |-> 8, ct |->
    <<>>,
   tag |->
    <<122, 229, 249, 107, 209, 174, 127, 91, 8, 250, 133, 23, 119, 80,
      182, 179>>],
  [msglen |-> 1, adlen |-> 0, ct |->
    <<44>>,
   tag |->
    <<250, 207, 19, 140, 111, 219, 188, 200, 118, 58, 114, 5, 253, 102,
      49, 109>>],
  [msglen |-> 7, adlen |-> 1, ct |->
    <<44, 222, 40, 219, 187, 217, 19>>,
   tag |->
    <<62, 249, 190, 125, 124, 133, 211, 5, 142, 58, 110, 164, 218, 163,
      74, 235>>],
  [msglen |-> 8, adlen |-> 7, ct |->
    <<44, 222, 40, 219, 187, 217, 19, 30>>,
   tag |->
    <<10, 78, 225, 16, 37, 104, 178, 168, 219, 100, 176, 14, 41, 45,
      162, 202>>],
  [msglen |-> 9, adlen |-> 9, ct |->
    <<44, 222, 40, 219, 187, 217, 19, 30, 188>>,
   tag |->
    <<43, 10, 173, 194, 134, 155, 4, 29, 228, 140, 151, 159, 190, 217,
      123, 138>>],
  [msglen |-> 17, adlen |-> 16, ct |->
    <<44, 222, 40, 219, 187, 217, 19, 30, 188, 86, 141, 119, 114, 91,
      37, 147, 124>>,
   tag |->
    <<77, 61, 242, 3, 32, 16, 129, 237, 50, 251, 61, 190, 57, 118, 162,
      70>>]}

==============================================================================
