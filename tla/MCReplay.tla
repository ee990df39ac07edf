------------------------------ MODULE MCReplay ------------------------------
\* Two openings on a 2 x 2 board.  In the first, with three lines left, the
\* player to move can take all boxes in one turn; in the second, with two,
\* whoever has to move makes a gift of both boxes that are left.
EXTENDS Replay

Harvest == << <<<<0, 0>>, "top">>, <<<<0, 0>>, "left">>, <<<<0, 1>>, "top">>,
              <<<<0, 1>>, "right">>, <<<<1, 0>>, "left">>, <<<<1, 0>>, "bottom">>,
              <<<<1, 1>>, "right">>, <<<<1, 1>>, "bottom">>, <<<<0, 0>>, "right">> >>

Gift == << <<<<0, 0>>, "top">>, <<<<0, 0>>, "bottom">>, <<<<0, 1>>, "top">>,
           <<<<0, 1>>, "bottom">>, <<<<1, 0>>, "bottom">>, <<<<1, 1>>, "bottom">>,
           <<<<0, 0>>, "left">>, <<<<1, 0>>, "left">>, <<<<0, 0>>, "right">>,
           <<<<0, 1>>, "right">> >>

MCOpenings == {Harvest, Gift}
=============================================================================
